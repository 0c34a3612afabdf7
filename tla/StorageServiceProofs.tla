------------------------- MODULE StorageServiceProofs -------------------------
(***************************************************************************)
(* Proofs about the storage service, for every number of callers, every    *)
(* depth of its queues and every number of calls; and about three users of *)
(* its transactions: the cloud runner and a note-browsing session with its *)
(* file and journal, for every set of domains, length of the list,         *)
(* capacity of the journal and number of power losses; and the verdicts on *)
(* problems, for every number of problems, verdicts and faults.            *)
(*                                                                         *)
(* That a completion block lives as long as it is used is not inductive:   *)
(* it rests on who owns a request (Owners) and on what each state of a     *)
(* block says about its owners (Blocks).  That a call is one of            *)
(* StorageCall rests in addition on what was run and returned (History).   *)
(*                                                                         *)
(* The runner (CloudInv): a domain has one job, and the causes of its busy *)
(* flag exclude each other.  The page (PageInv): it waits for its own      *)
(* (PageWaits), an open under way is the newest and the page's             *)
(* (OpenWritten), a start is new to files and journal (StartIsNew), a      *)
(* reboot restores the page (PageStored), and the cursors stand behind the *)
(* last durable open of their session (CursorsCount); the files of the     *)
(* journal hold opens that were made (FiledKnown), whatever failed appends *)
(* left in them.                                                           *)
(*                                                                         *)
(* The verdicts (OutboxInv): the records of the journal are in order and   *)
(* none before what the server applied, the verdict on its way to the      *)
(* worker is known to nobody (VerdictsSound), the upload loop is busy with *)
(* the first record (UploadSound), and the page, its commit and the write  *)
(* of the worker agree (WriteSound, PageSound).                            *)
(***************************************************************************)
EXTENDS StorageService, NoteSession, ProblemOutbox, FiniteSetTheorems, SequenceTheorems,
        WellFoundedInduction, TLAPS

\* A queue has nothing twice.
Distinct(queue) == \A i, j \in DOMAIN queue : queue[i] = queue[j] => i = j

\* A request waits in one of the queues.
InQueue(r) == r \in Elements(foreground) \cup Elements(background)

\* A request is with one caller at most, and in one place at most on its way to
\* the storage task.
Owners ==
    /\ \A c \in Callers : At(c, "idle") <=> Req(c) = 0
    /\ \A c, d \in Callers : Req(c) = Req(d) /\ Req(c) # 0 => c = d
    /\ service.req = 0 <=> service.pc \in {"poll", "pollBackground", "parked"}
    /\ Distinct(foreground) /\ Distinct(background)
    /\ Elements(foreground) \cap Elements(background) = {}
    /\ ~InQueue(service.req)

\* Who still refers to the block of a request, from the state of the block.
Referred(r) ==
    /\ state[r] \in {"unborn", "freed"} =>
          ~InQueue(r) /\ service.req # r /\ \A c \in Callers : Req(c) # r
    /\ state[r] = "queued" =>
          \E c \in Callers :
              /\ Req(c) = r
              /\ \/ At(c, "sending") /\ ~InQueue(r) /\ service.req # r
                 \/ /\ caller[c].pc \in {"notifying", "waiting", "expired"}
                    /\ InQueue(r) \/ (service.req = r /\ service.pc = "received")
    /\ state[r] = "abandoned" =>
          /\ InQueue(r) \/ (service.req = r /\ service.pc = "received")
          /\ \A c \in Callers : Req(c) # r
    /\ state[r] = "running" =>
          /\ service.req = r /\ service.pc \in {"running", "publishing"}
          /\ \E c \in Callers :
                Req(c) = r /\ caller[c].pc \in {"notifying", "waiting", "expired", "overrunning"}
    /\ state[r] = "done" =>
          /\ ~InQueue(r)
          /\ service.req = r <=> ~signalled[r]
          /\ service.req = r => service.pc = "giving"
          /\ \E c \in Callers :
                Req(c) = r /\ caller[c].pc \in {"notifying", "waiting", "expired", "overrunning"}

\* The states of the blocks.
Blocks ==
    /\ \A r \in Requests : state[r] = "unborn" <=> r > issued
    /\ \A r \in Requests : signalled[r] => state[r] = "done"
    /\ \A r \in Requests : Referred(r)

\* What a transaction returned is what its caller gets, and a caller that was
\* refused had none run.
History ==
    \A r \in Requests :
        /\ state[r] \in {"unborn", "queued", "running", "done"} => outcome[r] = "none"
        /\ state[r] = "abandoned" => outcome[r] = "timeout"
        /\ state[r] = "freed" => outcome[r] # "none"
        /\ state[r] \in {"unborn", "queued", "abandoned"} => ran[r] = "none"
        /\ state[r] = "running" /\ service.pc = "running" => ran[r] = "none"
        /\ state[r] = "running" /\ service.pc = "publishing" =>
              ran[r] \in Outcomes /\ result[r] = ran[r]
        /\ state[r] = "done" => ran[r] \in Outcomes /\ result[r] = ran[r]
        /\ outcome[r] = "timeout" => ran[r] = "none"
        /\ outcome[r] \in Outcomes => ran[r] = outcome[r]

\* A command is overtaken before it is first seen by a look at its queue only.
Overtaking ==
    /\ ForegroundOvertakenOnce
    /\ \A r \in Requests : state[r] = "unborn" => overtaken[r] = 0
    /\ \A c \in Callers : At(c, "sending") => overtaken[Req(c)] = 0
    /\ service.pc = "pollBackground" => \A r \in Elements(foreground) : overtaken[r] = 0

\* The inductive invariant of the storage service.
IInv == TypeOK /\ Owners /\ Blocks /\ History /\ Overtaking
--------------------------------------------------------------------------------
(* The queues, as the sets of their elements. *)

\* What a send adds to a queue.
LEMMA AppendElements ==
    ASSUME NEW S, NEW queue \in Seq(S), NEW x \in S
    PROVE  /\ Append(queue, x) \in Seq(S) /\ Len(Append(queue, x)) = Len(queue) + 1
           /\ Elements(Append(queue, x)) = Elements(queue) \cup {x}
           /\ Distinct(queue) /\ x \notin Elements(queue) => Distinct(Append(queue, x))
<1>1. /\ Append(queue, x) \in Seq(S) /\ Len(Append(queue, x)) = Len(queue) + 1
      /\ Len(queue) \in Nat
      /\ DOMAIN queue = 1..Len(queue) /\ DOMAIN Append(queue, x) = 1..Len(queue) + 1
      /\ \A i \in 1..Len(queue) : Append(queue, x)[i] = queue[i]
      /\ Append(queue, x)[Len(queue) + 1] = x
  OBVIOUS
<1>2. Elements(Append(queue, x)) \subseteq Elements(queue) \cup {x}
  BY <1>1 DEF Elements
<1>3. Elements(queue) \cup {x} \subseteq Elements(Append(queue, x))
  BY <1>1 DEF Elements
<1>4. ASSUME Distinct(queue), x \notin Elements(queue)
      PROVE  Distinct(Append(queue, x))
  BY <1>1, <1>4 DEF Distinct, Elements
<1> QED BY <1>1, <1>2, <1>3, <1>4

\* What a receive takes from a queue.
LEMMA TailElements ==
    ASSUME NEW S, NEW queue \in Seq(S), queue # <<>>
    PROVE  /\ Tail(queue) \in Seq(S) /\ Len(Tail(queue)) = Len(queue) - 1
           /\ Head(queue) \in S /\ Head(queue) \in Elements(queue)
           /\ Distinct(queue) => /\ Distinct(Tail(queue))
                                 /\ Elements(Tail(queue)) = Elements(queue) \ {Head(queue)}
<1>1. /\ Tail(queue) \in Seq(S) /\ Len(Tail(queue)) = Len(queue) - 1
      /\ Len(queue) \in Nat \ {0} /\ Head(queue) = queue[1]
      /\ DOMAIN queue = 1..Len(queue) /\ DOMAIN Tail(queue) = 1..Len(queue) - 1
      /\ \A i \in 1..Len(queue) - 1 : Tail(queue)[i] = queue[i + 1]
      /\ \A i \in 1..Len(queue) : queue[i] \in S
  BY HeadTailProperties, EmptySeq
<1>2. 1 \in 1..Len(queue) /\ Head(queue) \in S /\ Head(queue) \in Elements(queue)
  BY <1>1 DEF Elements
<1>3. ASSUME Distinct(queue)
      PROVE  Distinct(Tail(queue)) /\ Elements(Tail(queue)) = Elements(queue) \ {Head(queue)}
  <2>1. Distinct(Tail(queue))
    BY <1>1, <1>3 DEF Distinct
  <2>2. Elements(Tail(queue)) \subseteq Elements(queue) \ {Head(queue)}
    <3> SUFFICES ASSUME NEW i \in 1..Len(queue) - 1
                 PROVE  Tail(queue)[i] \in Elements(queue) \ {Head(queue)}
      BY <1>1 DEF Elements
    <3>1. i + 1 \in 1..Len(queue) /\ i + 1 # 1 /\ Tail(queue)[i] = queue[i + 1]
      BY <1>1
    <3> QED BY <1>1, <1>2, <1>3, <3>1 DEF Distinct, Elements
  <2>3. Elements(queue) \ {Head(queue)} \subseteq Elements(Tail(queue))
    <3> SUFFICES ASSUME NEW i \in 1..Len(queue), queue[i] # queue[1]
                 PROVE  queue[i] \in Elements(Tail(queue))
      BY <1>1 DEF Elements
    <3>1. i - 1 \in 1..Len(queue) - 1 /\ Tail(queue)[i - 1] = queue[i]
      BY <1>1
    <3> QED BY <1>1, <3>1 DEF Elements
  <2> QED BY <2>1, <2>2, <2>3
<1> QED BY <1>1, <1>2, <1>3
\* What is queued is a request.
LEMMA QueuedRequests ==
    ASSUME TypeOK
    PROVE  /\ \A q : InQueue(q) => q \in Requests
           /\ ~InQueue(0)
<1>1. /\ \A i \in DOMAIN foreground : foreground[i] \in Requests
      /\ \A i \in DOMAIN background : background[i] \in Requests
  BY DEF TypeOK
<1> QED BY <1>1 DEF InQueue, Elements, Requests

\* A step that is not about a request leaves its block to those who refer to it.
LEMMA OtherBlocks ==
    ASSUME NEW q \in Requests, Referred(q),
           state'[q] = state[q], signalled'[q] = signalled[q], service' = service,
           InQueue(q)' <=> InQueue(q),
           \A d \in Callers : Req(d) = q \/ Req(d)' = q => caller'[d] = caller[d]
    PROVE  Referred(q)'
<1>1. \A d \in Callers : Req(d)' = q <=> Req(d) = q
  BY DEF Req
<1>2. \A d \in Callers : Req(d) = q => \A pc : At(d, pc)' <=> At(d, pc)
  BY DEF Req, At
<1> QED BY <1>1, <1>2 DEF Referred, At, Req

\* A caller inside its call owns the block of its request.
LEMMA CallerOwnsBlock ==
    ASSUME IInv, NEW c \in Callers, ~At(c, "idle")
    PROVE  /\ Req(c) \in Requests /\ Req(c) # 0
           /\ \A d \in Callers : Req(d) = Req(c) => d = c
           /\ state[Req(c)] \in {"queued", "running", "done"}
           /\ At(c, "sending") =>
                 /\ state[Req(c)] = "queued" /\ ~InQueue(Req(c)) /\ service.req # Req(c)
                 /\ ~signalled[Req(c)]
<1>1. Req(c) \in Requests /\ Req(c) # 0 /\ \A d \in Callers : Req(d) = Req(c) => d = c
  BY RequestsAssumption DEF IInv, TypeOK, Owners, Requests, Req, At
<1>2. state[Req(c)] \in {"queued", "running", "done"}
  <2>1. /\ state[Req(c)] \in {"unborn", "queued", "running", "done", "abandoned", "freed"}
        /\ Referred(Req(c))
    BY <1>1 DEF IInv, TypeOK, Blocks
  <2> QED BY <1>1, <2>1 DEF Referred
<1>3. ASSUME At(c, "sending")
      PROVE  /\ state[Req(c)] = "queued" /\ ~InQueue(Req(c)) /\ service.req # Req(c)
             /\ ~signalled[Req(c)]
  <2>1. Referred(Req(c)) /\ (signalled[Req(c)] => state[Req(c)] = "done")
    BY <1>1 DEF IInv, Blocks
  <2>2. ~(\E d \in Callers : Req(d) = Req(c) /\ ~At(d, "sending"))
    BY <1>1, <1>3
  <2>3. state[Req(c)] = "queued"
    BY <1>2, <2>1, <2>2 DEF Referred, At
  <2> QED BY <1>1, <2>1, <2>2, <2>3 DEF Referred, At
<1> QED BY <1>1, <1>2, <1>3

\* What a send does to the queues, whichever it is.
LEMMA SendQueues ==
    ASSUME IInv, NEW c \in Callers, Send(c)
    PROVE  /\ foreground' \in Seq(Requests) /\ Len(foreground') <= ForegroundDepth
           /\ background' \in Seq(Requests) /\ Len(background') <= BackgroundDepth
           /\ Distinct(foreground)' /\ Distinct(background)'
           /\ Elements(foreground)' \cap Elements(background)' = {}
           /\ \A q \in Requests : InQueue(q)' <=> InQueue(q) \/ q = Req(c)
           /\ ~InQueue(0)'
           /\ Elements(foreground)' \subseteq Elements(foreground) \cup {Req(c)}
<1>1. /\ foreground \in Seq(Requests) /\ Len(foreground) <= ForegroundDepth
      /\ background \in Seq(Requests) /\ Len(background) <= BackgroundDepth
      /\ Distinct(foreground) /\ Distinct(background)
      /\ Elements(foreground) \cap Elements(background) = {}
      /\ Len(foreground) \in Nat /\ Len(background) \in Nat
      /\ ForegroundDepth \in Nat /\ BackgroundDepth \in Nat
  BY DepthAssumption DEF IInv, TypeOK, Owners
<1>2. /\ Req(c) \in Requests
      /\ Req(c) \notin Elements(foreground) /\ Req(c) \notin Elements(background)
  BY CallerOwnsBlock DEF Send, At, InQueue
<1>3. CASE c \in Foreground
  <2>1. /\ foreground' = Append(foreground, Req(c)) /\ background' = background
        /\ Len(foreground) < ForegroundDepth
    BY <1>3 DEF Send
  <2>2. /\ foreground' \in Seq(Requests) /\ Len(foreground') = Len(foreground) + 1
        /\ Elements(foreground') = Elements(foreground) \cup {Req(c)}
        /\ Distinct(foreground')
    BY <1>1, <1>2, <2>1, AppendElements
  <2>3. 0 \notin Elements(foreground') /\ 0 \notin Elements(background')
    <3>1. \A i \in DOMAIN foreground' : foreground'[i] \in Requests
      BY <2>2, <1>1, <2>1
    <3>2. \A i \in DOMAIN background' : background'[i] \in Requests
      BY <2>2, <1>1, <2>1
    <3> QED BY <3>1, <3>2 DEF Elements, Requests
  <2> QED BY <1>1, <1>2, <2>1, <2>2, <2>3 DEF InQueue
<1>4. CASE c \notin Foreground
  <2>1. /\ background' = Append(background, Req(c)) /\ foreground' = foreground
        /\ Len(background) < BackgroundDepth
    BY <1>4 DEF Send
  <2>2. /\ background' \in Seq(Requests) /\ Len(background') = Len(background) + 1
        /\ Elements(background') = Elements(background) \cup {Req(c)}
        /\ Distinct(background')
    BY <1>1, <1>2, <2>1, AppendElements
  <2>3. 0 \notin Elements(foreground') /\ 0 \notin Elements(background')
    <3>1. \A i \in DOMAIN foreground' : foreground'[i] \in Requests
      BY <2>2, <1>1, <2>1
    <3>2. \A i \in DOMAIN background' : background'[i] \in Requests
      BY <2>2, <1>1, <2>1
    <3> QED BY <3>1, <3>2 DEF Elements, Requests
  <2> QED BY <1>1, <1>2, <2>1, <2>2, <2>3 DEF InQueue
<1> QED BY <1>3, <1>4

\* What a receive does to the queues, from either.
LEMMA ReceiveQueues ==
    ASSUME IInv, ReceiveForeground \/ ReceiveBackground
    PROVE  /\ foreground' \in Seq(Requests) /\ Len(foreground') <= ForegroundDepth
           /\ background' \in Seq(Requests) /\ Len(background') <= BackgroundDepth
           /\ Distinct(foreground)' /\ Distinct(background)'
           /\ Elements(foreground)' \cap Elements(background)' = {}
           /\ service'.req \in Requests /\ service'.req # 0 /\ InQueue(service'.req)
           /\ \A q \in Requests : InQueue(q)' <=> InQueue(q) /\ q # service'.req
<1>1. /\ foreground \in Seq(Requests) /\ Len(foreground) <= ForegroundDepth
      /\ background \in Seq(Requests) /\ Len(background) <= BackgroundDepth
      /\ Distinct(foreground) /\ Distinct(background)
      /\ Elements(foreground) \cap Elements(background) = {}
      /\ Len(foreground) \in Nat /\ Len(background) \in Nat
      /\ ForegroundDepth \in Nat /\ BackgroundDepth \in Nat
  BY DepthAssumption DEF IInv, TypeOK, Owners
<1>2. CASE ReceiveForeground
  <2>1. /\ foreground # <<>> /\ foreground' = Tail(foreground) /\ background' = background
        /\ service'.req = Head(foreground)
    BY <1>2 DEF ReceiveForeground, Serve
  <2>2. /\ foreground' \in Seq(Requests) /\ Len(foreground') = Len(foreground) - 1
        /\ Head(foreground) \in Requests /\ Head(foreground) \in Elements(foreground)
        /\ Distinct(foreground')
        /\ Elements(foreground') = Elements(foreground) \ {Head(foreground)}
    BY <1>1, <2>1, TailElements
  <2> QED BY <1>1, <2>1, <2>2 DEF InQueue, Requests
<1>3. CASE ReceiveBackground
  <2>1. /\ background # <<>> /\ background' = Tail(background) /\ foreground' = foreground
        /\ service'.req = Head(background)
    BY <1>3 DEF ReceiveBackground, Serve
  <2>2. /\ background' \in Seq(Requests) /\ Len(background') = Len(background) - 1
        /\ Head(background) \in Requests /\ Head(background) \in Elements(background)
        /\ Distinct(background')
        /\ Elements(background') = Elements(background) \ {Head(background)}
    BY <1>1, <2>1, TailElements
  <2> QED BY <1>1, <2>1, <2>2 DEF InQueue, Requests
<1> QED BY <1>2, <1>3
--------------------------------------------------------------------------------
\* Every step of a caller keeps the invariant.
LEMMA CallerSteps ==
    ASSUME IInv, NEW c \in Callers, Call(c) \/ CallerStep(c)
    PROVE  IInv'
<1> USE DEF IInv, TypeOK, Owners, InQueue, Blocks, Referred, History, Overtaking,
        ForegroundOvertakenOnce, Callers, Requests, Outcomes, Steps, At, Req, Go, Serve,
        ReturnWith
<1>1. CASE Call(c)
  <2>1. TypeOK'
    BY <1>1, RequestsAssumption DEF Call
  <2>2. Owners'
    BY <1>1, RequestsAssumption DEF Call
  <2>3. Blocks'
    <3>1. \A q \in Requests : state'[q] = "unborn" <=> q > issued'
      BY <1>1, RequestsAssumption DEF Call
    <3>2. \A q \in Requests : signalled'[q] => state'[q] = "done"
      BY <1>1, RequestsAssumption DEF Call
    <3>3. ASSUME NEW q \in Requests, q # issued + 1
          PROVE  Referred(q)'
      <4>1. /\ state'[q] = state[q] /\ signalled'[q] = signalled[q] /\ service' = service
            /\ InQueue(q)' <=> InQueue(q)
        BY <1>1, <3>3, RequestsAssumption DEF Call
      <4>2. \A d \in Callers : Req(d) = q \/ Req(d)' = q => caller'[d] = caller[d]
        BY <1>1, <3>3, RequestsAssumption DEF Call
      <4>3. Referred(q)
        BY DEF IInv, Blocks
      <4> QED BY <4>1, <4>2, <4>3, OtherBlocks DEF Callers, Requests
    <3>4. ASSUME NEW q \in Requests, q = issued + 1
          PROVE  Referred(q)'
      BY <1>1, <3>4, RequestsAssumption DEF Call
    <3> HIDE DEF Referred
    <3> QED BY <3>1, <3>2, <3>3, <3>4
  <2>4. History'
    BY <1>1, RequestsAssumption DEF Call
  <2>5. Overtaking'
    BY <1>1, RequestsAssumption DEF Call
  <2> QED BY <2>1, <2>2, <2>3, <2>4, <2>5
<1>2. CASE Send(c)
  <2>0. ~At(c, "idle")
    BY <1>2 DEF Send
  <2>6. /\ caller' = [caller EXCEPT ![c] = [pc |-> "notifying", req |-> Req(c)]]
        /\ UNCHANGED <<state, signalled, result, service, notified, issued, outcome, ran,
                       overtaken>>
    BY <1>2 DEF Send
  <2>1. TypeOK'
    BY <2>6, <1>2, SendQueues
  <2>2. Owners'
    <3>1. \A d \in Callers : Req(d)' = Req(d) /\ (At(d, "idle")' <=> At(d, "idle"))
      BY <2>6, <2>0
    <3>2. ~InQueue(service.req)'
      <4>1. service' = service /\ service.req \in Requests \cup {0} /\ service.req # Req(c)
        BY <2>6, <1>2, <2>0, CallerOwnsBlock DEF Send
      <4>2. ~InQueue(service.req)
        OBVIOUS
      <4>3. ~InQueue(0)' /\ \A q \in Requests : InQueue(q)' <=> InQueue(q) \/ q = Req(c)
        BY <1>2, SendQueues
      <4> HIDE DEF InQueue, Req, Requests
      <4> QED BY <4>1, <4>2, <4>3
    <3> QED BY <2>6, <1>2, <3>1, <3>2, SendQueues DEF Owners
  <2>3. Blocks'
    <3>1. \A q \in Requests : state'[q] = "unborn" <=> q > issued'
      BY <1>2, <2>0, CallerOwnsBlock, SendQueues DEF Send
    <3>2. \A q \in Requests : signalled'[q] => state'[q] = "done"
      BY <1>2, <2>0, CallerOwnsBlock, SendQueues DEF Send
    <3>3. ASSUME NEW q \in Requests, q # Req(c)
          PROVE  Referred(q)'
      <4>1. /\ state'[q] = state[q] /\ signalled'[q] = signalled[q] /\ service' = service
            /\ InQueue(q)' <=> InQueue(q)
        BY <1>2, <3>3, <2>0, CallerOwnsBlock, SendQueues DEF Send
      <4>2. \A d \in Callers : Req(d) = q \/ Req(d)' = q => caller'[d] = caller[d]
        BY <1>2, <3>3, <2>0, CallerOwnsBlock, SendQueues DEF Send
      <4>3. Referred(q)
        BY DEF IInv, Blocks
      <4> QED BY <4>1, <4>2, <4>3, OtherBlocks DEF Callers, Requests
    <3>4. ASSUME NEW q \in Requests, q = Req(c)
          PROVE  Referred(q)'
      BY <1>2, <3>4, <2>0, CallerOwnsBlock, SendQueues DEF Send
    <3> HIDE DEF Referred
    <3> QED BY <3>1, <3>2, <3>3, <3>4
  <2>4. History'
    BY <1>2, <2>0, CallerOwnsBlock, SendQueues DEF Send
  <2>5. Overtaking'
    <3>1. /\ overtaken[Req(c)] = 0
          /\ Elements(foreground)' \subseteq Elements(foreground) \cup {Req(c)}
      BY <1>2, <2>0, SendQueues DEF Send
    <3> QED BY <2>6, <3>1
  <2> QED BY <2>1, <2>2, <2>3, <2>4, <2>5
<1>3. CASE Notify(c)
  <2>0. ~At(c, "idle")
    BY <1>3 DEF Notify
  <2>1. TypeOK'
    BY <1>3, <2>0, CallerOwnsBlock DEF Notify
  <2>2. Owners'
    BY <1>3, <2>0, CallerOwnsBlock DEF Notify
  <2>3. Blocks'
    <3>1. \A q \in Requests : state'[q] = "unborn" <=> q > issued'
      BY <1>3, <2>0, CallerOwnsBlock DEF Notify
    <3>2. \A q \in Requests : signalled'[q] => state'[q] = "done"
      BY <1>3, <2>0, CallerOwnsBlock DEF Notify
    <3>3. ASSUME NEW q \in Requests, q # Req(c)
          PROVE  Referred(q)'
      <4>1. /\ state'[q] = state[q] /\ signalled'[q] = signalled[q] /\ service' = service
            /\ InQueue(q)' <=> InQueue(q)
        BY <1>3, <3>3, <2>0, CallerOwnsBlock DEF Notify
      <4>2. \A d \in Callers : Req(d) = q \/ Req(d)' = q => caller'[d] = caller[d]
        BY <1>3, <3>3, <2>0, CallerOwnsBlock DEF Notify
      <4>3. Referred(q)
        BY DEF IInv, Blocks
      <4> QED BY <4>1, <4>2, <4>3, OtherBlocks DEF Callers, Requests
    <3>4. ASSUME NEW q \in Requests, q = Req(c)
          PROVE  Referred(q)'
      BY <1>3, <3>4, <2>0, CallerOwnsBlock DEF Notify
    <3> HIDE DEF Referred
    <3> QED BY <3>1, <3>2, <3>3, <3>4
  <2>4. History'
    BY <1>3, <2>0, CallerOwnsBlock DEF Notify
  <2>5. Overtaking'
    BY <1>3, <2>0, CallerOwnsBlock DEF Notify
  <2> QED BY <2>1, <2>2, <2>3, <2>4, <2>5
<1>4. CASE SendTimesOut(c)
  <2>0. ~At(c, "idle")
    BY <1>4 DEF SendTimesOut
  <2>1. TypeOK'
    BY <1>4, <2>0, CallerOwnsBlock, RequestsAssumption DEF SendTimesOut
  <2>2. Owners'
    BY <1>4, <2>0, CallerOwnsBlock DEF SendTimesOut
  <2>3. Blocks'
    <3>1. \A q \in Requests : state'[q] = "unborn" <=> q > issued'
      BY <1>4, <2>0, CallerOwnsBlock DEF SendTimesOut
    <3>2. \A q \in Requests : signalled'[q] => state'[q] = "done"
      BY <1>4, <2>0, CallerOwnsBlock DEF SendTimesOut
    <3>3. ASSUME NEW q \in Requests, q # Req(c)
          PROVE  Referred(q)'
      <4>1. /\ state'[q] = state[q] /\ signalled'[q] = signalled[q] /\ service' = service
            /\ InQueue(q)' <=> InQueue(q)
        BY <1>4, <3>3, <2>0, CallerOwnsBlock DEF SendTimesOut
      <4>2. \A d \in Callers : Req(d) = q \/ Req(d)' = q => caller'[d] = caller[d]
        BY <1>4, <3>3, <2>0, CallerOwnsBlock DEF SendTimesOut
      <4>3. Referred(q)
        BY DEF IInv, Blocks
      <4> QED BY <4>1, <4>2, <4>3, OtherBlocks DEF Callers, Requests
    <3>4. ASSUME NEW q \in Requests, q = Req(c)
          PROVE  Referred(q)'
      BY <1>4, <3>4, <2>0, CallerOwnsBlock DEF SendTimesOut
    <3> HIDE DEF Referred
    <3> QED BY <3>1, <3>2, <3>3, <3>4
  <2>4. History'
    BY <1>4, <2>0, CallerOwnsBlock DEF SendTimesOut
  <2>5. Overtaking'
    BY <1>4, <2>0, CallerOwnsBlock DEF SendTimesOut
  <2> QED BY <2>1, <2>2, <2>3, <2>4, <2>5
<1>5. CASE Return(c)
  <2>0. ~At(c, "idle")
    BY <1>5 DEF Return
  <2>1. TypeOK'
    <3>1. Req(c) \in Requests /\ 0 \in 0..MaxRequests
      BY <2>0, CallerOwnsBlock, RequestsAssumption
    <3>2. /\ caller' = [caller EXCEPT ![c] = [pc |-> "idle", req |-> 0]]
          /\ state' = [state EXCEPT ![Req(c)] = "freed"]
          /\ outcome' = [outcome EXCEPT ![Req(c)] = result[Req(c)]]
      BY <1>5 DEF Return
    <3>3. result[Req(c)] \in Outcomes \cup {"none", "timeout"}
      BY <3>1
    <3>4. caller' \in [Callers -> [pc : Steps, req : 0..MaxRequests]]
      BY <3>1, <3>2
    <3>5. outcome' \in [Requests -> Outcomes \cup {"none", "timeout"}]
      BY <3>2, <3>3
    <3> QED BY <1>5, <3>2, <3>4, <3>5 DEF Return
  <2>2. Owners'
    BY <1>5, <2>0, CallerOwnsBlock DEF Return
  <2>3. Blocks'
    <3>1. \A q \in Requests : state'[q] = "unborn" <=> q > issued'
      BY <1>5, <2>0, CallerOwnsBlock DEF Return
    <3>2. \A q \in Requests : signalled'[q] => state'[q] = "done"
      BY <1>5, <2>0, CallerOwnsBlock DEF Return
    <3>3. ASSUME NEW q \in Requests, q # Req(c)
          PROVE  Referred(q)'
      <4>1. /\ state'[q] = state[q] /\ signalled'[q] = signalled[q] /\ service' = service
            /\ InQueue(q)' <=> InQueue(q)
        BY <1>5, <3>3, <2>0, CallerOwnsBlock DEF Return
      <4>2. \A d \in Callers : Req(d) = q \/ Req(d)' = q => caller'[d] = caller[d]
        BY <1>5, <3>3, <2>0, CallerOwnsBlock DEF Return
      <4>3. Referred(q)
        BY DEF IInv, Blocks
      <4> QED BY <4>1, <4>2, <4>3, OtherBlocks DEF Callers, Requests
    <3>4. ASSUME NEW q \in Requests, q = Req(c)
          PROVE  Referred(q)'
      BY <1>5, <3>4, <2>0, CallerOwnsBlock DEF Return
    <3> HIDE DEF Referred
    <3> QED BY <3>1, <3>2, <3>3, <3>4
  <2>4. History'
    BY <1>5, <2>0, CallerOwnsBlock DEF Return
  <2>5. Overtaking'
    BY <1>5, <2>0, CallerOwnsBlock DEF Return
  <2> QED BY <2>1, <2>2, <2>3, <2>4, <2>5
<1>6. CASE TakeTimesOut(c)
  <2>0. ~At(c, "idle")
    BY <1>6 DEF TakeTimesOut
  <2>1. TypeOK'
    BY <1>6, <2>0, CallerOwnsBlock DEF TakeTimesOut
  <2>2. Owners'
    BY <1>6, <2>0, CallerOwnsBlock DEF TakeTimesOut
  <2>3. Blocks'
    <3>1. \A q \in Requests : state'[q] = "unborn" <=> q > issued'
      BY <1>6, <2>0, CallerOwnsBlock DEF TakeTimesOut
    <3>2. \A q \in Requests : signalled'[q] => state'[q] = "done"
      BY <1>6, <2>0, CallerOwnsBlock DEF TakeTimesOut
    <3>3. ASSUME NEW q \in Requests, q # Req(c)
          PROVE  Referred(q)'
      <4>1. /\ state'[q] = state[q] /\ signalled'[q] = signalled[q] /\ service' = service
            /\ InQueue(q)' <=> InQueue(q)
        BY <1>6, <3>3, <2>0, CallerOwnsBlock DEF TakeTimesOut
      <4>2. \A d \in Callers : Req(d) = q \/ Req(d)' = q => caller'[d] = caller[d]
        BY <1>6, <3>3, <2>0, CallerOwnsBlock DEF TakeTimesOut
      <4>3. Referred(q)
        BY DEF IInv, Blocks
      <4> QED BY <4>1, <4>2, <4>3, OtherBlocks DEF Callers, Requests
    <3>4. ASSUME NEW q \in Requests, q = Req(c)
          PROVE  Referred(q)'
      BY <1>6, <3>4, <2>0, CallerOwnsBlock DEF TakeTimesOut
    <3> HIDE DEF Referred
    <3> QED BY <3>1, <3>2, <3>3, <3>4
  <2>4. History'
    BY <1>6, <2>0, CallerOwnsBlock DEF TakeTimesOut
  <2>5. Overtaking'
    BY <1>6, <2>0, CallerOwnsBlock DEF TakeTimesOut
  <2> QED BY <2>1, <2>2, <2>3, <2>4, <2>5
<1>7. CASE Abandon(c)
  <2>0. ~At(c, "idle")
    BY <1>7 DEF Abandon
  <2>1. TypeOK'
    <3>1. Req(c) \in Requests /\ 0 \in 0..MaxRequests
      BY <2>0, CallerOwnsBlock, RequestsAssumption
    <3>2. /\ caller' = [caller EXCEPT ![c] = [pc |-> "idle", req |-> 0]]
          /\ state' = [state EXCEPT ![Req(c)] = "abandoned"]
          /\ outcome' = [outcome EXCEPT ![Req(c)] = "timeout"]
      BY <1>7 DEF Abandon
    <3>3. "timeout" \in Outcomes \cup {"none", "timeout"}
      BY <3>1
    <3>4. caller' \in [Callers -> [pc : Steps, req : 0..MaxRequests]]
      BY <3>1, <3>2
    <3>5. outcome' \in [Requests -> Outcomes \cup {"none", "timeout"}]
      BY <3>2, <3>3
    <3> QED BY <1>7, <3>2, <3>4, <3>5 DEF Abandon
  <2>2. Owners'
    BY <1>7, <2>0, CallerOwnsBlock DEF Abandon
  <2>3. Blocks'
    <3>1. \A q \in Requests : state'[q] = "unborn" <=> q > issued'
      BY <1>7, <2>0, CallerOwnsBlock DEF Abandon
    <3>2. \A q \in Requests : signalled'[q] => state'[q] = "done"
      BY <1>7, <2>0, CallerOwnsBlock DEF Abandon
    <3>3. ASSUME NEW q \in Requests, q # Req(c)
          PROVE  Referred(q)'
      <4>1. /\ state'[q] = state[q] /\ signalled'[q] = signalled[q] /\ service' = service
            /\ InQueue(q)' <=> InQueue(q)
        BY <1>7, <3>3, <2>0, CallerOwnsBlock DEF Abandon
      <4>2. \A d \in Callers : Req(d) = q \/ Req(d)' = q => caller'[d] = caller[d]
        BY <1>7, <3>3, <2>0, CallerOwnsBlock DEF Abandon
      <4>3. Referred(q)
        BY DEF IInv, Blocks
      <4> QED BY <4>1, <4>2, <4>3, OtherBlocks DEF Callers, Requests
    <3>4. ASSUME NEW q \in Requests, q = Req(c)
          PROVE  Referred(q)'
      BY <1>7, <3>4, <2>0, CallerOwnsBlock, SMTT(30) DEF Abandon
    <3> HIDE DEF Referred
    <3> QED BY <3>1, <3>2, <3>3, <3>4
  <2>4. History'
    BY <1>7, <2>0, CallerOwnsBlock DEF Abandon
  <2>5. Overtaking'
    BY <1>7, <2>0, CallerOwnsBlock DEF Abandon
  <2> QED BY <2>1, <2>2, <2>3, <2>4, <2>5
<1>8. CASE Overrun(c)
  <2>0. ~At(c, "idle")
    BY <1>8 DEF Overrun
  <2>1. TypeOK'
    BY <1>8, <2>0, CallerOwnsBlock DEF Overrun
  <2>2. Owners'
    BY <1>8, <2>0, CallerOwnsBlock DEF Overrun
  <2>3. Blocks'
    <3>1. \A q \in Requests : state'[q] = "unborn" <=> q > issued'
      BY <1>8, <2>0, CallerOwnsBlock DEF Overrun
    <3>2. \A q \in Requests : signalled'[q] => state'[q] = "done"
      BY <1>8, <2>0, CallerOwnsBlock DEF Overrun
    <3>3. ASSUME NEW q \in Requests, q # Req(c)
          PROVE  Referred(q)'
      <4>1. /\ state'[q] = state[q] /\ signalled'[q] = signalled[q] /\ service' = service
            /\ InQueue(q)' <=> InQueue(q)
        BY <1>8, <3>3, <2>0, CallerOwnsBlock DEF Overrun
      <4>2. \A d \in Callers : Req(d) = q \/ Req(d)' = q => caller'[d] = caller[d]
        BY <1>8, <3>3, <2>0, CallerOwnsBlock DEF Overrun
      <4>3. Referred(q)
        BY DEF IInv, Blocks
      <4> QED BY <4>1, <4>2, <4>3, OtherBlocks DEF Callers, Requests
    <3>4. ASSUME NEW q \in Requests, q = Req(c)
          PROVE  Referred(q)'
      BY <1>8, <3>4, <2>0, CallerOwnsBlock DEF Overrun
    <3> HIDE DEF Referred
    <3> QED BY <3>1, <3>2, <3>3, <3>4
  <2>4. History'
    BY <1>8, <2>0, CallerOwnsBlock DEF Overrun
  <2>5. Overtaking'
    BY <1>8, <2>0, CallerOwnsBlock DEF Overrun
  <2> QED BY <2>1, <2>2, <2>3, <2>4, <2>5
<1> QED BY <1>1, <1>2, <1>3, <1>4, <1>5, <1>6, <1>7, <1>8 DEF CallerStep

\* Every step of the storage task keeps the invariant.
LEMMA ServiceSteps ==
    ASSUME IInv, ServiceStep \/ Transact
    PROVE  IInv'
<1> USE DEF IInv, TypeOK, Owners, InQueue, Blocks, Referred, History, Overtaking,
        ForegroundOvertakenOnce, Callers, Requests, Outcomes, Steps, At, Req, Go, Serve,
        ReturnWith
<1>1. CASE ReceiveForeground
  <2>1. TypeOK'
    BY <1>1, ReceiveQueues DEF ReceiveForeground
  <2>2. Owners'
    BY <1>1, ReceiveQueues DEF ReceiveForeground
  <2>3. Blocks'
    BY <1>1, ReceiveQueues DEF ReceiveForeground
  <2>4. History'
    BY <1>1, ReceiveQueues DEF ReceiveForeground
  <2>5. Overtaking'
    BY <1>1, ReceiveQueues DEF ReceiveForeground
  <2> QED BY <2>1, <2>2, <2>3, <2>4, <2>5
<1>2. CASE ForegroundEmpty
  <2>1. TypeOK'
    BY <1>2 DEF ForegroundEmpty
  <2>2. Owners'
    BY <1>2 DEF ForegroundEmpty
  <2>3. Blocks'
    BY <1>2 DEF ForegroundEmpty
  <2>4. History'
    BY <1>2 DEF ForegroundEmpty
  <2>5. Overtaking'
    BY <1>2 DEF ForegroundEmpty, Elements
  <2> QED BY <2>1, <2>2, <2>3, <2>4, <2>5
<1>3. CASE ReceiveBackground
  <2>1. TypeOK'
    BY <1>3, ReceiveQueues DEF ReceiveBackground
  <2>2. Owners'
    BY <1>3, ReceiveQueues DEF ReceiveBackground
  <2>3. Blocks'
    BY <1>3, ReceiveQueues DEF ReceiveBackground
  <2>4. History'
    BY <1>3, ReceiveQueues DEF ReceiveBackground
  <2>5. Overtaking'
    <3>1. \A r \in Requests : overtaken'[r] <= 1
      BY <1>3 DEF ReceiveBackground
    <3>2. \A r \in Requests : r \notin Elements(foreground) => overtaken'[r] = overtaken[r]
      BY <1>3 DEF ReceiveBackground
    <3>3. \A r \in Requests : state[r] = "unborn" => r \notin Elements(foreground)
      OBVIOUS
    <3>4. \A c \in Callers : At(c, "sending") => Req(c) \in Requests /\ ~InQueue(Req(c))
      BY CallerOwnsBlock
    <3> QED BY <1>3, <3>1, <3>2, <3>3, <3>4 DEF ReceiveBackground
  <2> QED BY <2>1, <2>2, <2>3, <2>4, <2>5
<1>4. CASE BackgroundEmpty
  <2>1. TypeOK'
    BY <1>4 DEF BackgroundEmpty
  <2>2. Owners'
    BY <1>4 DEF BackgroundEmpty
  <2>3. Blocks'
    BY <1>4 DEF BackgroundEmpty
  <2>4. History'
    BY <1>4 DEF BackgroundEmpty
  <2>5. Overtaking'
    BY <1>4 DEF BackgroundEmpty
  <2> QED BY <2>1, <2>2, <2>3, <2>4, <2>5
<1>5. CASE Wake
  <2>1. TypeOK'
    BY <1>5 DEF Wake
  <2>2. Owners'
    BY <1>5 DEF Wake
  <2>3. Blocks'
    BY <1>5 DEF Wake
  <2>4. History'
    BY <1>5 DEF Wake
  <2>5. Overtaking'
    BY <1>5 DEF Wake
  <2> QED BY <2>1, <2>2, <2>3, <2>4, <2>5
<1>6. CASE Start
  <2>1. TypeOK'
    BY <1>6 DEF Start
  <2>2. Owners'
    BY <1>6 DEF Start
  <2>3. Blocks'
    BY <1>6 DEF Start
  <2>4. History'
    BY <1>6 DEF Start
  <2>5. Overtaking'
    BY <1>6 DEF Start
  <2> QED BY <2>1, <2>2, <2>3, <2>4, <2>5
<1>7. CASE SkipAbandoned
  <2>1. TypeOK'
    BY <1>7, RequestsAssumption DEF SkipAbandoned
  <2>2. Owners'
    BY <1>7, QueuedRequests DEF SkipAbandoned
  <2>3. Blocks'
    BY <1>7 DEF SkipAbandoned
  <2>4. History'
    BY <1>7 DEF SkipAbandoned
  <2>5. Overtaking'
    BY <1>7 DEF SkipAbandoned
  <2> QED BY <2>1, <2>2, <2>3, <2>4, <2>5
<1>8. CASE Transact
  <2>1. TypeOK'
    BY <1>8 DEF Transact
  <2>2. Owners'
    BY <1>8 DEF Transact
  <2>3. Blocks'
    BY <1>8 DEF Transact
  <2>4. History'
    BY <1>8 DEF Transact
  <2>5. Overtaking'
    BY <1>8 DEF Transact
  <2> QED BY <2>1, <2>2, <2>3, <2>4, <2>5
<1>9. CASE Publish
  <2>1. TypeOK'
    BY <1>9 DEF Publish
  <2>2. Owners'
    BY <1>9 DEF Publish
  <2>3. Blocks'
    BY <1>9 DEF Publish
  <2>4. History'
    BY <1>9 DEF Publish
  <2>5. Overtaking'
    BY <1>9 DEF Publish
  <2> QED BY <2>1, <2>2, <2>3, <2>4, <2>5
<1>10. CASE Give
  <2>1. TypeOK'
    BY <1>10, RequestsAssumption DEF Give
  <2>2. Owners'
    BY <1>10, QueuedRequests DEF Give
  <2>3. Blocks'
    BY <1>10 DEF Give
  <2>4. History'
    BY <1>10 DEF Give
  <2>5. Overtaking'
    BY <1>10 DEF Give
  <2> QED BY <2>1, <2>2, <2>3, <2>4, <2>5
<1> QED BY <1>1, <1>2, <1>3, <1>4, <1>5, <1>6, <1>7, <1>8, <1>9, <1>10 DEF ServiceStep
--------------------------------------------------------------------------------
(* The theorems. *)

\* No step reaches a state in which the queues, the blocks, their owners and what
\* was returned do not fit together.
LEMMA Inductive ==
    Spec => []IInv
<1>1. Init => IInv
  <2> SUFFICES ASSUME Init
               PROVE  IInv
    OBVIOUS
  <2>1. TypeOK
    <3>1. 0 \in 0..MaxRequests /\ ForegroundDepth \in Nat /\ BackgroundDepth \in Nat
      BY DepthAssumption, RequestsAssumption
    <3>2. <<>> \in Seq(Requests) /\ Len(<<>>) = 0
      OBVIOUS
    <3>3. /\ foreground \in Seq(Requests) /\ Len(foreground) <= ForegroundDepth
          /\ background \in Seq(Requests) /\ Len(background) <= BackgroundDepth
      BY <3>1, <3>2 DEF Init
    <3>4. /\ caller \in [Callers -> [pc : Steps, req : 0..MaxRequests]]
          /\ service \in [pc : {"poll", "pollBackground", "parked", "received", "running",
                                "publishing", "giving"}, req : 0..MaxRequests]
      BY <3>1 DEF Init, Steps
    <3>5. /\ state \in [Requests -> {"unborn", "queued", "running", "done", "abandoned",
                                     "freed"}]
          /\ signalled \in [Requests -> BOOLEAN] /\ result \in [Requests -> Outcomes]
          /\ outcome \in [Requests -> Outcomes \cup {"none", "timeout"}]
          /\ ran \in [Requests -> Outcomes \cup {"none"}]
          /\ overtaken \in [Requests -> Nat]
      BY DEF Init, Outcomes
    <3> QED BY <3>1, <3>3, <3>4, <3>5 DEF Init, TypeOK
  <2>2. Elements(foreground) = {} /\ Elements(background) = {}
    BY DEF Init, Elements
  <2>3. Distinct(foreground) /\ Distinct(background)
    BY DEF Init, Distinct
  <2>4. Owners
    BY <2>2, <2>3 DEF Init, Owners, InQueue, At, Req
  <2>5. Blocks
    BY <2>2 DEF Init, Blocks, Referred, InQueue, At, Req, Requests
  <2>6. History
    BY DEF Init, History, Outcomes
  <2>7. Overtaking
    BY <2>2 DEF Init, Overtaking, ForegroundOvertakenOnce, At
  <2> QED BY <2>1, <2>4, <2>5, <2>6, <2>7 DEF IInv
<1>2. IInv /\ [Next]_vars => IInv'
  <2> SUFFICES ASSUME IInv, [Next]_vars
               PROVE  IInv'
    OBVIOUS
  <2>1. CASE Next
    BY <2>1, CallerSteps, ServiceSteps DEF Next
  <2>2. CASE UNCHANGED vars
    <3> USE <2>2 DEF vars, At, Req
    <3>1. TypeOK'
      BY DEF IInv, TypeOK
    <3>2. Owners'
      BY DEF IInv, Owners, InQueue
    <3>3. Blocks'
      BY DEF IInv, Blocks, Referred, InQueue
    <3>4. History'
      BY DEF IInv, History
    <3>5. Overtaking'
      BY DEF IInv, Overtaking, ForegroundOvertakenOnce
    <3> QED BY <3>1, <3>2, <3>3, <3>4, <3>5 DEF IInv
  <2> QED BY <2>1, <2>2
<1> QED BY <1>1, <1>2, PTL DEF Spec

\* A completion block and the stack of the caller outlive every use that a queue,
\* a caller or the storage task still has for them.
THEOREM SharedMemoryIsSound ==
    Spec => []SharedMemorySound
<1>1. IInv => SharedMemorySound
  <2> SUFFICES ASSUME IInv
               PROVE  SharedMemorySound
    OBVIOUS
  <2>1. ContextOutlivesTransaction
    <3> SUFFICES ASSUME service.pc = "running"
                 PROVE  \E c \in Callers :
                            /\ Req(c) = service.req
                            /\ caller[c].pc \in {"notifying", "waiting", "expired",
                                                 "overrunning"}
      BY DEF ContextOutlivesTransaction
    <3>1. service.req \in Requests
      BY RequestsAssumption DEF IInv, TypeOK, Owners, Requests
    <3>2. Referred(service.req) /\ ~InQueue(service.req)
      BY <3>1 DEF IInv, Blocks, Owners
    <3>3. state[service.req] = "running"
      BY <3>1, <3>2 DEF IInv, TypeOK, Referred
    <3> QED BY <3>2, <3>3 DEF Referred
  <2>2. ASSUME NEW r \in Requests
        PROVE  state[r] \notin {"unborn", "freed"} <=>
                   \/ r \in Elements(foreground) \cup Elements(background)
                   \/ service.req = r
                   \/ \E c \in Callers : Req(c) = r
    <3>1. /\ state[r] \in {"unborn", "queued", "running", "done", "abandoned", "freed"}
          /\ Referred(r)
      BY DEF IInv, TypeOK, Blocks
    <3> QED BY <3>1 DEF Referred, InQueue
  <2> QED BY <2>1, <2>2 DEF SharedMemorySound, CompletionLivesAsLongAsUsed, IInv
<1> QED BY <1>1, Inductive, PTL

\* No foreground command sees more than one background command go first.
THEOREM OvertakenOnce ==
    Spec => []ForegroundOvertakenOnce
<1>1. IInv => ForegroundOvertakenOnce
  BY DEF IInv, Overtaking
<1> QED BY <1>1, Inductive, PTL
--------------------------------------------------------------------------------
(* The service implements StorageCall. *)

\* What StorageCall sees as the outcome of a request.
Shown(r) == IF outcome[r] \in Outcomes THEN outcome[r] ELSE ran[r]

\* A step that neither creates, runs nor answers a request leaves its phase alone.
LEMMA PhaseUnchanged ==
    ASSUME NEW r \in Requests, outcome'[r] = outcome[r], ran'[r] = ran[r],
           state'[r] = "unborn" <=> state[r] = "unborn"
    PROVE  PhaseOf(r)' = PhaseOf(r) /\ Shown(r)' = Shown(r)
BY DEF PhaseOf, Shown

\* A step that changes the phase of one request only is one step of StorageCall.
LEMMA OnePhase ==
    ASSUME NEW r \in Requests,
           \A q \in Requests \ {r} : PhaseOf(q)' = PhaseOf(q) /\ Shown(q)' = Shown(q),
           \/ /\ PhaseOf(r) = "none" /\ PhaseOf(r)' = "submitted"
              /\ Shown(r)' = Shown(r)
           \/ /\ PhaseOf(r) = "submitted" /\ PhaseOf(r)' = "run"
              /\ Shown(r)' \in Outcomes
           \/ /\ PhaseOf(r) = "run" /\ PhaseOf(r)' = "returned"
              /\ Shown(r)' = Shown(r)
           \/ /\ PhaseOf(r) = "submitted" /\ PhaseOf(r)' = "refused"
              /\ Shown(r)' = Shown(r)
    PROVE  CallOf!Next
<1> DEFINE phase == [q \in Requests |-> PhaseOf(q)]
           shown == [q \in Requests |-> Shown(q)]
<1>1. phase' = [phase EXCEPT ![r] = PhaseOf(r)']
  OBVIOUS
<1>2. shown' = [shown EXCEPT ![r] = Shown(r)']
  OBVIOUS
<1>3. Shown(r)' = Shown(r) => shown' = shown
  OBVIOUS
<1> QED BY <1>1, <1>2, <1>3
        DEF CallOf!Next, CallOf!Submit, CallOf!Run, CallOf!Return, CallOf!Refuse, CallOf!Step,
            Shown

\* Each call is one of StorageCall.
THEOREM ServiceImplementsCall ==
    Spec => ImplementsCall
<1>1. Init => CallOf!Init
  BY DEF Init, CallOf!Init, PhaseOf, Outcomes
<1>2. IInv /\ [Next]_vars => [CallOf!Next]_(CallOf!vars)
  <2> SUFFICES ASSUME IInv, [Next]_vars
               PROVE  CallOf!Next \/ UNCHANGED CallOf!vars
    OBVIOUS
  <2>1. ASSUME \A r \in Requests : /\ outcome'[r] = outcome[r] /\ ran'[r] = ran[r]
                                   /\ state'[r] = "unborn" <=> state[r] = "unborn"
        PROVE  UNCHANGED CallOf!vars
    BY <2>1, PhaseUnchanged DEF CallOf!vars, Shown
  <2>2. ASSUME NEW c \in Callers, Call(c)
        PROVE  CallOf!Next
    <3>1. PICK r \in Requests :
             /\ state[r] = "unborn" /\ state' = [state EXCEPT ![r] = "queued"]
             /\ outcome' = outcome /\ ran' = ran
      <4>1. issued + 1 \in Requests /\ state[issued + 1] = "unborn"
        BY <2>2, RequestsAssumption DEF Call, IInv, TypeOK, Blocks, Requests
      <4> QED BY <2>2, <4>1 DEF Call
    <3>2. outcome[r] = "none" /\ ran[r] = "none" /\ state'[r] = "queued"
      BY <3>1 DEF IInv, TypeOK, History
    <3>3. PhaseOf(r) = "none" /\ PhaseOf(r)' = "submitted" /\ Shown(r)' = Shown(r)
      BY <3>1, <3>2 DEF PhaseOf, Shown, Outcomes
    <3>4. \A q \in Requests \ {r} : PhaseOf(q)' = PhaseOf(q) /\ Shown(q)' = Shown(q)
      BY <3>1, PhaseUnchanged DEF IInv, TypeOK
    <3> QED BY <3>3, <3>4, OnePhase
  <2>3. ASSUME NEW c \in Callers, SendTimesOut(c) \/ Abandon(c)
        PROVE  CallOf!Next
    <3>1. PICK r \in Requests :
             /\ state[r] = "queued" /\ outcome' = [outcome EXCEPT ![r] = "timeout"]
             /\ ran' = ran
             /\ \E value \in {"freed", "abandoned"} : state' = [state EXCEPT ![r] = value]
      <4>1. Req(c) \in Requests /\ state[Req(c)] = "queued"
        BY <2>3, CallerOwnsBlock DEF SendTimesOut, Abandon, At
      <4> QED BY <2>3, <4>1 DEF SendTimesOut, Abandon, ReturnWith
    <3>2. /\ outcome[r] = "none" /\ ran[r] = "none" /\ outcome'[r] = "timeout"
          /\ state'[r] \in {"freed", "abandoned"}
      BY <3>1 DEF IInv, TypeOK, History
    <3>3. PhaseOf(r) = "submitted" /\ PhaseOf(r)' = "refused" /\ Shown(r)' = Shown(r)
      BY <3>1, <3>2 DEF PhaseOf, Shown, Outcomes
    <3>4. \A q \in Requests \ {r} : PhaseOf(q)' = PhaseOf(q) /\ Shown(q)' = Shown(q)
      BY <3>1, PhaseUnchanged DEF IInv, TypeOK
    <3> QED BY <3>3, <3>4, OnePhase
  <2>4. ASSUME NEW c \in Callers, Return(c)
        PROVE  CallOf!Next
    <3>1. PICK r \in Requests :
             /\ signalled[r] /\ outcome' = [outcome EXCEPT ![r] = result[r]]
             /\ ran' = ran /\ state' = [state EXCEPT ![r] = "freed"]
      <4>1. Req(c) \in Requests
        BY <2>4, CallerOwnsBlock DEF Return, At
      <4> QED BY <2>4, <4>1 DEF Return, ReturnWith
    <3>2. state[r] = "done" /\ ran[r] \in Outcomes /\ result[r] = ran[r] /\ outcome[r] = "none"
      BY <3>1 DEF IInv, Blocks, History
    <3>3. outcome'[r] = ran[r] /\ ran'[r] = ran[r]
      BY <3>1, <3>2 DEF IInv, TypeOK
    <3>4. PhaseOf(r) = "run" /\ PhaseOf(r)' = "returned" /\ Shown(r)' = Shown(r)
      BY <3>2, <3>3 DEF PhaseOf, Shown, Outcomes
    <3>5. \A q \in Requests \ {r} : PhaseOf(q)' = PhaseOf(q) /\ Shown(q)' = Shown(q)
      BY <3>1, PhaseUnchanged DEF IInv, TypeOK
    <3> QED BY <3>4, <3>5, OnePhase
  <2>5. ASSUME Transact
        PROVE  CallOf!Next
    <3>1. PICK r \in Requests, value \in Outcomes :
             /\ r = service.req /\ ran' = [ran EXCEPT ![r] = value]
             /\ outcome' = outcome /\ state' = state /\ service.pc = "running"
      <4>1. service.req \in Requests
        BY <2>5, RequestsAssumption DEF Transact, IInv, TypeOK, Owners, Requests
      <4> QED BY <2>5, <4>1 DEF Transact
    <3>2. state[r] = "running"
      <4>1. /\ state[r] \in {"unborn", "queued", "running", "done", "abandoned", "freed"}
            /\ Referred(r) /\ ~InQueue(r)
        BY <3>1 DEF IInv, TypeOK, Blocks, Owners
      <4> QED BY <3>1, <4>1 DEF Referred
    <3>3. ran[r] = "none" /\ outcome[r] = "none" /\ ran'[r] = value
      BY <3>1, <3>2 DEF IInv, TypeOK, History
    <3>4. PhaseOf(r) = "submitted" /\ PhaseOf(r)' = "run" /\ Shown(r)' = value
      BY <3>1, <3>2, <3>3 DEF PhaseOf, Shown, Outcomes
    <3>5. \A q \in Requests \ {r} : PhaseOf(q)' = PhaseOf(q) /\ Shown(q)' = Shown(q)
      BY <3>1, PhaseUnchanged DEF IInv, TypeOK
    <3> QED BY <3>4, <3>5, OnePhase
  <2>6. ASSUME NEW c \in Callers, Send(c) \/ Notify(c) \/ TakeTimesOut(c) \/ Overrun(c)
        PROVE  UNCHANGED CallOf!vars
    BY <2>6, <2>1 DEF Send, Notify, TakeTimesOut, Overrun
  <2>7. ASSUME \/ ReceiveForeground \/ ForegroundEmpty \/ ReceiveBackground
               \/ BackgroundEmpty \/ Wake \/ Give
        PROVE  UNCHANGED CallOf!vars
    BY <2>7, <2>1 DEF ReceiveForeground, ForegroundEmpty, ReceiveBackground, BackgroundEmpty,
                      Wake, Give
  <2>8. ASSUME Start \/ SkipAbandoned \/ Publish
        PROVE  UNCHANGED CallOf!vars
    <3>1. PICK r \in Requests : r = service.req /\ state[r] # "unborn"
      <4>1. service.req \in Requests
        BY <2>8, RequestsAssumption
        DEF Start, SkipAbandoned, Publish, IInv, TypeOK, Owners, Requests
      <4> QED BY <4>1 DEF IInv, Blocks, Referred
    <3>2. /\ outcome' = outcome /\ ran' = ran
          /\ \E value \in {"running", "freed", "done"} : state' = [state EXCEPT ![r] = value]
      BY <2>8, <3>1 DEF Start, SkipAbandoned, Publish
    <3>3. \A q \in Requests : state'[q] = "unborn" <=> state[q] = "unborn"
      BY <3>1, <3>2 DEF IInv, TypeOK
    <3> QED BY <3>2, <3>3, <2>1
  <2>9. CASE UNCHANGED vars
    BY <2>9, <2>1 DEF vars
  <2> QED BY <2>2, <2>3, <2>4, <2>5, <2>6, <2>7, <2>8, <2>9
          DEF Next, CallerStep, ServiceStep
<1> QED BY <1>1, <1>2, Inductive, PTL DEF Spec, ImplementsCall, CallOf!Spec

--------------------------------------------------------------------------------
(* The cloud runner *)

\* The results of a slot, with the answers of the note requests.
Results == StartAnswers \cup PageAnswers \cup SyncAnswers \cup {"done", Nil}

\* Types of the cloud runner.
CloudTypes ==
    /\ busy \in [Domains -> BOOLEAN]
    /\ leased \in [Domains -> BOOLEAN]
    /\ completed \in [Domains -> BOOLEAN]
    /\ lanes \in [Lanes -> Seq(Jobs)]
    /\ \A l \in Lanes : Len(lanes[l]) <= LaneDepth
    /\ running \in [Lanes -> Jobs \cup {Nil}]
    /\ slot \in [Domains -> [generation : Nat, op : Operations \cup {Nil}, result : Results]]
    /\ pending \in [Domains -> Nat]
    /\ acked \in [Domains -> Nat]
    /\ requests \in 0..MaxCloudRequests

\* A domain has one job.
OneJob == \A p, q \in JobPlaces : JobAt(p).domain = JobAt(q).domain => p = q

\* A job of the domain is queued or executing.
HasJob(d) == \E p \in JobPlaces : JobAt(p).domain = d

\* The causes of a busy flag exclude each other, and the generations are in order.
CausesApart ==
    \A d \in Domains :
        /\ leased[d] = busy[d]
        /\ busy[d] <=> HasJob(d) \/ HasResult(d) \/ completed[d]
        /\ HasJob(d) => ~HasResult(d) /\ ~completed[d]
        /\ HasResult(d) => ~completed[d]
        /\ acked[d] <= pending[d] /\ pending[d] <= slot[d].generation
        /\ slot[d].generation <= requests
        /\ HasResult(d) => pending[d] = slot[d].generation /\ slot[d].result # Nil

\* A job that executes has the slot of its domain, one that waits will have it.
JobsHaveSlots ==
    \A p \in JobPlaces :
        LET d == JobAt(p).domain IN
        IF p[2] = 0
        THEN slot[d].generation > pending[d] /\ slot[d].op = JobAt(p).op
        ELSE slot[d].generation < requests

\* The books of the runner.
CloudInv == CloudTypes /\ OneJob /\ CausesApart /\ JobsHaveSlots

--------------------------------------------------------------------------------
(* The note-browsing session *)

\* Types of the page, its files and the journal.
NoteTypes ==
    /\ uiPc \in {"input", "scan", "persist", "finish", "pumpPage", "pumpCommit"}
    /\ onNote \in BOOLEAN
    /\ mode \in {"notebooks", "starting", "list", "view"}
    /\ session \in Sessions \cup {Nil}
    /\ createId \in Nat
    /\ startExpected \in BOOLEAN /\ pageRequested \in BOOLEAN /\ pageInFlight \in BOOLEAN
    /\ commit \in {"idle", "persisting", "cloudPending", "failed"}
    /\ effect \in Opens \cup {Nil}
    /\ advanced \in Sessions \cup {Nil}
    /\ boundOp \in Nat
    /\ write \in Writes \cup {Nil}
    /\ primary \in Sessions \cup {Nil} /\ backup \in Sessions \cup {Nil}
    /\ outbox \in [pending : Seq(Opens), acknowledged : Seq(Opens)]
    /\ Len(outbox.pending) <= OutboxCapacity
    /\ started \in Nat /\ opened \in Nat /\ boots \in Nat
    /\ opens \in Seq(Nat \X Nat)
    /\ astray \in BOOLEAN

\* The requests of the page, and what the slot says of them.
NoteRequests ==
    /\ \A p \in JobPlaces :
        LET job == JobAt(p) IN
        /\ job.domain = "note"
        /\ job.op \in {"start", "page", "packSync"}
        /\ job.op = "start" => job.arg = started
        /\ job.op = "page" => job.arg \in [session : Nat, cursor : Nat]
    /\ slot["note"].result # Nil =>
        /\ slot["note"].op = "start" => slot["note"].result \in StartAnswers
        /\ slot["note"].op = "page" => slot["note"].result \in PageAnswers

\* The request of a kind that the page has made and not yet heard of.
Underway(kind) ==
    \/ \E p \in JobPlaces : JobAt(p).op = kind
    \/ HasResult("note") /\ slot["note"].op = kind

\* The page waits for its own.
PageWaits ==
    /\ mode = "starting" <=> startExpected
    /\ startExpected => Underway("start") /\ createId = started
    /\ pageInFlight =>
        /\ Underway("page") /\ session # Nil
        /\ \A p \in JobPlaces :
            JobAt(p).arg = [session |-> session.session, cursor |-> Len(session.items)]
    /\ mode \in {"list", "view"} => session # Nil
    /\ Underway("start") => mode \in {"notebooks", "starting"}

\* An open that is being written is that of the page.
OpenWritten ==
    /\ commit = "persisting" =>
        /\ effect # Nil /\ session # Nil
        /\ effect.id = opened /\ opened > 0
        /\ effect.session = session.session /\ effect.sequence = session.next
        /\ effect.position \in 1..Len(session.items)
        /\ write = Nil \/ write.result # "ok" =>
            \A i \in DOMAIN Journal : Journal[i].id # opened
    /\ write # Nil =>
        /\ commit = "persisting" /\ boundOp = write.op /\ write.op = effect.id
        /\ write.observation = effect /\ advanced = Advance(session, effect)
    /\ boundOp # 0 => write # Nil
    /\ \A i \in DOMAIN Journal : Journal[i].id \in 1..opened

\* The page as it will be once it hears of the write.
Page == IF write # Nil /\ write.result = "ok" THEN advanced ELSE session

\* A session that is being started has no record and is not the one of the page.
StartIsNew ==
    /\ session # Nil => session.session \in 1..started
    /\ primary # Nil => primary.session \in 1..started
    /\ backup # Nil => backup.session \in 1..started
    /\ \A i \in DOMAIN opens : opens[i][1] \in 1..started
    /\ Underway("start") =>
        /\ started > 0
        /\ session # Nil => session.session # started
        /\ \A i \in DOMAIN opens : opens[i][1] # started
    /\ LET answer == slot["note"].result IN
        slot["note"].op = "start" /\ answer # Nil /\ answer.status = "ok" =>
            Underway("start") /\ answer.session = NewSession(started) /\ primary = answer.session

\* The page is what a reboot would restore.
PageStored == mode \in {"list", "view"} => Reconcile(Stored) = Page

\* How many opens of a session are durable.
Count(s) == Cardinality({j \in DOMAIN opens : opens[j][1] = s})

\* The cursors of the file and of the page stand behind the last open that is durable.
CursorsCount ==
    /\ \A i \in DOMAIN Journal :
        \E k \in DOMAIN opens : opens[k] = <<Journal[i].session, Journal[i].sequence>>
    /\ SequencesUnique
    /\ ~astray =>
        /\ primary = Nil => backup = Nil
        /\ primary # Nil => Reconcile(primary).next = Count(primary.session) + 1
        /\ session # Nil => Page.next = Count(session.session) + 1

\* The page and its files, beside the books of the runner.
PageInv == /\ NoteTypes /\ NoteRequests /\ PageWaits /\ OpenWritten
           /\ StartIsNew /\ PageStored /\ CursorsCount

\* The opens that were made, in the sessions that were started.
Numbered == [id : 1..opened, session : 1..started, sequence : Nat, item : Nat, position : Nat]

\* The files of the journal hold such opens, its backup no more than may be pending.
FiledKnown ==
    /\ filed \in Seq(Numbered)
    /\ aside \in [pending : Seq(Numbered), acknowledged : Seq(Numbered)] \cup {Nil}
    /\ aside # Nil => Len(aside.pending) <= OutboxCapacity

--------------------------------------------------------------------------------
(* What a journal says of a cursor. *)

\* A set of numbers has a least one.
LEMMA LeastNumber ==
    ASSUME NEW T \in SUBSET Nat, T # {}
    PROVE  \E m \in T : \A y \in T : m <= y
<1>1. PICK m \in T : \A y \in T : <<y, m>> \notin OpToRel(<, Nat)
  BY WFMin, NatLessThanWellFounded
<1>2. \A y \in T : ~(y < m)
  BY <1>1 DEF OpToRel
<1> QED BY <1>2

\* A set of numbers below a bound has a greatest one.
LEMMA GreatestNumber ==
    ASSUME NEW n \in Nat, NEW S \in SUBSET (0..n), S # {}
    PROVE  Max(S) \in S /\ \A y \in S : y <= Max(S)
<1> DEFINE T == {n - x : x \in S}
<1>1. T \in SUBSET Nat /\ T # {}
  <2>1. \A x \in S : x \in 0..n
    OBVIOUS
  <2>2. \A x \in S : n - x \in Nat
    BY <2>1
  <2> QED BY <2>2
<1>2. PICK m \in T : \A y \in T : m <= y
  BY <1>1, LeastNumber
<1>3. PICK x \in S : m = n - x
  BY <1>2
<1>4. \A y \in S : x >= y
  BY <1>2, <1>3
<1>5. \E z \in S : \A y \in S : z >= y
  BY <1>4
<1>6. Max(S) \in S /\ \A y \in S : Max(S) >= y
  BY <1>5 DEF Max
<1> QED BY <1>6

\* The records that move a cursor are records.
LEMMA MovingRecords ==
    ASSUME NEW J \in Seq(Opens), NEW s \in Sessions
    PROVE  /\ Moving(J, s) \in SUBSET (1..Len(J)) /\ Placing(J, s) \in SUBSET Moving(J, s)
           /\ Len(J) \in Nat
           /\ Moving(J, s) # {} => Max(Moving(J, s)) \in Moving(J, s)
           /\ \A i \in Moving(J, s) : i <= Max(Moving(J, s))
           /\ Placing(J, s) # {} => Max(Placing(J, s)) \in Placing(J, s)
<1>1. Moving(J, s) \in SUBSET (1..Len(J)) /\ Placing(J, s) \in SUBSET Moving(J, s)
      /\ Len(J) \in Nat
  BY DEF Moving, Placing
<1>2. Moving(J, s) \in SUBSET (0..Len(J)) /\ Placing(J, s) \in SUBSET (0..Len(J))
  BY <1>1
<1> QED BY <1>1, <1>2, GreatestNumber

\* The cursor ends behind every record of its session.
LEMMA CursorBehind ==
    ASSUME NEW J \in Seq(Opens), NEW s \in Sessions
    PROVE  /\ Moved(J, s) \in Sessions
           /\ Moved(J, s).session = s.session /\ Moved(J, s).items = s.items
           /\ \A i \in DOMAIN J : J[i].session = s.session => J[i].sequence < Moved(J, s).next
           /\ Moved(J, s).next >= s.next
<1> DEFINE moving == Moving(J, s)
           placing == Placing(J, s)
           m == Max(moving)
<1>1. /\ moving \in SUBSET (1..Len(J)) /\ placing \in SUBSET moving /\ Len(J) \in Nat
      /\ moving # {} => m \in moving
      /\ \A i \in moving : i <= m
      /\ placing # {} => Max(placing) \in placing
  BY MovingRecords
<1>2. \A i \in 1..Len(J) : J[i] \in Opens
  OBVIOUS
<1>3. \A i \in 1..Len(J) : J[i].sequence \in Nat /\ J[i].position \in Nat /\ J[i].session \in Nat
  BY <1>2 DEF Opens
<1>4. s.next \in Nat /\ s.position \in Nat /\ s.session \in Nat /\ s.items \in Seq(Nat)
  BY DEF Sessions
<1>5. moving # {} => m \in 1..Len(J) /\ J[m].sequence >= s.next /\ J[m].session = s.session
  BY <1>1 DEF Moving
<1>6. placing # {} => Max(placing) \in 1..Len(J)
  BY <1>1
<1> DEFINE n == IF moving = {} THEN s.next ELSE J[m].sequence + 1
           q == IF placing = {} THEN s.position ELSE J[Max(placing)].position
<1>7. n \in Nat /\ q \in Nat /\ n >= s.next
  BY <1>3, <1>4, <1>5, <1>6
<1>8. Moved(J, s) = [s EXCEPT !.next = n, !.position = q]
  BY DEF Moved
<1> HIDE DEF n, q
<1>9. /\ Moved(J, s) \in Sessions /\ Moved(J, s).next = n
      /\ Moved(J, s).session = s.session /\ Moved(J, s).items = s.items
  BY <1>7, <1>8 DEF Sessions
<1> USE DEF n
<1>10. ASSUME NEW i \in DOMAIN J, J[i].session = s.session, J[i].sequence >= n
       PROVE  FALSE
  <2> DEFINE T == {j \in 1..Len(J) : J[j].session = s.session /\ J[j].sequence >= n}
  <2>1. i \in T /\ T \in SUBSET Nat
    BY <1>10
  <2> HIDE DEF T
  <2>2. PICK j \in T : \A k \in T : j <= k
    BY <2>1, LeastNumber
  <2> USE DEF T
  <2>3. j \in 1..Len(J) /\ J[j].session = s.session /\ J[j].sequence >= n
    BY <2>2
  <2>4. \A k \in 1..(j - 1) : J[k].session = s.session => J[k].sequence < n
    <3> SUFFICES ASSUME NEW k \in 1..(j - 1), J[k].session = s.session, ~(J[k].sequence < n)
                 PROVE  FALSE
      OBVIOUS
    <3>1. k \in 1..Len(J) /\ J[k].sequence \in Nat /\ k < j
      BY <1>1, <1>3, <2>3
    <3>2. k \in T
      BY <3>1, <1>7
    <3> QED BY <2>2, <2>3, <3>1, <3>2
  <2>5. \A k \in 1..(j - 1) : J[k].session = s.session => J[k].sequence < J[j].sequence
    <3> SUFFICES ASSUME NEW k \in 1..(j - 1), J[k].session = s.session
                 PROVE  J[k].sequence < J[j].sequence
      OBVIOUS
    <3>1. k \in 1..Len(J) /\ J[k].sequence \in Nat /\ J[j].sequence \in Nat
      BY <1>1, <1>3, <2>3
    <3> QED BY <1>7, <2>3, <2>4, <3>1
  <2>6. j \in moving
    <3>1. J[j].sequence >= s.next
      BY <1>3, <1>4, <1>7, <2>3
    <3> QED BY <2>3, <2>5, <3>1 DEF Moving
  <2>7. moving # {} /\ j <= m /\ m \in moving
    BY <1>1, <2>6
  <2>8. /\ n = J[m].sequence + 1 /\ m \in 1..Len(J) /\ J[m].session = s.session
        /\ J[m].sequence \in Nat
    BY <1>3, <1>5, <2>7
  <2>9. CASE m = j
    BY <1>3, <2>3, <2>8, <2>9
  <2>10. CASE m # j
    <3>1. j \in 1..(m - 1)
      BY <1>1, <2>3, <2>7, <2>8, <2>10
    <3>2. J[j].sequence < J[m].sequence
      BY <2>3, <2>7, <3>1 DEF Moving
    <3> QED BY <1>3, <2>3, <2>8, <3>2
  <2> QED BY <2>9, <2>10
<1>11. \A i \in DOMAIN J : J[i].session = s.session => J[i].sequence < n
  BY <1>10, <1>3, <1>7
<1> QED BY <1>7, <1>9, <1>11

\* A cursor that is behind every record of its session stays.
LEMMA CursorStays ==
    ASSUME NEW J \in Seq(Opens), NEW s \in Sessions,
           \A i \in DOMAIN J : J[i].session = s.session => J[i].sequence < s.next
    PROVE  Moved(J, s) = s
<1>1. \A i \in DOMAIN J : J[i].sequence \in Nat
  <2>1. \A i \in DOMAIN J : J[i] \in Opens
    OBVIOUS
  <2> QED BY <2>1 DEF Opens
<1>2. s.next \in Nat
  BY DEF Sessions
<1>3. Moving(J, s) = {} /\ Placing(J, s) = {}
  BY <1>1, <1>2 DEF Moving, Placing
<1>4. Moved(J, s) = [s EXCEPT !.next = s.next, !.position = s.position]
  BY <1>3 DEF Moved
<1> QED BY <1>4 DEF Sessions

\* A record of another session does not move it, the next one of its own does.
LEMMA CursorMoves ==
    ASSUME NEW J \in Seq(Opens), NEW s \in Sessions, NEW o \in Opens
    PROVE  /\ o.session # s.session => Moved(Append(J, o), s) = Moved(J, s)
           /\ o.session = s.session /\ o.sequence >= Moved(J, s).next =>
                Moved(Append(J, o), s).next = o.sequence + 1
           /\ o.session = s.session /\ o.sequence >= Moved(J, s).next
                /\ o.position <= Len(s.items) =>
                Moved(Append(J, o), s) = Advance(Moved(J, s), o)
<1> DEFINE K == Append(J, o)
           top == Len(J) + 1
<1>1. /\ K \in Seq(Opens) /\ DOMAIN J = 1..Len(J) /\ DOMAIN K = 1..top /\ Len(J) \in Nat
      /\ \A i \in 1..Len(J) : K[i] = J[i]
      /\ K[top] = o
  OBVIOUS
<1>2. \A i \in 1..Len(J) : i \in Moving(K, s) <=> i \in Moving(J, s)
  <2> SUFFICES ASSUME NEW i \in 1..Len(J) PROVE i \in Moving(K, s) <=> i \in Moving(J, s)
    OBVIOUS
  <2>1. i \in 1..top /\ \A j \in 1..(i - 1) : j \in 1..Len(J)
    BY <1>1
  <2> HIDE DEF K, top
  <2> QED BY <1>1, <2>1 DEF Moving
<1>3. /\ Moving(J, s) \in SUBSET (1..Len(J)) /\ Moving(K, s) \in SUBSET (1..top)
      /\ Placing(J, s) \in SUBSET Moving(J, s) /\ Placing(K, s) \in SUBSET Moving(K, s)
  BY <1>1 DEF Moving, Placing
<1>4. \A i \in 1..Len(J) : i \in Placing(K, s) <=> i \in Placing(J, s)
  BY <1>1, <1>2 DEF Placing
<1> HIDE DEF K
<1>5. ASSUME o.session # s.session
      PROVE  Moved(K, s) = Moved(J, s)
  <2>1. top \notin Moving(K, s)
    BY <1>1, <1>5 DEF Moving
  <2>2. \A i \in 1..top : i # top => i \in 1..Len(J)
    BY <1>1
  <2>3. \A i : i \in Moving(K, s) <=> i \in Moving(J, s)
    BY <1>1, <1>2, <1>3, <2>1, <2>2
  <2>4. \A i : i \in Placing(K, s) <=> i \in Placing(J, s)
    BY <1>1, <1>3, <1>4, <2>1, <2>2, <2>3
  <2>5. Moving(K, s) = Moving(J, s) /\ Placing(K, s) = Placing(J, s)
    BY <2>3, <2>4
  <2>6. /\ Moving(J, s) # {} => Max(Moving(J, s)) \in 1..Len(J)
        /\ Placing(J, s) # {} => Max(Placing(J, s)) \in 1..Len(J)
    BY <1>3, MovingRecords
  <2> QED BY <1>1, <2>5, <2>6 DEF Moved
<1>6. ASSUME o.session = s.session, o.sequence >= Moved(J, s).next
      PROVE  /\ Moved(K, s).next = o.sequence + 1
             /\ o.position <= Len(s.items) => Moved(K, s) = Advance(Moved(J, s), o)
  <2>1. /\ \A i \in DOMAIN J : J[i].session = s.session => J[i].sequence < Moved(J, s).next
        /\ Moved(J, s).next >= s.next /\ Moved(J, s) \in Sessions
    BY CursorBehind
  <2>2. Moved(J, s).next \in Nat /\ s.next \in Nat /\ o.sequence \in Nat
        /\ \A i \in 1..Len(J) : J[i].sequence \in Nat
    <3>1. \A i \in 1..Len(J) : J[i] \in Opens
      OBVIOUS
    <3> QED BY <2>1, <3>1 DEF Sessions, Opens
  <2>3. \A j \in 1..(top - 1) : K[j].session = s.session => K[j].sequence < o.sequence
    BY <1>1, <1>6, <2>1, <2>2
  <2>4. top \in Moving(K, s)
    BY <1>1, <1>6, <2>1, <2>2, <2>3 DEF Moving
  <2>5. /\ Moving(K, s) \in SUBSET (0..top) /\ Placing(K, s) \in SUBSET (0..top)
        /\ top \in Nat
    BY <1>1, <1>3
  <2>6. Max(Moving(K, s)) = top
    <3>1. Max(Moving(K, s)) \in Moving(K, s) /\ top <= Max(Moving(K, s))
      BY <2>4, <2>5, GreatestNumber
    <3> QED BY <2>5, <3>1
  <2>7. PICK q : Moved(K, s) = [s EXCEPT !.next = o.sequence + 1, !.position = q]
    BY <1>1, <2>4, <2>6 DEF Moved
  <2>8. Moved(K, s).next = o.sequence + 1
    BY <2>7 DEF Sessions
  <2>9. ASSUME o.position <= Len(s.items)
        PROVE  Moved(K, s) = Advance(Moved(J, s), o)
    <3>1. top \in Placing(K, s)
      BY <1>1, <2>4, <2>9 DEF Placing
    <3>2. Max(Placing(K, s)) = top
      <4>1. Max(Placing(K, s)) \in Placing(K, s) /\ top <= Max(Placing(K, s))
        BY <2>5, <3>1, GreatestNumber
      <4> QED BY <2>5, <4>1
    <3>3. Moved(K, s) = [s EXCEPT !.next = o.sequence + 1, !.position = o.position]
      BY <1>1, <2>4, <2>6, <3>1, <3>2 DEF Moved
    <3>4. PICK n, r : Moved(J, s) = [s EXCEPT !.next = n, !.position = r]
      BY DEF Moved
    <3> QED BY <3>3, <3>4 DEF Advance, Sessions
  <2> QED BY <2>8, <2>9
<1> QED BY <1>5, <1>6 DEF K

\* The items of a list say nothing of the cursor.
LEMMA CursorsOfLists ==
    ASSUME NEW J \in Seq(Opens), NEW s \in Sessions, NEW more \in Seq(Nat)
    PROVE  /\ [s EXCEPT !.items = more] \in Sessions
           /\ \A i \in DOMAIN J :
                J[i].session = [s EXCEPT !.items = more].session <=> J[i].session = s.session
BY DEF Sessions

--------------------------------------------------------------------------------
(* The places of the jobs. *)

\* A place is a lane with a number, and its job is a job.
LEMMA JobsOfPlaces ==
    ASSUME CloudTypes
    PROVE  /\ \A p \in JobPlaces :
                /\ p[1] \in Lanes /\ p[2] \in 0..Len(lanes[p[1]]) /\ p = <<p[1], p[2]>>
                /\ JobAt(p) \in Jobs /\ JobAt(p).domain \in Domains
                /\ JobAt(p).op \in Operations
           /\ \A l \in Lanes, i \in Nat :
                <<l, i>> \in JobPlaces <=>
                    IF i = 0 THEN running[l] # Nil ELSE i <= Len(lanes[l])
           /\ \A l \in Lanes, i \in Nat :
                JobAt(<<l, i>>) = IF i = 0 THEN running[l] ELSE lanes[l][i]
<1>1. Nil \notin Jobs /\ LaneDepth \in Nat
  BY CloudAssumption
<1>2. \A l \in Lanes : /\ Len(lanes[l]) \in Nat /\ Len(lanes[l]) <= LaneDepth
                       /\ lanes[l] \in Seq(Jobs) /\ running[l] \in Jobs \cup {Nil}
                       /\ \A i \in 1..Len(lanes[l]) : lanes[l][i] \in Jobs
  BY DEF CloudTypes
<1>3. ASSUME NEW p \in JobPlaces
      PROVE  /\ p[1] \in Lanes /\ p[2] \in 0..Len(lanes[p[1]]) /\ p = <<p[1], p[2]>>
             /\ JobAt(p) \in Jobs
  <2>1. p \in Lanes \X (0..LaneDepth) /\ p[2] <= Len(lanes[p[1]]) /\ JobAt(p) # Nil
    BY DEF JobPlaces
  <2>2. p[1] \in Lanes /\ p[2] \in Nat /\ p = <<p[1], p[2]>>
    BY <1>1, <2>1
  <2>3. p[2] \in 0..Len(lanes[p[1]])
    BY <1>2, <2>1, <2>2
  <2>4. CASE p[2] = 0
    BY <1>2, <2>1, <2>2, <2>3, <2>4 DEF JobAt
  <2>5. CASE p[2] # 0
    <3>1. p[2] \in 1..Len(lanes[p[1]])
      BY <1>2, <2>2, <2>3, <2>5
    <3> QED BY <1>2, <2>2, <2>3, <2>5, <3>1 DEF JobAt
  <2> QED BY <2>2, <2>3, <2>4, <2>5
<1>4. ASSUME NEW l \in Lanes, NEW i \in Nat
      PROVE  /\ <<l, i>> \in JobPlaces <=>
                    IF i = 0 THEN running[l] # Nil ELSE i <= Len(lanes[l])
             /\ JobAt(<<l, i>>) = IF i = 0 THEN running[l] ELSE lanes[l][i]
  <2>1. JobAt(<<l, i>>) = IF i = 0 THEN running[l] ELSE lanes[l][i]
    BY DEF JobAt
  <2>2. <<l, i>> \in JobPlaces <=>
            i \in 0..LaneDepth /\ i <= Len(lanes[l]) /\ JobAt(<<l, i>>) # Nil
    BY DEF JobPlaces
  <2>3. CASE i = 0
    BY <1>1, <1>2, <2>1, <2>2, <2>3
  <2>4. CASE i # 0
    BY <1>1, <1>2, <2>1, <2>2, <2>4
  <2> QED BY <2>1, <2>3, <2>4
<1>5. \A job \in Jobs : job.domain \in Domains /\ job.op \in Operations
  BY DEF Jobs
<1> QED BY <1>3, <1>4, <1>5

\* A request adds a place at the end of its lane.
LEMMA QueuedPlaces ==
    ASSUME CloudTypes, CloudTypes', NEW job \in Jobs, QueueRequest(job),
           NEW new, new = <<LaneForJob(job), Len(lanes[LaneForJob(job)]) + 1>>
    PROVE  /\ new \notin JobPlaces /\ new[2] > 0 /\ new[2] \in Nat
           /\ JobPlaces' = JobPlaces \cup {new}
           /\ (JobAt(new))' = job
           /\ \A p \in JobPlaces : (JobAt(p))' = JobAt(p)
<1>0. PICK l \in Lanes : l = LaneForJob(job)
  BY DEF LaneForJob, Lanes
<1> DEFINE n == Len(lanes[l])
<1>1. l \in Lanes
  OBVIOUS
<1>2. /\ lanes' = [lanes EXCEPT ![l] = Append(@, job)] /\ running' = running
      /\ n < LaneDepth /\ new = <<l, n + 1>>
  BY <1>0 DEF QueueRequest
<1>3. /\ Nil \notin Jobs /\ LaneDepth \in Nat
      /\ \A m \in Lanes : Len(lanes[m]) \in Nat /\ Len(lanes[m]) <= LaneDepth
                          /\ lanes[m] \in Seq(Jobs)
  BY CloudAssumption DEF CloudTypes
<1>4. /\ \A m \in Lanes \ {l} : lanes'[m] = lanes[m]
      /\ lanes'[l] = Append(lanes[l], job)
  BY <1>1, <1>2 DEF CloudTypes
<1>5. /\ Len(lanes'[l]) = n + 1 /\ lanes'[l][n + 1] = job
      /\ \A i \in 1..n : lanes'[l][i] = lanes[l][i]
  BY <1>1, <1>3, <1>4
<1> HIDE DEF n
<1>6. \A p \in Lanes \X (0..LaneDepth) :
        /\ p # new /\ p[2] <= Len(lanes[p[1]]) => (JobAt(p))' = JobAt(p)
        /\ p[2] <= Len(lanes'[p[1]]) <=> p = new \/ p[2] <= Len(lanes[p[1]])
  <2> SUFFICES ASSUME NEW m \in Lanes, NEW i \in 0..LaneDepth
               PROVE  /\ <<m, i>> # new /\ i <= Len(lanes[m])
                            => (JobAt(<<m, i>>))' = JobAt(<<m, i>>)
                      /\ i <= Len(lanes'[m]) <=> <<m, i>> = new \/ i <= Len(lanes[m])
    OBVIOUS
  <2>0. n \in Nat /\ n = Len(lanes[l])
    BY <1>1, <1>3 DEF n
  <2>1. CASE m # l
    BY <1>2, <1>4, <2>1 DEF JobAt
  <2>2. CASE m = l /\ i = 0
    BY <1>2, <1>5, <2>0, <2>2 DEF JobAt
  <2>3. CASE m = l /\ i # 0
    BY <1>2, <1>5, <2>0, <2>3 DEF JobAt
  <2> QED BY <2>1, <2>2, <2>3
<1>7. new \in Lanes \X (0..LaneDepth) /\ n \in Nat
  BY <1>1, <1>2, <1>3 DEF n
<1>8. (JobAt(new))' = job
  <2>1. n + 1 # 0 /\ new[1] = l /\ new[2] = n + 1
    BY <1>2, <1>7
  <2>2. (JobAt(new))' = lanes'[l][n + 1]
    BY <2>1 DEF JobAt
  <2> QED BY <1>5, <2>2
<1>9. new \notin JobPlaces
  BY <1>1, <1>3, <1>7 DEF JobPlaces, n
<1>10. new \in JobPlaces'
  <2>1. new[2] <= Len(lanes'[new[1]]) /\ (JobAt(new))' # Nil
    BY <1>3, <1>6, <1>7, <1>8
  <2> QED BY <1>7, <2>1 DEF JobPlaces
<1>11. \A p \in JobPlaces : p \in JobPlaces' /\ (JobAt(p))' = JobAt(p)
  BY <1>6, <1>9 DEF JobPlaces
<1>12. \A p \in JobPlaces' : p = new \/ p \in JobPlaces
  BY <1>6 DEF JobPlaces
<1> QED BY <1>7, <1>8, <1>9, <1>10, <1>11, <1>12

\* Where a job was before its lane took the first one.
Before(l, p) == IF p[1] = l THEN <<l, p[2] + 1>> ELSE p

\* The jobs of a lane move up by one place.
LEMMA StartedPlaces ==
    ASSUME CloudTypes, CloudTypes', NEW l \in Lanes, StartJob(l)
    PROVE  /\ \A p \in JobPlaces' :
                Before(l, p) \in JobPlaces /\ (JobAt(p))' = JobAt(Before(l, p))
           /\ \A p, q \in JobPlaces' : Before(l, p) = Before(l, q) => p = q
           /\ \A p \in JobPlaces : \E q \in JobPlaces' : Before(l, q) = p
           /\ <<l, 0>> \in JobPlaces' /\ <<l, 1>> \in JobPlaces
           /\ JobAt(<<l, 1>>) = Head(lanes[l]) /\ Head(lanes[l]) \in Jobs
<1>1. /\ running[l] = Nil /\ lanes[l] # <<>>
      /\ running' = [running EXCEPT ![l] = Head(lanes[l])]
      /\ lanes' = [lanes EXCEPT ![l] = Tail(@)]
  BY DEF StartJob
<1>2. /\ Nil \notin Jobs /\ LaneDepth \in Nat
      /\ \A m \in Lanes : Len(lanes[m]) \in Nat /\ Len(lanes[m]) <= LaneDepth
                          /\ lanes[m] \in Seq(Jobs)
  BY CloudAssumption DEF CloudTypes
<1>3. /\ \A m \in Lanes \ {l} : lanes'[m] = lanes[m] /\ running'[m] = running[m]
      /\ lanes'[l] = Tail(lanes[l]) /\ running'[l] = Head(lanes[l])
  BY <1>1 DEF CloudTypes
<1>4. /\ Len(lanes[l]) \in Nat \ {0} /\ Len(lanes'[l]) = Len(lanes[l]) - 1
      /\ Head(lanes[l]) = lanes[l][1] /\ Head(lanes[l]) \in Jobs
      /\ \A i \in 1..(Len(lanes[l]) - 1) : lanes'[l][i] = lanes[l][i + 1]
  <2>1. lanes[l] \in Seq(Jobs) /\ lanes[l] # <<>>
    BY <1>1, <1>2
  <2>2. Head(lanes[l]) = lanes[l][1] /\ Len(lanes[l]) \in Nat \ {0}
    BY <2>1
  <2> QED BY <1>3, <2>1, <2>2, HeadTailProperties
<1>5. /\ \A p \in JobPlaces : p[1] \in Lanes /\ p[2] \in 0..Len(lanes[p[1]]) /\ p = <<p[1], p[2]>>
      /\ \A m \in Lanes, i \in Nat :
            <<m, i>> \in JobPlaces <=> IF i = 0 THEN running[m] # Nil ELSE i <= Len(lanes[m])
      /\ \A m \in Lanes, i \in Nat :
            JobAt(<<m, i>>) = IF i = 0 THEN running[m] ELSE lanes[m][i]
  BY JobsOfPlaces
<1>6. /\ \A p \in JobPlaces' : p[1] \in Lanes /\ p[2] \in Nat /\ p = <<p[1], p[2]>>
      /\ \A m \in Lanes, i \in Nat :
            <<m, i>> \in JobPlaces' <=> IF i = 0 THEN running'[m] # Nil ELSE i <= Len(lanes'[m])
      /\ \A m \in Lanes, i \in Nat :
            (JobAt(<<m, i>>))' = IF i = 0 THEN running'[m] ELSE lanes'[m][i]
  <2>1. \A m \in Lanes : Len(lanes'[m]) \in Nat /\ Len(lanes'[m]) <= LaneDepth
    <3>1. \A m \in Lanes : lanes'[m] \in Seq(Jobs) /\ Len(lanes'[m]) <= LaneDepth
      BY DEF CloudTypes
    <3>2. \A m \in Lanes : Len(lanes'[m]) \in Nat
      BY <3>1
    <3> QED BY <3>1, <3>2
  <2>2. \A m \in Lanes, i \in Nat :
            (JobAt(<<m, i>>))' = IF i = 0 THEN running'[m] ELSE lanes'[m][i]
    BY DEF JobAt
  <2>3. \A p \in JobPlaces' : p[1] \in Lanes /\ p[2] \in Nat /\ p = <<p[1], p[2]>>
    BY <1>2 DEF JobPlaces
  <2>4. \A m \in Lanes, i \in Nat : i # 0 /\ i <= Len(lanes'[m]) => lanes'[m][i] \in Jobs
    <3> SUFFICES ASSUME NEW m \in Lanes, NEW i \in Nat, i # 0, i <= Len(lanes'[m])
                 PROVE  lanes'[m][i] \in Jobs
      OBVIOUS
    <3>1. lanes'[m] \in Seq(Jobs) /\ i \in 1..Len(lanes'[m])
      BY <2>1 DEF CloudTypes
    <3> QED BY <3>1
  <2>5. ASSUME NEW m \in Lanes, NEW i \in Nat
        PROVE <<m, i>> \in JobPlaces' <=> IF i = 0 THEN running'[m] # Nil ELSE i <= Len(lanes'[m])
    <3>1. <<m, i>> \in JobPlaces' <=>
            i \in 0..LaneDepth /\ i <= Len(lanes'[m]) /\ (JobAt(<<m, i>>))' # Nil
      BY DEF JobPlaces
    <3>2. CASE i = 0
      BY <1>2, <2>1, <2>2, <3>1, <3>2
    <3>3. CASE i # 0
      BY <1>2, <2>1, <2>2, <2>4, <3>1, <3>3
    <3> QED BY <3>2, <3>3
  <2> QED BY <2>2, <2>3, <2>5
<1>7. ASSUME NEW p \in JobPlaces'
      PROVE  Before(l, p) \in JobPlaces /\ (JobAt(p))' = JobAt(Before(l, p))
  <2>1. PICK m \in Lanes, i \in Nat : p = <<m, i>>
    BY <1>6
  <2>2. IF i = 0 THEN running'[m] # Nil ELSE i <= Len(lanes'[m])
    BY <1>6, <2>1
  <2>3. CASE m # l
    BY <1>3, <1>5, <1>6, <2>1, <2>2, <2>3 DEF Before
  <2>4. CASE m = l
    <3>1. Before(l, p) = <<l, i + 1>> /\ i + 1 \in Nat /\ i + 1 # 0
      BY <2>1, <2>4 DEF Before
    <3>2. i + 1 <= Len(lanes[l])
      BY <1>4, <2>2, <2>4
    <3>3. (JobAt(p))' = lanes[l][i + 1]
      <4>1. CASE i = 0
        BY <1>3, <1>4, <1>6, <2>1, <2>4, <4>1
      <4>2. CASE i # 0
        BY <1>4, <1>6, <2>1, <2>4, <3>2, <4>2
      <4> QED BY <4>1, <4>2
    <3> QED BY <1>5, <3>1, <3>2, <3>3
  <2> QED BY <2>3, <2>4
<1>8. \A p, q \in JobPlaces' : Before(l, p) = Before(l, q) => p = q
  <2> SUFFICES ASSUME NEW p \in JobPlaces', NEW q \in JobPlaces', Before(l, p) = Before(l, q)
               PROVE  p = q
    OBVIOUS
  <2>1. /\ p[1] \in Lanes /\ p[2] \in Nat /\ p = <<p[1], p[2]>>
        /\ q[1] \in Lanes /\ q[2] \in Nat /\ q = <<q[1], q[2]>>
    BY <1>6
  <2>2. /\ Before(l, p)[1] = p[1] /\ Before(l, q)[1] = q[1]
        /\ Before(l, p)[2] = IF p[1] = l THEN p[2] + 1 ELSE p[2]
        /\ Before(l, q)[2] = IF q[1] = l THEN q[2] + 1 ELSE q[2]
    BY <2>1 DEF Before
  <2>3. p[1] = q[1] /\ p[2] = q[2]
    BY <2>1, <2>2
  <2> QED BY <2>1, <2>3
<1>9. ASSUME NEW p \in JobPlaces
      PROVE  \E q \in JobPlaces' : Before(l, q) = p
  <2>1. PICK m \in Lanes, i \in Nat : p = <<m, i>> /\ i <= Len(lanes[m])
    BY <1>2, <1>5
  <2>2. CASE m # l
    <3>1. p \in JobPlaces'
      BY <1>3, <1>5, <1>6, <2>1, <2>2
    <3> QED BY <2>1, <2>2, <3>1 DEF Before
  <2>3. CASE m = l
    <3>1. i # 0
      BY <1>1, <1>5, <2>1, <2>3
    <3>2. i - 1 \in Nat /\ i - 1 <= Len(lanes'[l])
      BY <1>4, <2>1, <2>3, <3>1
    <3>3. <<l, i - 1>> \in JobPlaces'
      BY <1>2, <1>3, <1>4, <1>6, <3>2
    <3>4. Before(l, <<l, i - 1>>) = p
      BY <2>1, <2>3, <3>1 DEF Before
    <3> QED BY <3>3, <3>4
  <2> QED BY <2>2, <2>3
<1>10. <<l, 0>> \in JobPlaces' /\ <<l, 1>> \in JobPlaces /\ JobAt(<<l, 1>>) = Head(lanes[l])
  BY <1>2, <1>3, <1>4, <1>5, <1>6
<1> QED BY <1>4, <1>7, <1>8, <1>9, <1>10

\* The end of a job frees the place of the task.
LEMMA PublishedPlaces ==
    ASSUME CloudTypes, NEW l \in Lanes, PublishResult(l)
    PROVE  /\ JobPlaces' = JobPlaces \ {<<l, 0>>} /\ <<l, 0>> \in JobPlaces
           /\ JobAt(<<l, 0>>) = running[l]
           /\ \A p \in JobPlaces \ {<<l, 0>>} : (JobAt(p))' = JobAt(p)
<1>1. /\ running[l] # Nil /\ running' = [running EXCEPT ![l] = Nil] /\ lanes' = lanes
      /\ running \in [Lanes -> Jobs \cup {Nil}] /\ LaneDepth \in Nat
  BY CloudAssumption DEF PublishResult, CloudTypes
<1>2. \A p \in Lanes \X (0..LaneDepth) :
        (JobAt(p))' = IF p = <<l, 0>> THEN Nil ELSE JobAt(p)
  BY <1>1 DEF JobAt
<1>3. \A p : p \in JobPlaces' <=> p \in JobPlaces /\ p # <<l, 0>>
  BY <1>1, <1>2 DEF JobPlaces
<1>4. <<l, 0>> \in JobPlaces /\ JobAt(<<l, 0>>) = running[l]
  BY <1>1, JobsOfPlaces
<1>5. \A p \in JobPlaces : p \in Lanes \X (0..LaneDepth)
  BY DEF JobPlaces
<1> QED BY <1>2, <1>3, <1>4, <1>5

\* Steps that move no job.
LEMMA PlacesStay ==
    ASSUME lanes' = lanes, running' = running
    PROVE  JobPlaces' = JobPlaces /\ \A p : (JobAt(p))' = JobAt(p)
BY DEF JobPlaces, JobAt

--------------------------------------------------------------------------------
(* The cloud runner keeps its books. *)

\* The fields of the slots and the ranges of the counters.
LEMMA CloudFacts ==
    ASSUME CloudInv
    PROVE  /\ LaneDepth \in Nat /\ MaxCloudRequests \in Nat /\ requests \in Nat
           /\ Nil \notin Jobs \cup Operations
           /\ \A d \in Domains :
                /\ slot[d].generation \in Nat /\ slot[d].op \in Operations \cup {Nil}
                /\ slot[d].result \in Results
                /\ pending[d] \in Nat /\ acked[d] \in Nat
                /\ busy[d] \in BOOLEAN /\ completed[d] \in BOOLEAN
           /\ \A p \in JobPlaces : /\ JobAt(p) \in Jobs /\ JobAt(p).domain \in Domains
                                   /\ HasJob(JobAt(p).domain)
<1>1. CloudTypes
  BY DEF CloudInv
<1>2. \A p \in JobPlaces : JobAt(p) \in Jobs /\ JobAt(p).domain \in Domains
  BY <1>1, JobsOfPlaces
<1>3. \A p \in JobPlaces : HasJob(JobAt(p).domain)
  BY DEF HasJob
<1>4. \A d \in Domains :
        slot[d] \in [generation : Nat, op : Operations \cup {Nil}, result : Results]
  BY <1>1 DEF CloudTypes
<1> QED BY <1>1, <1>2, <1>3, <1>4, CloudAssumption DEF CloudTypes

\* A request finds the books of its domain empty.
LEMMA QueueKeeps ==
    ASSUME CloudInv, NEW job \in Jobs, QueueRequest(job)
    PROVE  CloudInv'
<1> DEFINE d == job.domain
<1>1. PICK l \in Lanes : l = LaneForJob(job)
  BY DEF LaneForJob, Lanes
<1>2. /\ ~busy[d] /\ Len(lanes[l]) < LaneDepth /\ requests < MaxCloudRequests
      /\ busy' = [busy EXCEPT ![d] = TRUE] /\ leased' = [leased EXCEPT ![d] = TRUE]
      /\ lanes' = [lanes EXCEPT ![l] = Append(@, job)]
      /\ requests' = requests + 1
      /\ UNCHANGED <<running, slot, pending, acked, completed>>
  BY <1>1 DEF QueueRequest, Free
<1>3. d \in Domains
  BY DEF Jobs
<1>4. CloudTypes /\ OneJob /\ CausesApart /\ JobsHaveSlots
  BY DEF CloudInv
<1>5. CloudTypes'
  <2>1. /\ lanes[l] \in Seq(Jobs) /\ Append(lanes[l], job) \in Seq(Jobs)
        /\ Len(Append(lanes[l], job)) = Len(lanes[l]) + 1 /\ Len(lanes[l]) \in Nat
    BY <1>4 DEF CloudTypes
  <2>2. lanes' \in [Lanes -> Seq(Jobs)]
    BY <1>2, <1>4, <2>1 DEF CloudTypes
  <2>3. \A m \in Lanes : Len(lanes'[m]) <= LaneDepth
    BY <1>2, <1>4, <2>1, CloudFacts DEF CloudTypes
  <2>4. requests' \in 0..MaxCloudRequests
    BY <1>2, CloudFacts
  <2> QED BY <1>2, <1>4, <2>2, <2>3, <2>4 DEF CloudTypes
<1>6. PICK new : new = <<l, Len(lanes[l]) + 1>>
  OBVIOUS
<1>7. /\ new \notin JobPlaces /\ new[2] > 0 /\ new[2] \in Nat
      /\ JobPlaces' = JobPlaces \cup {new}
      /\ (JobAt(new))' = job
      /\ \A p \in JobPlaces : (JobAt(p))' = JobAt(p)
  BY <1>1, <1>4, <1>5, <1>6, QueuedPlaces
<1>8. ~HasJob(d) /\ ~HasResult(d) /\ ~completed[d]
  BY <1>2, <1>3, <1>4 DEF CausesApart
<1>9. \A p \in JobPlaces : JobAt(p).domain # d
  BY <1>8 DEF HasJob
<1>10. OneJob'
  <2> SUFFICES ASSUME NEW p \in JobPlaces', NEW q \in JobPlaces',
                      (JobAt(p))'.domain = (JobAt(q))'.domain
               PROVE  p = q
    BY DEF OneJob
  <2> QED BY <1>4, <1>7, <1>9 DEF OneJob
<1>11. \A e \in Domains : HasJob(e)' <=> e = d \/ HasJob(e)
  BY <1>7 DEF HasJob
<1>12. \A e \in Domains : HasResult(e)' <=> HasResult(e)
  BY <1>2 DEF HasResult
<1>13. CausesApart'
  <2>1. slot' = slot /\ pending' = pending /\ acked' = acked /\ completed' = completed
    BY <1>2
  <2>2. \A e \in Domains : busy'[e] = (IF e = d THEN TRUE ELSE busy[e])
                           /\ leased'[e] = (IF e = d THEN TRUE ELSE leased[e])
    BY <1>2, <1>4 DEF CloudTypes
  <2>3. \A e \in Domains : slot[e].generation <= requests'
    BY <1>2, <1>4, CloudFacts DEF CausesApart
  <2> SUFFICES ASSUME NEW e \in Domains
               PROVE  /\ leased'[e] = busy'[e]
                      /\ busy'[e] <=> HasJob(e)' \/ HasResult(e)' \/ completed'[e]
                      /\ HasJob(e)' => ~HasResult(e)' /\ ~completed'[e]
                      /\ HasResult(e)' => ~completed'[e]
                      /\ acked'[e] <= pending'[e] /\ pending'[e] <= slot'[e].generation
                      /\ slot'[e].generation <= requests'
                      /\ HasResult(e)' => pending'[e] = slot'[e].generation /\ slot'[e].result # Nil
    BY DEF CausesApart
  <2> QED BY <1>4, <1>8, <1>11, <1>12, <2>1, <2>2, <2>3 DEF CausesApart
<1>14. JobsHaveSlots'
  <2> SUFFICES ASSUME NEW p \in JobPlaces'
               PROVE  IF p[2] = 0
                      THEN /\ slot'[(JobAt(p))'.domain].generation > pending'[(JobAt(p))'.domain]
                           /\ slot'[(JobAt(p))'.domain].op = (JobAt(p))'.op
                      ELSE slot'[(JobAt(p))'.domain].generation < requests'
    BY DEF JobsHaveSlots
  <2>1. CASE p = new
    <3>1. slot[d].generation <= requests /\ requests < requests'
      BY <1>2, <1>3, <1>4, CloudFacts DEF CausesApart
    <3> QED BY <1>2, <1>3, <1>7, <2>1, <3>1, CloudFacts
  <2>2. CASE p # new
    <3>1. p \in JobPlaces /\ (JobAt(p))' = JobAt(p) /\ JobAt(p).domain \in Domains
      BY <1>7, <2>2, CloudFacts
    <3>2. p[2] # 0 => slot[JobAt(p).domain].generation < requests
      BY <1>4, <3>1 DEF JobsHaveSlots
    <3> QED BY <1>2, <1>4, <3>1, <3>2, CloudFacts DEF JobsHaveSlots
  <2> QED BY <2>1, <2>2
<1> QED BY <1>5, <1>10, <1>13, <1>14 DEF CloudInv

\* A lane that takes a job gives it the slot of its domain.
LEMMA StartKeeps ==
    ASSUME CloudInv, NEW l \in Lanes, StartJob(l)
    PROVE  CloudInv'
<1>0. PICK job : job = Head(lanes[l])
  OBVIOUS
<1> DEFINE d == job.domain
<1>1. /\ running[l] = Nil /\ lanes[l] # <<>>
      /\ running' = [running EXCEPT ![l] = job]
      /\ slot' = [slot EXCEPT ![d] = [EmptySlot(@.generation + 1) EXCEPT !.op = job.op]]
      /\ lanes' = [lanes EXCEPT ![l] = Tail(@)]
      /\ UNCHANGED <<busy, leased, pending, acked, completed, requests>>
  BY <1>0 DEF StartJob
<1>2. CloudTypes /\ OneJob /\ CausesApart /\ JobsHaveSlots
  BY DEF CloudInv
<1>3. /\ lanes[l] \in Seq(Jobs) /\ job \in Jobs /\ Tail(lanes[l]) \in Seq(Jobs)
      /\ Len(Tail(lanes[l])) = Len(lanes[l]) - 1 /\ Len(lanes[l]) \in Nat
  <2>1. lanes[l] \in Seq(Jobs)
    BY <1>2 DEF CloudTypes
  <2> QED BY <1>0, <1>1, <2>1, HeadTailProperties
<1>4. d \in Domains /\ job.op \in Operations
  BY <1>3 DEF Jobs
<1>5. /\ slot'[d] = [generation |-> slot[d].generation + 1, op |-> job.op, result |-> Nil]
      /\ \A e \in Domains \ {d} : slot'[e] = slot[e]
  BY <1>1, <1>2, <1>4 DEF CloudTypes, EmptySlot
<1>6. CloudTypes'
  <2>1. lanes' \in [Lanes -> Seq(Jobs)] /\ running' \in [Lanes -> Jobs \cup {Nil}]
    BY <1>1, <1>2, <1>3 DEF CloudTypes
  <2>2. \A m \in Lanes : Len(lanes'[m]) <= LaneDepth
    BY <1>1, <1>2, <1>3, CloudFacts DEF CloudTypes
  <2>3. slot' \in [Domains -> [generation : Nat, op : Operations \cup {Nil}, result : Results]]
    <3>1. slot[d].generation + 1 \in Nat /\ Nil \in Results
      BY <1>4, CloudFacts DEF Results
    <3>2. [generation |-> slot[d].generation + 1, op |-> job.op, result |-> Nil]
            \in [generation : Nat, op : Operations \cup {Nil}, result : Results]
      BY <1>4, <3>1
    <3> QED BY <1>1, <1>2, <1>4, <1>5, <3>2 DEF CloudTypes
  <2> QED BY <1>1, <1>2, <2>1, <2>2, <2>3 DEF CloudTypes
<1>7. /\ \A p \in JobPlaces' :
            Before(l, p) \in JobPlaces /\ (JobAt(p))' = JobAt(Before(l, p))
      /\ \A p, q \in JobPlaces' : Before(l, p) = Before(l, q) => p = q
      /\ \A p \in JobPlaces : \E q \in JobPlaces' : Before(l, q) = p
      /\ <<l, 0>> \in JobPlaces' /\ <<l, 1>> \in JobPlaces
      /\ JobAt(<<l, 1>>) = job
  BY <1>0, <1>2, <1>6, StartedPlaces
<1>8. HasJob(d) /\ ~HasResult(d) /\ slot[d].generation < requests
  <2>1. HasJob(d)
    BY <1>7 DEF HasJob
  <2>2. slot[d].generation < requests
    BY <1>2, <1>7 DEF JobsHaveSlots
  <2> QED BY <1>2, <1>4, <2>1, <2>2 DEF CausesApart
<1>9. \A e \in Domains : HasJob(e)' <=> HasJob(e)
  BY <1>7 DEF HasJob
<1>10. \A e \in Domains : HasResult(e)' <=> HasResult(e)
  BY <1>1 DEF HasResult
<1>11. OneJob'
  <2> SUFFICES ASSUME NEW p \in JobPlaces', NEW q \in JobPlaces',
                      (JobAt(p))'.domain = (JobAt(q))'.domain
               PROVE  p = q
    BY DEF OneJob
  <2>1. Before(l, p) = Before(l, q)
    BY <1>2, <1>7 DEF OneJob
  <2> QED BY <1>7, <2>1
<1>12. CausesApart'
  <2> SUFFICES ASSUME NEW e \in Domains
               PROVE  /\ leased'[e] = busy'[e]
                      /\ busy'[e] <=> HasJob(e)' \/ HasResult(e)' \/ completed'[e]
                      /\ HasJob(e)' => ~HasResult(e)' /\ ~completed'[e]
                      /\ HasResult(e)' => ~completed'[e]
                      /\ acked'[e] <= pending'[e] /\ pending'[e] <= slot'[e].generation
                      /\ slot'[e].generation <= requests'
                      /\ HasResult(e)' => pending'[e] = slot'[e].generation /\ slot'[e].result # Nil
    BY DEF CausesApart
  <2>1. CASE e # d
    BY <1>1, <1>2, <1>5, <1>9, <1>10, <2>1 DEF CausesApart
  <2>2. CASE e = d
    <3>1. slot'[d].generation = slot[d].generation + 1
      BY <1>5
    <3>2. pending[d] <= slot'[d].generation /\ slot'[d].generation <= requests
      BY <1>2, <1>4, <1>8, <3>1, CloudFacts DEF CausesApart
    <3> QED BY <1>1, <1>2, <1>8, <1>9, <1>10, <2>2, <3>2 DEF CausesApart
  <2> QED BY <2>1, <2>2
<1>13. JobsHaveSlots'
  <2> SUFFICES ASSUME NEW p \in JobPlaces'
               PROVE  IF p[2] = 0
                      THEN /\ slot'[(JobAt(p))'.domain].generation > pending'[(JobAt(p))'.domain]
                           /\ slot'[(JobAt(p))'.domain].op = (JobAt(p))'.op
                      ELSE slot'[(JobAt(p))'.domain].generation < requests'
    BY DEF JobsHaveSlots
  <2>0. /\ p[1] \in Lanes /\ p[2] \in Nat /\ p = <<p[1], p[2]>>
    BY CloudFacts DEF JobPlaces
  <2>1. CASE p = <<l, 0>>
    <3>1. (JobAt(p))' = job
      <4>1. Before(l, p) = <<l, 1>>
        BY <2>1 DEF Before
      <4> QED BY <1>7, <4>1
    <3>2. slot[d].generation + 1 > pending[d]
      BY <1>2, <1>4, CloudFacts DEF CausesApart
    <3> QED BY <1>1, <1>5, <2>1, <3>1, <3>2
  <2>2. CASE p # <<l, 0>>
    <3> DEFINE q == Before(l, p)
    <3>1. /\ q \in JobPlaces /\ q # <<l, 1>> /\ (JobAt(p))' = JobAt(q)
          /\ JobAt(q).domain \in Domains
      <4>1. Before(l, <<l, 0>>) = <<l, 1>>
        BY DEF Before
      <4> QED BY <1>7, <2>2, <4>1, CloudFacts
    <3>2. JobAt(q).domain # d
      BY <1>2, <1>7, <3>1 DEF OneJob
    <3>3. q[2] = 0 <=> p[2] = 0
      BY <1>1, <2>0, <2>2 DEF Before
    <3> HIDE DEF q
    <3> QED BY <1>1, <1>2, <1>5, <3>1, <3>2, <3>3 DEF JobsHaveSlots
  <2> QED BY <2>1, <2>2
<1> QED BY <1>6, <1>11, <1>12, <1>13 DEF CloudInv

\* The answer of a job goes to its slot.
LEMMA FillKeeps ==
    ASSUME CloudInv, NEW l \in Lanes, NEW answer \in Results \ {Nil}, FillSlot(l, answer)
    PROVE  CloudInv'
<1> DEFINE d == running[l].domain
<1>1. /\ running[l] # Nil /\ slot[d].result = Nil
      /\ slot' = [slot EXCEPT ![d].result = answer]
      /\ UNCHANGED <<busy, leased, lanes, running, pending, acked, completed, requests>>
  BY DEF FillSlot, Working
<1>2. CloudTypes /\ OneJob /\ CausesApart /\ JobsHaveSlots
  BY DEF CloudInv
<1>3. d \in Domains
  BY <1>1, <1>2 DEF CloudTypes, Jobs
<1>4. /\ slot'[d] = [slot[d] EXCEPT !.result = answer]
      /\ \A e \in Domains \ {d} : slot'[e] = slot[e]
  BY <1>1, <1>2, <1>3 DEF CloudTypes
<1>5. /\ slot'[d].generation = slot[d].generation /\ slot'[d].op = slot[d].op
      /\ slot'[d].result = answer
      /\ slot'[d] \in [generation : Nat, op : Operations \cup {Nil}, result : Results]
  <2>1. slot[d] \in [generation : Nat, op : Operations \cup {Nil}, result : Results]
    BY <1>2, <1>3 DEF CloudTypes
  <2> QED BY <1>4, <2>1
<1>6. CloudTypes'
  BY <1>1, <1>2, <1>3, <1>4, <1>5 DEF CloudTypes
<1>7. JobPlaces' = JobPlaces /\ \A p : (JobAt(p))' = JobAt(p)
  BY <1>1, PlacesStay
<1>8. \A e \in Domains : (HasJob(e)' <=> HasJob(e)) /\ (HasResult(e)' <=> HasResult(e))
  BY <1>1, <1>7 DEF HasJob, HasResult
<1>9. OneJob'
  BY <1>2, <1>7 DEF OneJob
<1>10. CausesApart'
  <2> SUFFICES ASSUME NEW e \in Domains
               PROVE  /\ leased'[e] = busy'[e]
                      /\ busy'[e] <=> HasJob(e)' \/ HasResult(e)' \/ completed'[e]
                      /\ HasJob(e)' => ~HasResult(e)' /\ ~completed'[e]
                      /\ HasResult(e)' => ~completed'[e]
                      /\ acked'[e] <= pending'[e] /\ pending'[e] <= slot'[e].generation
                      /\ slot'[e].generation <= requests'
                      /\ HasResult(e)' => pending'[e] = slot'[e].generation /\ slot'[e].result # Nil
    BY DEF CausesApart
  <2> QED BY <1>1, <1>2, <1>4, <1>5, <1>8 DEF CausesApart
<1>11. JobsHaveSlots'
  <2>1. \A e \in Domains : slot'[e].generation = slot[e].generation /\ slot'[e].op = slot[e].op
    BY <1>4, <1>5
  <2> QED BY <1>1, <1>2, <1>7, <2>1, CloudFacts DEF JobsHaveSlots
<1> QED BY <1>6, <1>9, <1>10, <1>11 DEF CloudInv

\* A published result takes the place of its job.
LEMMA PublishKeeps ==
    ASSUME CloudInv, NEW l \in Lanes, PublishResult(l)
    PROVE  CloudInv'
<1>0. PICK d : d = running[l].domain
  OBVIOUS
<1>1. /\ running[l] # Nil /\ slot[d].result # Nil
      /\ pending' = [pending EXCEPT ![d] = slot[d].generation]
      /\ running' = [running EXCEPT ![l] = Nil]
      /\ UNCHANGED <<busy, leased, lanes, slot, acked, completed, requests>>
  BY <1>0 DEF PublishResult
<1>2. CloudTypes /\ OneJob /\ CausesApart /\ JobsHaveSlots
  BY DEF CloudInv
<1>3. d \in Domains /\ slot[d].generation \in Nat
  BY <1>0, <1>1, <1>2, CloudFacts DEF CloudTypes, Jobs
<1>4. /\ JobPlaces' = JobPlaces \ {<<l, 0>>} /\ <<l, 0>> \in JobPlaces
      /\ JobAt(<<l, 0>>) = running[l]
      /\ \A p \in JobPlaces \ {<<l, 0>>} : (JobAt(p))' = JobAt(p)
  BY <1>2, PublishedPlaces
<1>5. CloudTypes'
  BY <1>1, <1>2, <1>3 DEF CloudTypes
<1>6. HasJob(d) /\ slot[d].generation > pending[d] /\ ~completed[d]
  <2>1. HasJob(d)
    BY <1>0, <1>4 DEF HasJob
  <2>2. slot[d].generation > pending[d]
    BY <1>0, <1>2, <1>4 DEF JobsHaveSlots
  <2> QED BY <1>2, <1>3, <2>1, <2>2 DEF CausesApart
<1>7. \A p \in JobPlaces' : p \in JobPlaces /\ (JobAt(p))' = JobAt(p) /\ JobAt(p).domain # d
  BY <1>0, <1>2, <1>4 DEF OneJob
<1>8. ~HasJob(d)' /\ \A e \in Domains \ {d} : HasJob(e)' <=> HasJob(e)
  BY <1>0, <1>4, <1>7 DEF HasJob
<1>9. /\ pending'[d] = slot[d].generation
      /\ \A e \in Domains \ {d} : pending'[e] = pending[e]
  BY <1>1, <1>2, <1>3 DEF CloudTypes
<1>10. HasResult(d)' /\ \A e \in Domains \ {d} : HasResult(e)' <=> HasResult(e)
  <2>1. acked[d] <= pending[d] /\ acked[d] \in Nat /\ pending[d] \in Nat
    BY <1>2, <1>3, CloudFacts DEF CausesApart
  <2> QED BY <1>1, <1>3, <1>6, <1>9, <2>1 DEF HasResult
<1>11. OneJob'
  BY <1>2, <1>7 DEF OneJob
<1>12. CausesApart'
  <2> SUFFICES ASSUME NEW e \in Domains
               PROVE  /\ leased'[e] = busy'[e]
                      /\ busy'[e] <=> HasJob(e)' \/ HasResult(e)' \/ completed'[e]
                      /\ HasJob(e)' => ~HasResult(e)' /\ ~completed'[e]
                      /\ HasResult(e)' => ~completed'[e]
                      /\ acked'[e] <= pending'[e] /\ pending'[e] <= slot'[e].generation
                      /\ slot'[e].generation <= requests'
                      /\ HasResult(e)' => pending'[e] = slot'[e].generation /\ slot'[e].result # Nil
    BY DEF CausesApart
  <2>1. CASE e # d
    BY <1>1, <1>2, <1>8, <1>9, <1>10, <2>1 DEF CausesApart
  <2>2. CASE e = d
    <3>1. acked[d] <= slot[d].generation
      BY <1>2, <1>3, <1>6, CloudFacts DEF CausesApart
    <3> QED BY <1>1, <1>2, <1>3, <1>6, <1>8, <1>9, <1>10, <2>2, <3>1 DEF CausesApart
  <2> QED BY <2>1, <2>2
<1>13. JobsHaveSlots'
  BY <1>1, <1>2, <1>7, <1>9, CloudFacts DEF JobsHaveSlots
<1> QED BY <1>5, <1>11, <1>12, <1>13 DEF CloudInv

\* An applied result leaves the end of the round to wait for.
LEMMA AckKeeps ==
    ASSUME CloudInv, NEW d \in Domains, AckResult(d)
    PROVE  CloudInv'
<1>1. /\ HasResult(d)
      /\ slot' = [slot EXCEPT ![d] = EmptySlot(@.generation)]
      /\ acked' = [acked EXCEPT ![d] = pending[d]]
      /\ completed' = [completed EXCEPT ![d] = TRUE]
      /\ UNCHANGED <<busy, leased, lanes, running, pending, requests>>
  BY DEF AckResult
<1>2. CloudTypes /\ OneJob /\ CausesApart /\ JobsHaveSlots
  BY DEF CloudInv
<1>3. /\ slot'[d] = [generation |-> slot[d].generation, op |-> Nil, result |-> Nil]
      /\ acked'[d] = pending[d] /\ completed'[d] = TRUE
      /\ \A e \in Domains \ {d} :
            slot'[e] = slot[e] /\ acked'[e] = acked[e] /\ completed'[e] = completed[e]
  BY <1>1, <1>2 DEF CloudTypes, EmptySlot
<1>4. CloudTypes'
  <2>1. slot'[d] \in [generation : Nat, op : Operations \cup {Nil}, result : Results]
    BY <1>3, CloudFacts DEF Results
  <2> QED BY <1>1, <1>2, <1>3, <2>1, CloudFacts DEF CloudTypes
<1>5. JobPlaces' = JobPlaces /\ \A p : (JobAt(p))' = JobAt(p)
  BY <1>1, PlacesStay
<1>6. \A e \in Domains : HasJob(e)' <=> HasJob(e)
  BY <1>5 DEF HasJob
<1>7. ~HasResult(d)' /\ \A e \in Domains \ {d} : HasResult(e)' <=> HasResult(e)
  BY <1>1, <1>3 DEF HasResult
<1>8. ~HasJob(d) /\ \A p \in JobPlaces : JobAt(p).domain # d
  BY <1>1, <1>2 DEF CausesApart, HasJob
<1>9. OneJob'
  BY <1>2, <1>5 DEF OneJob
<1>10. CausesApart'
  <2> SUFFICES ASSUME NEW e \in Domains
               PROVE  /\ leased'[e] = busy'[e]
                      /\ busy'[e] <=> HasJob(e)' \/ HasResult(e)' \/ completed'[e]
                      /\ HasJob(e)' => ~HasResult(e)' /\ ~completed'[e]
                      /\ HasResult(e)' => ~completed'[e]
                      /\ acked'[e] <= pending'[e] /\ pending'[e] <= slot'[e].generation
                      /\ slot'[e].generation <= requests'
                      /\ HasResult(e)' => pending'[e] = slot'[e].generation /\ slot'[e].result # Nil
    BY DEF CausesApart
  <2>1. CASE e # d
    BY <1>1, <1>2, <1>3, <1>6, <1>7, <2>1 DEF CausesApart
  <2>2. CASE e = d
    BY <1>1, <1>2, <1>3, <1>6, <1>7, <1>8, <2>2, CloudFacts DEF CausesApart
  <2> QED BY <2>1, <2>2
<1>11. JobsHaveSlots'
  BY <1>1, <1>2, <1>3, <1>5, <1>8, CloudFacts DEF JobsHaveSlots
<1> QED BY <1>4, <1>9, <1>10, <1>11 DEF CloudInv

\* The end of the round frees the completed domains.
LEMMA FinishKeeps ==
    ASSUME CloudInv, FinishRequests
    PROVE  CloudInv'
<1>1. /\ busy' = [d \in Domains |-> busy[d] /\ ~completed[d]]
      /\ leased' = [d \in Domains |-> leased[d] /\ ~completed[d]]
      /\ completed' = [d \in Domains |-> FALSE]
      /\ UNCHANGED <<lanes, running, slot, pending, acked, requests>>
  BY DEF FinishRequests, CloudIdle
<1>2. CloudTypes /\ OneJob /\ CausesApart /\ JobsHaveSlots
  BY DEF CloudInv
<1>3. CloudTypes'
  BY <1>1, <1>2 DEF CloudTypes
<1>4. JobPlaces' = JobPlaces /\ \A p : (JobAt(p))' = JobAt(p)
  BY <1>1, PlacesStay
<1>5. \A e \in Domains : (HasJob(e)' <=> HasJob(e)) /\ (HasResult(e)' <=> HasResult(e))
  BY <1>1, <1>4 DEF HasJob, HasResult
<1>6. OneJob' /\ JobsHaveSlots'
  BY <1>1, <1>2, <1>4 DEF OneJob, JobsHaveSlots
<1>7. CausesApart'
  <2> SUFFICES ASSUME NEW e \in Domains
               PROVE  /\ leased'[e] = busy'[e]
                      /\ busy'[e] <=> HasJob(e)' \/ HasResult(e)' \/ completed'[e]
                      /\ HasJob(e)' => ~HasResult(e)' /\ ~completed'[e]
                      /\ HasResult(e)' => ~completed'[e]
                      /\ acked'[e] <= pending'[e] /\ pending'[e] <= slot'[e].generation
                      /\ slot'[e].generation <= requests'
                      /\ HasResult(e)' => pending'[e] = slot'[e].generation /\ slot'[e].result # Nil
    BY DEF CausesApart
  <2>1. /\ busy'[e] = (busy[e] /\ ~completed[e]) /\ leased'[e] = (leased[e] /\ ~completed[e])
        /\ completed'[e] = FALSE
    BY <1>1
  <2>2. slot' = slot /\ pending' = pending /\ acked' = acked /\ requests' = requests
    BY <1>1
  <2> QED BY <1>2, <1>5, <2>1, <2>2 DEF CausesApart
<1> QED BY <1>3, <1>6, <1>7 DEF CloudInv

\* All the books are empty.
BooksEmpty ==
    /\ busy = CloudIdle.busy /\ leased = CloudIdle.busy /\ completed = CloudIdle.busy
    /\ lanes = CloudIdle.lanes /\ running = CloudIdle.running /\ slot = CloudIdle.slot
    /\ pending = CloudIdle.zero /\ acked = CloudIdle.zero /\ requests \in 0..MaxCloudRequests

\* Books that are all empty are in order, and nothing is under way.
LEMMA IdleBooks == BooksEmpty => CloudInv /\ JobPlaces = {}
<1> SUFFICES ASSUME BooksEmpty PROVE CloudInv /\ JobPlaces = {}
  OBVIOUS
<1>1. /\ busy = [d \in Domains |-> FALSE] /\ leased = [d \in Domains |-> FALSE]
      /\ completed = [d \in Domains |-> FALSE]
      /\ lanes = [l \in Lanes |-> <<>>] /\ running = [l \in Lanes |-> Nil]
      /\ slot = [d \in Domains |-> [generation |-> 0, op |-> Nil, result |-> Nil]]
      /\ pending = [d \in Domains |-> 0] /\ acked = [d \in Domains |-> 0]
      /\ requests \in 0..MaxCloudRequests
  BY DEF BooksEmpty, CloudIdle, EmptySlot
<1>2. CloudTypes
  <2>1. LaneDepth \in Nat /\ MaxCloudRequests \in Nat
    BY CloudAssumption
  <2>2. lanes \in [Lanes -> Seq(Jobs)] /\ \A l \in Lanes : Len(lanes[l]) <= LaneDepth
    BY <1>1, <2>1
  <2> QED BY <1>1, <2>1, <2>2 DEF CloudTypes, Results
<1>3. JobPlaces = {}
  <2>1. \A l \in Lanes, i \in Nat : IF i = 0 THEN running[l] = Nil ELSE ~(i <= Len(lanes[l]))
    BY <1>1
  <2>2. \A l \in Lanes, i \in Nat : <<l, i>> \notin JobPlaces
    BY <1>2, <2>1, JobsOfPlaces
  <2>3. \A p \in JobPlaces : p[1] \in Lanes /\ p[2] \in Nat /\ p = <<p[1], p[2]>>
    BY CloudAssumption DEF JobPlaces
  <2> QED BY <2>2, <2>3
<1>4. \A d \in Domains : ~HasJob(d) /\ ~HasResult(d)
  BY <1>1, <1>3 DEF HasJob, HasResult
<1>5. CausesApart
  BY <1>1, <1>4, CloudAssumption DEF CausesApart
<1> QED BY <1>2, <1>3, <1>5 DEF CloudInv, OneJob, JobsHaveSlots

\* A start of the program finds nothing under way.
LEMMA ResetKeeps ==
    ASSUME CloudTypes, CloudReset
    PROVE  CloudInv' /\ JobPlaces' = {}
<1>1. BooksEmpty'
  BY DEF BooksEmpty, CloudReset, CloudTypes, CloudIdle
<1>2. (BooksEmpty => CloudInv /\ JobPlaces = {})'
  BY IdleBooks, PTL
<1> QED BY <1>1, <1>2

\* Steps that leave the runner alone.
LEMMA CloudStays ==
    ASSUME CloudInv, UNCHANGED cloudVars
    PROVE  CloudInv'
<1>1. /\ busy' = busy /\ leased' = leased /\ lanes' = lanes /\ running' = running
      /\ slot' = slot /\ pending' = pending /\ acked' = acked
      /\ completed' = completed /\ requests' = requests
  BY DEF cloudVars
<1>2. CloudTypes'
  BY <1>1 DEF CloudInv, CloudTypes
<1>3. JobPlaces' = JobPlaces /\ \A p : JobAt(p)' = JobAt(p)
  BY <1>1 DEF JobPlaces, JobAt
<1>4. /\ OneJob' <=> OneJob
      /\ \A d : HasJob(d)' <=> HasJob(d)
      /\ \A d : HasResult(d)' <=> HasResult(d)
  BY <1>1, <1>3 DEF OneJob, HasJob, HasResult
<1>5. CausesApart'
  BY <1>1, <1>4 DEF CloudInv, CausesApart
<1>6. JobsHaveSlots'
  BY <1>1, <1>3 DEF CloudInv, JobsHaveSlots
<1> QED BY <1>2, <1>4, <1>5, <1>6 DEF CloudInv

--------------------------------------------------------------------------------
(* What the books promise. *)

\* Books in order say what the runner promises.
LEMMA BooksPromise ==
    ASSUME CloudInv
    PROVE  CloudTypeOK /\ OneRequestPerDomain
<1>1. CloudTypes /\ OneJob /\ CausesApart /\ JobsHaveSlots
  BY DEF CloudInv
<1>2. CloudTypeOK
  <2>1. \A l \in Lanes : Len(lanes[l]) \in 0..LaneDepth
    <3>1. \A l \in Lanes : lanes[l] \in Seq(Jobs) /\ Len(lanes[l]) <= LaneDepth
      BY <1>1 DEF CloudTypes
    <3> QED BY <3>1, CloudAssumption
  <2>2. \A d \in Domains : /\ slot[d].generation \in 0..MaxCloudRequests
                           /\ pending[d] \in 0..MaxCloudRequests
                           /\ acked[d] \in 0..MaxCloudRequests
    <3>1. requests \in 0..MaxCloudRequests
      BY <1>1 DEF CloudTypes
    <3> QED BY <1>1, <3>1, CloudFacts DEF CausesApart
  <2> QED BY <1>1, <2>1, <2>2 DEF CloudTypeOK, CloudTypes
<1>3. ASSUME NEW d \in Domains
      PROVE  /\ Cardinality(JobsUnderWay(d)) + (IF HasResult(d) THEN 1 ELSE 0)
                    + (IF completed[d] THEN 1 ELSE 0) = IF busy[d] THEN 1 ELSE 0
             /\ leased[d] = busy[d]
             /\ HasResult(d) => slot[d].generation = pending[d] /\ slot[d].result # Nil
  <2>1. Cardinality(JobsUnderWay(d)) = IF HasJob(d) THEN 1 ELSE 0
    <3>1. CASE HasJob(d)
      <4>1. PICK p \in JobPlaces : JobAt(p).domain = d
        BY <3>1 DEF HasJob
      <4>2. JobsUnderWay(d) = {p}
        BY <1>1, <4>1 DEF JobsUnderWay, OneJob
      <4> QED BY <3>1, <4>2, FS_Singleton
    <3>2. CASE ~HasJob(d)
      <4>1. JobsUnderWay(d) = {}
        BY <3>2 DEF JobsUnderWay, HasJob
      <4> QED BY <3>2, <4>1, FS_EmptySet
    <3> QED BY <3>1, <3>2
  <2>2. /\ leased[d] = busy[d]
        /\ busy[d] <=> HasJob(d) \/ HasResult(d) \/ completed[d]
        /\ HasJob(d) => ~HasResult(d) /\ ~completed[d]
        /\ HasResult(d) => ~completed[d]
        /\ HasResult(d) => pending[d] = slot[d].generation /\ slot[d].result # Nil
    BY <1>1 DEF CausesApart
  <2>3. /\ (IF HasJob(d) THEN 1 ELSE 0) + (IF HasResult(d) THEN 1 ELSE 0)
             + (IF completed[d] THEN 1 ELSE 0) = IF busy[d] THEN 1 ELSE 0
    <3>1. CASE HasJob(d)
      BY <2>2, <3>1
    <3>2. CASE HasResult(d)
      BY <2>2, <3>2
    <3>3. CASE ~HasJob(d) /\ ~HasResult(d)
      BY <2>2, <3>3
    <3> QED BY <3>1, <3>2, <3>3
  <2> QED BY <2>1, <2>2, <2>3
<1>4. ASSUME NEW d \in Domains, ~busy[d], NEW l \in Lanes
      PROVE  Len(lanes[l]) < LaneDepth
  <2> SUFFICES ASSUME ~(Len(lanes[l]) < LaneDepth) PROVE FALSE
    OBVIOUS
  <2>1. lanes[l] \in Seq(Jobs) /\ Len(lanes[l]) = LaneDepth /\ LaneDepth \in Nat
    <3>1. lanes[l] \in Seq(Jobs) /\ Len(lanes[l]) <= LaneDepth /\ LaneDepth \in Nat
      BY <1>1, CloudAssumption DEF CloudTypes
    <3>2. Len(lanes[l]) \in Nat
      BY <3>1
    <3> QED BY <3>1, <3>2
  <2> DEFINE places == 1..LaneDepth
             others == Domains \ {d}
             domainOf == [i \in places |-> lanes[l][i].domain]
  <2>2. \A i \in places : <<l, i>> \in JobPlaces /\ JobAt(<<l, i>>) = lanes[l][i]
    <3>1. \A i \in places : i \in Nat /\ i # 0 /\ i <= Len(lanes[l])
      BY <2>1
    <3> QED BY <1>1, <3>1, JobsOfPlaces
  <2>3. \A i \in places : lanes[l][i].domain \in others
    <3>1. ~HasJob(d)
      BY <1>1, <1>4 DEF CausesApart
    <3> QED BY <2>2, <3>1, CloudFacts DEF HasJob
  <2>4. domainOf \in [places -> others]
    BY <2>3
  <2>5. IsFiniteSet(places) /\ Cardinality(places) = LaneDepth
    BY <2>1, FS_Interval
  <2>6. IsFiniteSet(others) /\ Cardinality(others) = Cardinality(Domains) - 1
    BY <1>4, CloudAssumption, FS_RemoveElement
  <2>7. Cardinality(Domains) <= LaneDepth /\ Cardinality(Domains) \in Nat
    BY CloudAssumption, FS_CardinalityType
  <2>8. Cardinality(others) < Cardinality(places)
    BY <2>1, <2>5, <2>6, <2>7
  <2>9. \E i, j \in places : i # j /\ domainOf[i] = domainOf[j]
    <3> HIDE DEF places, others, domainOf
    <3> QED BY <2>4, <2>5, <2>6, <2>8, FS_PigeonHole
  <2>10. PICK i \in places, j \in places : i # j /\ lanes[l][i].domain = lanes[l][j].domain
    BY <2>9
  <2>11. <<l, i>> = <<l, j>>
    BY <1>1, <2>2, <2>10 DEF OneJob
  <2> QED BY <2>10, <2>11
<1> QED BY <1>2, <1>3, <1>4 DEF OneRequestPerDomain

\* A start of the program finds the books in order.
LEMMA CloudStarts == CloudInit => CloudInv /\ JobPlaces = {}
<1>1. CloudInit => BooksEmpty
  BY CloudAssumption DEF CloudInit, BooksEmpty, CloudIdle
<1> QED BY <1>1, IdleBooks

\* The runner alone: with any requests, a domain has one at a time, its lease covers it,
\* and a domain that is free finds room in both lanes.
THEOREM RunnerKeepsItsBooks == CloudSpec => []OneRequestPerDomain
<1>1. CloudInit => CloudInv
  BY CloudStarts
<1>2. CloudInv /\ [CloudNext]_cloudVars => CloudInv'
  <2> SUFFICES ASSUME CloudInv, [CloudNext]_cloudVars PROVE CloudInv'
    OBVIOUS
  <2>1. ASSUME NEW d \in Domains, NEW kind \in {"packSync", "image"},
               QueueRequest(Job(d, kind, 0))
        PROVE  CloudInv'
    <3>1. Job(d, kind, 0) \in Jobs
      BY DEF Job, Jobs, Operations
    <3> QED BY <2>1, <3>1, QueueKeeps
  <2>2. ASSUME NEW l \in Lanes, FillSlot(l, "done")
        PROVE  CloudInv'
    <3>1. "done" \in Results \ {Nil}
      BY CloudAssumption DEF Results
    <3> QED BY <2>2, <3>1, FillKeeps
  <2>3. CASE UNCHANGED cloudVars
    BY <2>3, CloudStays
  <2> QED BY <2>1, <2>2, <2>3, StartKeeps, PublishKeeps, AckKeeps, FinishKeeps DEF CloudNext
<1>3. CloudInv => OneRequestPerDomain
  BY BooksPromise
<1> QED BY <1>1, <1>2, <1>3, PTL DEF CloudSpec

--------------------------------------------------------------------------------
(* The requests of the page. *)

\* The page has at most one job, which excludes a result.
LEMMA OneNoteJob ==
    ASSUME CloudInv, NoteRequests
    PROVE  /\ "note" \in Domains
           /\ \A p, q \in JobPlaces : p = q
           /\ JobPlaces # {} => ~HasResult("note") /\ busy["note"] /\ ~completed["note"]
           /\ HasResult("note") => /\ JobPlaces = {} /\ slot["note"].result # Nil
                                   /\ PeekedSlot("note") = slot["note"]
           /\ ~busy["note"] => JobPlaces = {} /\ ~HasResult("note")
<1>1. "note" \in Domains
  BY NoteAssumption
<1>2. \A p \in JobPlaces : JobAt(p).domain = "note" /\ HasJob("note")
  BY CloudFacts DEF NoteRequests
<1>3. \A p, q \in JobPlaces : p = q
  BY <1>2 DEF CloudInv, OneJob
<1>4. /\ busy["note"] <=> HasJob("note") \/ HasResult("note") \/ completed["note"]
      /\ HasJob("note") => ~HasResult("note") /\ ~completed["note"]
      /\ HasResult("note") => pending["note"] = slot["note"].generation /\ slot["note"].result # Nil
  BY <1>1 DEF CloudInv, CausesApart
<1> QED BY <1>1, <1>2, <1>3, <1>4 DEF PeekedSlot

\* A request is the only one.
LEMMA Asking ==
    ASSUME CloudInv, NoteRequests, NEW job \in Jobs, job.domain = "note", QueueRequest(job)
    PROVE  /\ JobPlaces = {} /\ \A kind : ~Underway(kind)
           /\ \A p \in JobPlaces' : (JobAt(p))' = job
           /\ \A kind : Underway(kind)' <=> kind = job.op
           /\ slot' = slot
<1>1. CloudInv'
  BY QueueKeeps
<1>2. ~busy["note"] /\ UNCHANGED <<slot, pending, acked>>
  BY DEF QueueRequest, Free
<1>3. JobPlaces = {} /\ ~HasResult("note")
  BY <1>2, OneNoteJob
<1>4. PICK new : new = <<LaneForJob(job), Len(lanes[LaneForJob(job)]) + 1>>
  OBVIOUS
<1>5. JobPlaces' = {new} /\ (JobAt(new))' = job
  BY <1>1, <1>3, <1>4, QueuedPlaces DEF CloudInv
<1>6. ~HasResult("note")'
  BY <1>2, <1>3 DEF HasResult
<1> QED BY <1>2, <1>3, <1>5, <1>6 DEF Underway

\* A lane that takes a job has no answer yet.
LEMMA Taking ==
    ASSUME CloudInv, NoteRequests, NEW l \in Lanes, StartJob(l)
    PROVE  /\ \A p \in JobPlaces' : \E q \in JobPlaces : (JobAt(p))' = JobAt(q)
           /\ \A kind : Underway(kind)' <=> Underway(kind)
           /\ slot'["note"].result = Nil
<1>1. CloudInv'
  BY StartKeeps
<1>2. /\ \A p \in JobPlaces' :
            Before(l, p) \in JobPlaces /\ (JobAt(p))' = JobAt(Before(l, p))
      /\ \A p \in JobPlaces : \E q \in JobPlaces' : Before(l, q) = p
      /\ <<l, 1>> \in JobPlaces /\ JobAt(<<l, 1>>) = Head(lanes[l])
  BY <1>1, StartedPlaces DEF CloudInv
<1>3. \A kind : (\E p \in JobPlaces' : (JobAt(p))'.op = kind)
                    <=> \E p \in JobPlaces : JobAt(p).op = kind
  BY <1>2
<1>4. ~HasResult("note") /\ ~HasResult("note")'
  <2>1. ~HasResult("note")
    BY <1>2, OneNoteJob
  <2> QED BY <2>1 DEF HasResult, StartJob
<1>5. Head(lanes[l]).domain = "note"
  BY <1>2 DEF NoteRequests
<1>6. slot'["note"].result = Nil
  BY <1>5, OneNoteJob DEF CloudInv, CloudTypes, StartJob, EmptySlot
<1> QED BY <1>2, <1>3, <1>4, <1>6 DEF Underway

\* The answer of a job is that of its kind.
LEMMA Answering ==
    ASSUME CloudInv, NoteRequests, NEW l \in Lanes, NEW answer, FillSlot(l, answer)
    PROVE  /\ JobPlaces' = JobPlaces /\ \A p : (JobAt(p))' = JobAt(p)
           /\ \A kind : Underway(kind)' <=> Underway(kind)
           /\ <<l, 0>> \in JobPlaces /\ JobAt(<<l, 0>>) = running[l] /\ running[l] \in Jobs
           /\ Underway(running[l].op)
           /\ slot'["note"].op = running[l].op /\ slot'["note"].result = answer
<1>1. /\ running[l] # Nil /\ slot' = [slot EXCEPT ![running[l].domain].result = answer]
      /\ UNCHANGED <<busy, leased, lanes, running, pending, acked, completed, requests>>
  BY DEF FillSlot, Working
<1>2. JobPlaces' = JobPlaces /\ \A p : (JobAt(p))' = JobAt(p)
  BY <1>1, PlacesStay
<1>3. <<l, 0>> \in JobPlaces /\ JobAt(<<l, 0>>) = running[l] /\ running[l] \in Jobs
  BY <1>1, JobsOfPlaces DEF CloudInv, CloudTypes
<1>4. running[l].domain = "note" /\ "note" \in Domains
  BY <1>3, OneNoteJob DEF NoteRequests
<1>5. slot["note"].op = running[l].op
  BY <1>3, <1>4 DEF CloudInv, JobsHaveSlots
<1>6. slot'["note"].op = slot["note"].op /\ slot'["note"].result = answer
  <2>1. slot \in [Domains -> [generation : Nat, op : Operations \cup {Nil}, result : Results]]
    BY DEF CloudInv, CloudTypes
  <2> QED BY <1>1, <1>4, <2>1
<1>7. ~HasResult("note") /\ ~HasResult("note")'
  <2>1. ~HasResult("note")
    BY <1>3, OneNoteJob
  <2> QED BY <1>1, <2>1 DEF HasResult
<1> QED BY <1>2, <1>3, <1>5, <1>6, <1>7 DEF Underway

\* A published answer is under way until the page takes it.
LEMMA Publishing ==
    ASSUME CloudInv, NoteRequests, NEW l \in Lanes, PublishResult(l)
    PROVE  /\ JobPlaces' = {}
           /\ \A kind : Underway(kind)' <=> Underway(kind)
           /\ slot' = slot
<1>1. /\ JobPlaces' = JobPlaces \ {<<l, 0>>} /\ <<l, 0>> \in JobPlaces
      /\ JobAt(<<l, 0>>) = running[l]
  BY PublishedPlaces DEF CloudInv
<1>2. JobPlaces = {<<l, 0>>} /\ JobPlaces' = {}
  BY <1>1, OneNoteJob
<1>3. slot' = slot
  BY DEF PublishResult
<1>4. running[l].domain = "note" /\ slot["note"].op = running[l].op
      /\ slot["note"].generation > pending["note"]
  BY <1>1 DEF NoteRequests, CloudInv, JobsHaveSlots
<1>5. HasResult("note")'
  <2>1. acked["note"] <= pending["note"] /\ acked["note"] \in Nat /\ pending["note"] \in Nat
        /\ slot["note"].generation \in Nat
    BY OneNoteJob, CloudFacts DEF CloudInv, CausesApart
  <2>2. pending'["note"] = slot["note"].generation /\ acked' = acked
    BY <1>4, OneNoteJob DEF PublishResult, CloudInv, CloudTypes
  <2> QED BY <1>4, <2>1, <2>2 DEF HasResult
<1>6. ~HasResult("note")
  BY <1>1, OneNoteJob
<1> QED BY <1>1, <1>2, <1>3, <1>4, <1>5, <1>6 DEF Underway

\* An acknowledged result is no longer under way.
LEMMA Acknowledging ==
    ASSUME CloudInv, NoteRequests, AckResult("note")
    PROVE  /\ JobPlaces = {} /\ JobPlaces' = {} /\ HasResult("note")
           /\ \A kind : ~Underway(kind)'
           /\ slot'["note"].result = Nil /\ slot["note"].result # Nil
           /\ PeekedSlot("note") = slot["note"]
<1>1. /\ HasResult("note") /\ slot' = [slot EXCEPT !["note"] = EmptySlot(@.generation)]
      /\ acked' = [acked EXCEPT !["note"] = pending["note"]]
      /\ UNCHANGED <<lanes, running, pending>>
  BY DEF AckResult
<1>2. JobPlaces' = JobPlaces
  BY <1>1, PlacesStay
<1>3. JobPlaces = {} /\ PeekedSlot("note") = slot["note"] /\ slot["note"].result # Nil
  BY <1>1, OneNoteJob
<1>4. slot'["note"].result = Nil /\ acked'["note"] = pending'["note"]
  BY <1>1, OneNoteJob DEF CloudInv, CloudTypes, EmptySlot
<1> QED BY <1>1, <1>2, <1>3, <1>4 DEF Underway, HasResult

\* Steps of others.
LEMMA RequestsStay ==
    ASSUME UNCHANGED <<lanes, running, slot, pending, acked>>
    PROVE  /\ JobPlaces' = JobPlaces /\ \A p : (JobAt(p))' = JobAt(p)
           /\ \A kind : Underway(kind)' <=> Underway(kind)
           /\ HasResult("note")' <=> HasResult("note")
<1>1. JobPlaces' = JobPlaces /\ \A p : (JobAt(p))' = JobAt(p)
  BY PlacesStay
<1>2. HasResult("note")' <=> HasResult("note")
  BY DEF HasResult
<1> QED BY <1>1, <1>2 DEF Underway

--------------------------------------------------------------------------------
(* The journal and the counting of the opens. *)

\* The journal is a sequence of opens.
LEMMA JournalOfOpens ==
    ASSUME NoteTypes
    PROVE  /\ Journal \in Seq(Opens) /\ outbox.pending \in Seq(Opens)
           /\ outbox.acknowledged \in Seq(Opens)
           /\ \A i \in DOMAIN Journal : Journal[i] \in Opens
<1>1. outbox.pending \in Seq(Opens) /\ outbox.acknowledged \in Seq(Opens)
  BY DEF NoteTypes
<1>2. Journal \in Seq(Opens)
  BY <1>1 DEF Journal
<1>3. \A i \in DOMAIN Journal : Journal[i] \in Opens
  BY <1>2
<1> QED BY <1>1, <1>2, <1>3

\* An open goes to the end of the journal.
LEMMA JournalGrows ==
    ASSUME NEW a \in Seq(Opens), NEW p \in Seq(Opens), NEW o \in Opens
    PROVE  a \o Append(p, o) = Append(a \o p, o)
<1> DEFINE left == a \o Append(p, o)
           right == Append(a \o p, o)
<1>1. left \in Seq(Opens) /\ right \in Seq(Opens)
  OBVIOUS
<1>2. Len(left) = Len(right) /\ Len(left) = Len(a) + Len(p) + 1
  OBVIOUS
<1>3. \A i \in 1..Len(left) : left[i] = right[i]
  <2> SUFFICES ASSUME NEW i \in 1..Len(left) PROVE left[i] = right[i]
    OBVIOUS
  <2>0. Len(a) \in Nat /\ Len(p) \in Nat
    OBVIOUS
  <2>1. CASE i <= Len(a)
    BY <1>2, <2>0, <2>1
  <2>2. CASE i > Len(a) /\ i <= Len(a) + Len(p)
    <3>1. i - Len(a) \in 1..Len(p)
      BY <1>2, <2>0, <2>2
    <3> QED BY <1>2, <2>0, <2>2, <3>1
  <2>3. CASE i = Len(a) + Len(p) + 1
    BY <1>2, <2>0, <2>3
  <2> QED BY <1>2, <2>0, <2>1, <2>2, <2>3
<1> HIDE DEF left, right
<1>4. left = right
  BY <1>1, <1>2, <1>3, SeqEqual
<1> QED BY <1>4 DEF left, right

\* An acknowledgement moves a record within the journal.
LEMMA JournalStays ==
    ASSUME NEW a \in Seq(Opens), NEW p \in Seq(Opens), p # <<>>
    PROVE  /\ Append(a, Head(p)) \o Tail(p) = a \o p
           /\ Append(a, Head(p)) \in Seq(Opens) /\ Tail(p) \in Seq(Opens)
           /\ Len(Tail(p)) <= Len(p)
<1>1. /\ Head(p) \in Opens /\ Tail(p) \in Seq(Opens) /\ Len(p) \in Nat \ {0}
      /\ Len(Tail(p)) = Len(p) - 1 /\ Head(p) = p[1]
      /\ \A i \in 1..(Len(p) - 1) : Tail(p)[i] = p[i + 1]
  <2>1. Head(p) = p[1] /\ Len(p) \in Nat \ {0}
    OBVIOUS
  <2> QED BY <2>1, HeadTailProperties
<1> DEFINE left == Append(a, Head(p)) \o Tail(p)
           right == a \o p
<1>2. left \in Seq(Opens) /\ right \in Seq(Opens) /\ Append(a, Head(p)) \in Seq(Opens)
  BY <1>1
<1>3. Len(left) = Len(right) /\ Len(left) = Len(a) + Len(p) /\ Len(a) \in Nat
  BY <1>1
<1>4. \A i \in 1..Len(left) : left[i] = right[i]
  <2> SUFFICES ASSUME NEW i \in 1..Len(left) PROVE left[i] = right[i]
    OBVIOUS
  <2>1. CASE i <= Len(a)
    BY <1>1, <1>3, <2>1
  <2>2. CASE i = Len(a) + 1
    BY <1>1, <1>3, <2>2
  <2>3. CASE i > Len(a) + 1
    <3>1. i - (Len(a) + 1) \in 1..(Len(p) - 1) /\ i - Len(a) \in 1..Len(p)
      BY <1>1, <1>3, <2>3
    <3>2. Tail(p)[i - (Len(a) + 1)] = p[(i - (Len(a) + 1)) + 1]
      BY <1>1, <3>1
    <3>3. (i - (Len(a) + 1)) + 1 = i - Len(a)
      BY <1>3
    <3>4. left[i] = Tail(p)[i - (Len(a) + 1)] /\ right[i] = p[i - Len(a)]
      BY <1>1, <1>3, <2>3, <3>1
    <3> QED BY <3>2, <3>3, <3>4
  <2> QED BY <1>3, <2>1, <2>2, <2>3
<1> HIDE DEF left, right
<1>5. left = right
  BY <1>2, <1>3, <1>4, SeqEqual
<1> QED BY <1>1, <1>2, <1>5 DEF left, right

\* What is left of the journal was in it.
LEMMA JournalShrinks ==
    ASSUME NEW a \in Seq(Opens), NEW p \in Seq(Opens), NEW r \in {p, Tail(p)}, p # <<>> \/ r = p
    PROVE  /\ <<>> \o r \in Seq(Opens) /\ r \in Seq(Opens) /\ Len(r) <= Len(p)
           /\ \A i \in DOMAIN (<<>> \o r) :
                \E j \in DOMAIN (a \o p) : (<<>> \o r)[i] = (a \o p)[j]
<1>1. <<>> \o r = r
  OBVIOUS
<1>2. CASE r = p
  <2>1. \A i \in DOMAIN p : Len(a) + i \in DOMAIN (a \o p) /\ (a \o p)[Len(a) + i] = p[i]
    OBVIOUS
  <2>2. \A i \in DOMAIN p : \E j \in DOMAIN (a \o p) : p[i] = (a \o p)[j]
    BY <2>1
  <2>3. p \in Seq(Opens) /\ Len(p) <= Len(p)
    OBVIOUS
  <2> QED BY <1>1, <1>2, <2>2, <2>3
<1>3. CASE r = Tail(p) /\ p # <<>>
  <2>1. /\ Tail(p) \in Seq(Opens) /\ Len(p) \in Nat \ {0} /\ Len(Tail(p)) = Len(p) - 1
        /\ \A i \in 1..(Len(p) - 1) : Tail(p)[i] = p[i + 1]
    BY <1>3, HeadTailProperties
  <2>2. \A i \in 1..(Len(p) - 1) : /\ Len(a) + i + 1 \in DOMAIN (a \o p)
                                   /\ (a \o p)[Len(a) + i + 1] = p[i + 1]
    BY <2>1
  <2>3. DOMAIN r = 1..(Len(p) - 1) /\ r \in Seq(Opens) /\ Len(r) <= Len(p)
    <3>1. r \in Seq(Opens) /\ Len(r) = Len(p) - 1 /\ Len(p) \in Nat
      BY <1>3, <2>1
    <3>2. DOMAIN r = 1..Len(r)
      BY <3>1
    <3> QED BY <3>1, <3>2
  <2>4. \A i \in DOMAIN r : \E j \in DOMAIN (a \o p) : r[i] = (a \o p)[j]
    <3> SUFFICES ASSUME NEW i \in DOMAIN r
                 PROVE  \E j \in DOMAIN (a \o p) : r[i] = (a \o p)[j]
      OBVIOUS
    <3>1. i \in 1..(Len(p) - 1) /\ r[i] = p[i + 1]
      BY <1>3, <2>1, <2>3
    <3> QED BY <2>2, <3>1
  <2> QED BY <1>1, <2>3, <2>4
<1> QED BY <1>2, <1>3

\* Opens that were made are opens.
LEMMA NumberedOpens ==
    ASSUME NoteTypes
    PROVE  /\ Numbered \in SUBSET Opens
           /\ \A r \in Seq(Numbered) : r \in Seq(Opens) /\ \A i \in DOMAIN r : r[i] \in Numbered
<1>1. Numbered \in SUBSET Opens
  <2>1. opened \in Nat /\ started \in Nat
    BY DEF NoteTypes
  <2>2. 1..opened \in SUBSET Nat /\ 1..started \in SUBSET Nat
    BY <2>1
  <2> QED BY <2>2 DEF Numbered, Opens
<1>2. ASSUME NEW r \in Seq(Numbered)
      PROVE  r \in Seq(Opens) /\ \A i \in DOMAIN r : r[i] \in Numbered
  BY <1>1
<1> QED BY <1>1, <1>2

\* The records in memory are opens that were made.
LEMMA JournalNumbered ==
    ASSUME NoteTypes, OpenWritten, StartIsNew, CursorsCount
    PROVE  /\ outbox.pending \in Seq(Numbered) /\ outbox.acknowledged \in Seq(Numbered)
           /\ Journal \in Seq(Numbered)
<1>1. /\ Journal \in Seq(Opens) /\ outbox.pending \in Seq(Opens)
      /\ outbox.acknowledged \in Seq(Opens)
  BY JournalOfOpens
<1>2. ASSUME NEW i \in DOMAIN Journal
      PROVE  Journal[i] \in Numbered
  <2>1. Journal[i] \in Opens /\ Journal[i].id \in 1..opened
    BY <1>1 DEF OpenWritten
  <2>2. PICK k \in DOMAIN opens : opens[k] = <<Journal[i].session, Journal[i].sequence>>
    BY DEF CursorsCount
  <2>3. Journal[i].session \in 1..started
    BY <2>2 DEF StartIsNew
  <2> QED BY <2>1, <2>3 DEF Opens, Numbered
<1>3. PICK a, p : a = outbox.acknowledged /\ p = outbox.pending
  OBVIOUS
<1>4. /\ \A i \in 1..Len(a) : a[i] = Journal[i] /\ i \in DOMAIN Journal
      /\ \A i \in 1..Len(p) : p[i] = Journal[Len(a) + i] /\ Len(a) + i \in DOMAIN Journal
  <2>1. Journal = a \o p /\ a \in Seq(Opens) /\ p \in Seq(Opens)
    BY <1>1, <1>3 DEF Journal
  <2> QED BY <2>1
<1>5. ASSUME NEW r \in Seq(Opens), \A i \in 1..Len(r) : r[i] \in Numbered
      PROVE  r \in Seq(Numbered)
  BY <1>5
<1>6. a \in Seq(Numbered) /\ p \in Seq(Numbered)
  BY <1>1, <1>2, <1>3, <1>4, <1>5
<1> QED BY <1>1, <1>2, <1>3, <1>5, <1>6

\* One list behind another.
LEMMA Joined ==
    ASSUME NEW T, NEW x \in Seq(T), NEW y \in Seq(T), NEW m, NEW n, m = Len(x), n = Len(y)
    PROVE  /\ x \o y \in Seq(T) /\ Len(x \o y) = m + n /\ DOMAIN (x \o y) = 1..(m + n)
           /\ m \in Nat /\ n \in Nat
           /\ \A i \in 1..m : (x \o y)[i] = x[i]
           /\ \A i \in 1..n : (x \o y)[m + i] = y[i]
OBVIOUS

\* What is left without a record.
LEMMA UnfiledRecords ==
    ASSUME NEW T, NEW r \in Seq(T), NEW o
    PROVE  Unfiled(r, o) \in Seq(T)
<1>1. PICK k : Unfiled(r, o) = [i \in 1..(Len(r) - 1) |-> r[IF i < k THEN i ELSE i + 1]]
  BY DEF Unfiled
<1>2. Len(r) \in Nat /\ \A i \in 1..(Len(r) - 1) : i \in 1..Len(r) /\ i + 1 \in 1..Len(r)
  OBVIOUS
<1>3. \A i \in 1..(Len(r) - 1) : r[IF i < k THEN i ELSE i + 1] \in T
  BY <1>2
<1>4. CASE Len(r) = 0
  <2>1. 1..(Len(r) - 1) = 1..0
    BY <1>4
  <2>2. Unfiled(r, o) \in [1..0 -> T]
    BY <1>1, <1>3, <2>1
  <2> QED BY <2>2, SeqDef
<1>5. CASE Len(r) # 0
  <2>1. Unfiled(r, o) \in [1..(Len(r) - 1) -> T] /\ Len(r) - 1 \in Nat
    BY <1>1, <1>2, <1>3, <1>5
  <2> QED BY <2>1, SeqDef
<1> QED BY <1>4, <1>5

\* The numbers of the opens are counted.
LEMMA CountFacts ==
    ASSUME NoteTypes, NEW s \in Nat
    PROVE  /\ Count(s) \in Nat
           /\ (\A i \in DOMAIN opens : opens[i][1] # s) => Count(s) = 0
           /\ SequencesUnique /\ ~astray =>
                \A i \in DOMAIN opens : opens[i][1] = s => opens[i][2] <= Count(s)
<1>1. opens \in Seq(Nat \X Nat) /\ DOMAIN opens = 1..Len(opens) /\ Len(opens) \in Nat
  BY DEF NoteTypes
<1>2. IsFiniteSet(1..Len(opens))
  BY <1>1, FS_Interval
<1> DEFINE S == {j \in DOMAIN opens : opens[j][1] = s}
<1>3. IsFiniteSet(S) /\ Cardinality(S) \in Nat /\ Count(s) = Cardinality(S)
  <2>1. S \in SUBSET (1..Len(opens))
    BY <1>1
  <2> QED BY <1>2, <2>1, FS_Subset, FS_CardinalityType DEF Count
<1>4. (\A i \in DOMAIN opens : opens[i][1] # s) => Count(s) = 0
  <2> SUFFICES ASSUME \A i \in DOMAIN opens : opens[i][1] # s PROVE Count(s) = 0
    OBVIOUS
  <2>1. S = {}
    OBVIOUS
  <2> QED BY <1>3, <2>1, FS_EmptySet
<1>5. ASSUME SequencesUnique, ~astray, NEW i \in DOMAIN opens, opens[i][1] = s
      PROVE  opens[i][2] <= Count(s)
  <2>1. opens[i][2] = Cardinality({j \in 1..i : opens[j][1] = s})
    BY <1>5 DEF SequencesUnique
  <2>2. {j \in 1..i : opens[j][1] = s} \in SUBSET S
    BY <1>1
  <2> QED BY <1>3, <2>1, <2>2, FS_Subset
<1> QED BY <1>3, <1>4, <1>5

\* An open that is made durable counts for its session alone.
LEMMA CountGrows ==
    ASSUME NoteTypes, NEW s \in Nat, NEW n \in Nat, opens' = Append(opens, <<s, n>>),
           astray' = astray
    PROVE  /\ \A r \in Nat : Count(r)' = IF r = s THEN Count(r) + 1 ELSE Count(r)
           /\ SequencesUnique /\ (~astray => n = Count(s) + 1) => SequencesUnique'
           /\ \A i \in DOMAIN opens : i \in DOMAIN opens' /\ opens'[i] = opens[i]
           /\ Len(opens) + 1 \in DOMAIN opens' /\ opens'[Len(opens) + 1] = <<s, n>>
<1> DEFINE top == Len(opens) + 1
<1>1. /\ opens \in Seq(Nat \X Nat) /\ DOMAIN opens = 1..Len(opens) /\ Len(opens) \in Nat
      /\ DOMAIN opens' = 1..top /\ opens'[top] = <<s, n>>
      /\ \A i \in 1..Len(opens) : opens'[i] = opens[i]
  BY DEF NoteTypes
<1>2. PICK k \in Nat : k = Len(opens)
  BY <1>1
<1>3. /\ DOMAIN opens = 1..k /\ DOMAIN opens' = 1..(k + 1) /\ opens'[k + 1] = <<s, n>>
      /\ \A i \in 1..k : opens'[i] = opens[i]
  BY <1>1, <1>2
<1>4. ASSUME NEW r \in Nat
      PROVE  Count(r)' = IF r = s THEN Count(r) + 1 ELSE Count(r)
  <2>1. PICK S : S = {j \in 1..k : opens[j][1] = r}
    OBVIOUS
  <2>2. Count(r) = Cardinality(S) /\ IsFiniteSet(S) /\ k + 1 \notin S
    <3>1. S \in SUBSET (1..k) /\ IsFiniteSet(1..k)
      BY <2>1, FS_Interval
    <3>2. IsFiniteSet(S)
      BY <3>1, FS_Subset
    <3> QED BY <1>3, <2>1, <3>1, <3>2 DEF Count
  <2>3. Count(r)' = Cardinality({j \in 1..(k + 1) : opens'[j][1] = r})
    BY <1>3 DEF Count
  <2>4. CASE r = s
    <3>1. {j \in 1..(k + 1) : opens'[j][1] = r} = S \cup {k + 1}
      BY <1>3, <2>1, <2>4
    <3> QED BY <2>2, <2>3, <2>4, <3>1, FS_AddElement, ZenonT(60)
  <2>5. CASE r # s
    <3>1. {j \in 1..(k + 1) : opens'[j][1] = r} = S
      BY <1>3, <2>1, <2>5
    <3> QED BY <2>2, <2>3, <2>5, <3>1
  <2> QED BY <2>4, <2>5
<1>5. ASSUME SequencesUnique, ~astray => n = Count(s) + 1
      PROVE  SequencesUnique'
  <2> SUFFICES ASSUME ~astray, NEW i \in 1..(k + 1)
               PROVE  opens'[i][2] = Cardinality({j \in 1..i : opens'[j][1] = opens'[i][1]})
    BY <1>3 DEF SequencesUnique
  <2>1. CASE i \in 1..k
    <3>1. {j \in 1..i : opens'[j][1] = opens'[i][1]} = {j \in 1..i : opens[j][1] = opens[i][1]}
      BY <1>3, <2>1
    <3> QED BY <1>3, <1>5, <2>1, <3>1 DEF SequencesUnique
  <2>2. CASE i = k + 1
    <3>1. Count(s)' = Cardinality({j \in 1..(k + 1) : opens'[j][1] = s})
      BY <1>3 DEF Count
    <3>2. opens'[i][1] = s /\ opens'[i][2] = n
      BY <1>3, <2>2
    <3> QED BY <1>4, <1>5, <2>2, <3>1, <3>2
  <2>3. i \in 1..k \/ i = k + 1
    OBVIOUS
  <2> QED BY <2>1, <2>2, <2>3
<1> QED BY <1>1, <1>4, <1>5

--------------------------------------------------------------------------------
(* The steps of the page. *)

\* Nil is none of the values it stands for.
LEMMA NilIsNone ==
    /\ Nil \notin Sessions /\ Nil \notin Opens /\ Nil \notin Writes
    /\ Nil # "ok" /\ Nil # "failed"
    /\ Nil \notin StartAnswers /\ Nil \notin PageAnswers /\ Nil \notin SyncAnswers
BY NoteAssumption

\* The page as it will be is a session with the list of the page; without a write
\* it is the one of the page.
LEMMA PageFacts ==
    ASSUME NoteTypes, OpenWritten
    PROVE  /\ session # Nil => /\ session \in Sessions /\ Page \in Sessions
                               /\ Page.session = session.session /\ Page.items = session.items
           /\ commit # "persisting" => write = Nil /\ boundOp = 0 /\ Page = session
           /\ write # Nil => write \in Writes /\ session # Nil /\ effect \in Opens
<1>1. ASSUME write # Nil
      PROVE  /\ commit = "persisting" /\ session \in Sessions /\ effect \in Opens
             /\ write \in Writes /\ advanced = Advance(session, effect)
  BY <1>1 DEF OpenWritten, NoteTypes
<1>2. ASSUME NEW s \in Sessions, NEW o \in Opens
      PROVE  /\ Advance(s, o) \in Sessions /\ Advance(s, o).session = s.session
             /\ Advance(s, o).items = s.items
  <2>1. o.sequence + 1 \in Nat /\ o.position \in Nat
    BY <1>2 DEF Opens
  <2> QED BY <1>2, <2>1 DEF Sessions, Advance
<1>3. session # Nil => session \in Sessions
  BY DEF NoteTypes
<1>4. session # Nil => Page \in Sessions /\ Page.session = session.session
                       /\ Page.items = session.items
  BY <1>1, <1>2, <1>3 DEF Page
<1>5. commit # "persisting" => write = Nil /\ boundOp = 0 /\ Page = session
  BY DEF OpenWritten, Page
<1> QED BY <1>1, <1>3, <1>4, <1>5, NilIsNone

\* A step that leaves the runner alone keeps what is known of the requests.
LEMMA RequestsKept ==
    ASSUME NoteRequests, UNCHANGED <<lanes, running, slot, pending, acked, started>>
    PROVE  NoteRequests'
BY RequestsStay DEF NoteRequests

\* A step that leaves the open, its write and the journal alone keeps what ties them.
LEMMA OpenKept ==
    ASSUME OpenWritten,
           UNCHANGED <<commit, effect, session, opened, write, boundOp, advanced, outbox>>
    PROVE  OpenWritten'
BY DEF OpenWritten, Journal

\* A step that makes no session and no start keeps a start new.
LEMMA NewKept ==
    ASSUME StartIsNew, Underway("start")' <=> Underway("start"),
           slot'["note"] = slot["note"],
           UNCHANGED <<session, started, primary, backup, opens>>
    PROVE  StartIsNew'
BY DEF StartIsNew

\* A step that leaves page, files and journal alone keeps what a reboot restores.
LEMMA StoredKept ==
    ASSUME PageStored, mode' \in {"list", "view"} => mode \in {"list", "view"},
           UNCHANGED <<session, write, advanced, primary, backup, outbox>>
    PROVE  PageStored'
BY DEF PageStored, Reconcile, RepairedBy, Stored, Journal, Page

\* A step that leaves cursors and opens alone keeps their numbering.
LEMMA CountKept ==
    ASSUME CursorsCount,
           UNCHANGED <<session, write, advanced, primary, backup, outbox, opens, astray>>
    PROVE  CursorsCount'
BY DEF CursorsCount, SequencesUnique, Reconcile, RepairedBy, Journal, Page, Count

\* A notebook is confirmed.
LEMMA ConfirmKeeps ==
    ASSUME CloudInv, PageInv, ConfirmNotebook
    PROVE  CloudInv' /\ PageInv'
<1>1. /\ NoteTypes /\ NoteRequests /\ PageWaits /\ OpenWritten
      /\ StartIsNew /\ PageStored /\ CursorsCount
  BY DEF PageInv
<1>2. /\ mode = "notebooks"
      /\ UNCHANGED <<onNote, session, pageRequested, pageInFlight, commit, effect, advanced,
                     boundOp, opened, uiPc, write, primary, backup, outbox, boots, opens,
                     astray>>
  BY DEF ConfirmNotebook, Unmoved, files, journalVars
<1>3. OpenWritten' /\ CursorsCount'
  BY <1>1, <1>2, OpenKept, CountKept
<1>4. CASE /\ QueueRequest(Job("note", "start", started + 1)) /\ started' = started + 1
           /\ createId' = started + 1 /\ startExpected' = TRUE /\ mode' = "starting"
  <2> DEFINE job == Job("note", "start", started + 1)
  <2>1. job \in Jobs /\ job.domain = "note" /\ job.op = "start" /\ job.arg = started'
        /\ started \in Nat
    BY <1>1, <1>4, NoteAssumption DEF Job, Jobs, Operations, NoteTypes
  <2>2. /\ JobPlaces = {} /\ \A kind : ~Underway(kind)
        /\ \A p \in JobPlaces' : (JobAt(p))' = job
        /\ \A kind : Underway(kind)' <=> kind = "start"
        /\ slot' = slot
    BY <1>1, <1>4, <2>1, Asking
  <2>3. CloudInv'
    BY <1>4, <2>1, QueueKeeps
  <2>4. NoteTypes'
    BY <1>1, <1>2, <1>4, <2>1 DEF NoteTypes
  <2>5. NoteRequests'
    <3>1. \A p \in JobPlaces' :
            /\ (JobAt(p))'.domain = "note" /\ (JobAt(p))'.op = "start"
            /\ (JobAt(p))'.arg = started'
      BY <2>1, <2>2
    <3> QED BY <1>1, <2>2, <3>1 DEF NoteRequests
  <2>6. PageWaits'
    <3>1. ~pageInFlight
      BY <1>1, <2>2 DEF PageWaits
    <3> QED BY <1>2, <1>4, <2>2, <3>1 DEF PageWaits
  <2>7. StartIsNew'
    <3>1. \A i \in DOMAIN opens : opens[i][1] \in 1..started
      BY <1>1 DEF StartIsNew
    <3>2. \A n \in 1..started : n \in 1..started' /\ n # started'
      BY <1>4, <2>1
    <3>3. started' > 0
      BY <1>4, <2>1
    <3> QED BY <1>1, <1>2, <2>2, <3>1, <3>2, <3>3 DEF StartIsNew
  <2>8. PageStored'
    BY <1>4 DEF PageStored
  <2> QED BY <1>3, <2>3, <2>4, <2>5, <2>6, <2>7, <2>8 DEF PageInv
<1>5. CASE /\ RefuseRequest /\ createId' = 0 /\ startExpected' = FALSE
           /\ UNCHANGED <<started, mode>>
  <2>1. UNCHANGED <<lanes, running, slot, pending, acked>> /\ UNCHANGED cloudVars
    BY <1>5 DEF RefuseRequest, cloudVars
  <2>2. /\ JobPlaces' = JobPlaces /\ \A p : (JobAt(p))' = JobAt(p)
        /\ \A kind : Underway(kind)' <=> Underway(kind)
    BY <2>1, RequestsStay
  <2>3. CloudInv'
    BY <2>1, CloudStays
  <2>4. NoteTypes'
    <3>1. createId' \in Nat /\ startExpected' \in BOOLEAN
      BY <1>5
    <3> QED BY <1>1, <1>2, <1>5, <3>1 DEF NoteTypes
  <2>5. NoteRequests' /\ StartIsNew' /\ PageStored'
    BY <1>1, <1>2, <1>5, <2>1, <2>2, RequestsKept, NewKept, StoredKept
  <2>6. PageWaits'
    BY <1>1, <1>2, <1>5, <2>2 DEF PageWaits
  <2> QED BY <1>3, <2>3, <2>4, <2>5, <2>6 DEF PageInv
<1> QED BY <1>4, <1>5 DEF ConfirmNotebook

\* A cancelled start is no longer waited for.
LEMMA CancelKeeps ==
    ASSUME CloudInv, PageInv, CancelStart
    PROVE  CloudInv' /\ PageInv'
<1>1. /\ NoteTypes /\ NoteRequests /\ PageWaits /\ OpenWritten
      /\ StartIsNew /\ PageStored /\ CursorsCount
  BY DEF PageInv
<1>2. /\ mode = "starting" /\ startExpected' = FALSE /\ createId' = 0 /\ mode' = "notebooks"
      /\ UNCHANGED cloudVars /\ UNCHANGED <<lanes, running, slot, pending, acked>>
      /\ UNCHANGED <<onNote, session, pageRequested, pageInFlight, commit, effect, advanced,
                     boundOp, started, opened, uiPc, write, primary, backup, outbox, boots,
                     opens, astray>>
  BY DEF CancelStart, Unmoved, files, journalVars, cloudVars
<1>3. /\ JobPlaces' = JobPlaces /\ \A p : (JobAt(p))' = JobAt(p)
      /\ \A kind : Underway(kind)' <=> Underway(kind)
  BY <1>2, RequestsStay
<1>4. CloudInv' /\ NoteRequests' /\ OpenWritten' /\ StartIsNew' /\ PageStored' /\ CursorsCount'
  BY <1>1, <1>2, <1>3, CloudStays, RequestsKept, OpenKept, NewKept, StoredKept, CountKept
<1>5. NoteTypes'
  <2>1. createId' \in Nat /\ startExpected' \in BOOLEAN /\ mode' \in {"notebooks"}
    BY <1>2
  <2> QED BY <1>1, <1>2, <2>1 DEF NoteTypes
<1>6. PageWaits'
  BY <1>1, <1>2, <1>3 DEF PageWaits
<1> QED BY <1>4, <1>5, <1>6 DEF PageInv

\* An open gets an id no record has.
LEMMA OpenKeeps ==
    ASSUME CloudInv, PageInv, NEW i \in 1..ListLength, OpenNote(i)
    PROVE  CloudInv' /\ PageInv'
<1>1. /\ NoteTypes /\ NoteRequests /\ PageWaits /\ OpenWritten
      /\ StartIsNew /\ PageStored /\ CursorsCount
  BY DEF PageInv
<1>2. /\ mode = "list" /\ i \in DOMAIN session.items /\ commit # "persisting"
      /\ opened' = opened + 1
      /\ effect' = [id |-> opened + 1, session |-> session.session,
                    sequence |-> session.next, item |-> session.items[i], position |-> i]
      /\ commit' = "persisting" /\ mode' = "view"
      /\ UNCHANGED cloudVars /\ UNCHANGED <<lanes, running, slot, pending, acked>>
      /\ UNCHANGED <<onNote, session, createId, startExpected, pageRequested, pageInFlight,
                     advanced, boundOp, started, uiPc, write, primary, backup, outbox, boots,
                     opens, astray>>
  BY DEF OpenNote, Unmoved, files, journalVars, cloudVars
<1>3. /\ JobPlaces' = JobPlaces /\ \A p : (JobAt(p))' = JobAt(p)
      /\ \A kind : Underway(kind)' <=> Underway(kind)
  BY <1>2, RequestsStay
<1>4. CloudInv' /\ NoteRequests' /\ StartIsNew' /\ PageStored' /\ CursorsCount'
  BY <1>1, <1>2, <1>3, CloudStays, RequestsKept, NewKept, StoredKept, CountKept
<1>5. /\ session \in Sessions /\ session # Nil /\ opened \in Nat
      /\ session.items \in Seq(Nat) /\ session.session \in Nat /\ session.next \in Nat
      /\ i \in 1..Len(session.items) /\ session.items[i] \in Nat /\ i \in Nat
  <2>1. session # Nil /\ session \in Sessions /\ opened \in Nat
    BY <1>1, <1>2 DEF PageWaits, NoteTypes
  <2>2. session.items \in Seq(Nat) /\ session.session \in Nat /\ session.next \in Nat
    BY <2>1 DEF Sessions
  <2> QED BY <1>2, <2>1, <2>2
<1>6. effect' \in Opens /\ opened + 1 \in Nat
  BY <1>2, <1>5 DEF Opens
<1>7. NoteTypes'
  BY <1>1, <1>2, <1>6 DEF NoteTypes
<1>8. PageWaits'
  BY <1>1, <1>2, <1>3 DEF PageWaits
<1>9. OpenWritten'
  <2>1. write = Nil /\ boundOp = 0
    BY <1>1, <1>2, PageFacts
  <2>2. Journal' = Journal /\ \A j \in DOMAIN Journal : Journal[j].id \in 1..opened
    BY <1>1, <1>2 DEF OpenWritten, Journal
  <2>3. \A n \in 1..opened : n \in 1..(opened + 1) /\ n # opened + 1
    BY <1>5
  <2>4. \A j \in DOMAIN Journal : Journal[j].id \in 1..(opened + 1) /\ Journal[j].id # opened + 1
    BY <2>2, <2>3
  <2>5. /\ effect'.id = opened + 1 /\ effect'.session = session.session
        /\ effect'.sequence = session.next /\ effect'.position = i
        /\ effect' # Nil
    BY <1>2, <1>6, NilIsNone
  <2>6. opened + 1 > 0
    BY <1>5
  <2> QED BY <1>2, <1>5, <2>1, <2>2, <2>4, <2>5, <2>6 DEF OpenWritten
<1> QED BY <1>4, <1>7, <1>8, <1>9 DEF PageInv

\* The list is scrolled, left, or waited for.
LEMMA LookKeeps ==
    ASSUME CloudInv, PageInv, ScrollDown \/ GoBack \/ Poll \/ EndScan
    PROVE  CloudInv' /\ PageInv'
<1>1. /\ NoteTypes /\ NoteRequests /\ PageWaits /\ OpenWritten
      /\ StartIsNew /\ PageStored /\ CursorsCount
  BY DEF PageInv
<1>2. /\ UNCHANGED cloudVars /\ UNCHANGED <<lanes, running, slot, pending, acked>>
      /\ UNCHANGED <<session, createId, startExpected, pageInFlight, commit, effect, advanced,
                     boundOp, started, opened, write, primary, backup, outbox, boots, opens,
                     astray>>
      /\ uiPc' \in {uiPc, "scan", "persist"} /\ onNote' = onNote
      /\ pageRequested' \in BOOLEAN
      /\ mode' = mode \/ (mode \in {"view", "list"} /\ mode' \in {"list", "notebooks"})
  <2>1. pageRequested \in BOOLEAN
    BY <1>1 DEF NoteTypes
  <2>2. ScrollDown \/ GoBack => uiPc' = uiPc
    BY DEF ScrollDown, GoBack, Unmoved
  <2>4. CASE ScrollDown
    BY <2>1, <2>2, <2>4 DEF ScrollDown, Unmoved, files, journalVars, cloudVars
  <2>5. CASE GoBack
    BY <2>1, <2>2, <2>5 DEF GoBack, Unmoved, files, journalVars, cloudVars
  <2>6. CASE Poll
    <3>1. uiPc' = "scan" /\ UNCHANGED <<cloudVars, pageVars, write, files, journalVars, started,
                                        opened, boots, opens, astray>>
      BY <2>6 DEF Poll
    <3>2. /\ UNCHANGED cloudVars /\ UNCHANGED pageVars /\ UNCHANGED files
          /\ UNCHANGED <<write, outbox, started, opened, boots, opens, astray>>
      BY <3>1 DEF journalVars
    <3>3. UNCHANGED <<lanes, running, slot, pending, acked>>
      BY <3>2 DEF cloudVars
    <3>4. UNCHANGED <<onNote, mode, session, createId, startExpected, pageRequested,
                      pageInFlight, commit, effect, advanced, boundOp, primary, backup>>
      BY <3>2 DEF pageVars, files, journalVars
    <3> QED BY <2>1, <3>1, <3>2, <3>3, <3>4
  <2>7. CASE EndScan
    <3>1. uiPc' = "persist" /\ UNCHANGED <<cloudVars, pageVars, write, files, journalVars, started,
                                           opened, boots, opens, astray>>
      BY <2>7 DEF EndScan
    <3>2. /\ UNCHANGED cloudVars /\ UNCHANGED pageVars /\ UNCHANGED files
          /\ UNCHANGED <<write, outbox, started, opened, boots, opens, astray>>
      BY <3>1 DEF journalVars
    <3>3. UNCHANGED <<lanes, running, slot, pending, acked>>
      BY <3>2 DEF cloudVars
    <3>4. UNCHANGED <<onNote, mode, session, createId, startExpected, pageRequested,
                      pageInFlight, commit, effect, advanced, boundOp, primary, backup>>
      BY <3>2 DEF pageVars, files, journalVars
    <3> QED BY <2>1, <3>1, <3>2, <3>3, <3>4
  <2> QED BY <2>4, <2>5, <2>6, <2>7
<1>3. /\ JobPlaces' = JobPlaces /\ \A p : (JobAt(p))' = JobAt(p)
      /\ \A kind : Underway(kind)' <=> Underway(kind)
  BY <1>2, RequestsStay
<1>4. CloudInv' /\ NoteRequests' /\ OpenWritten' /\ StartIsNew' /\ PageStored' /\ CursorsCount'
  BY <1>1, <1>2, <1>3, CloudStays, RequestsKept, OpenKept, NewKept, StoredKept, CountKept
<1>5. NoteTypes'
  BY <1>1, <1>2 DEF NoteTypes
<1>6. PageWaits'
  BY <1>1, <1>2, <1>3 DEF PageWaits
<1> QED BY <1>4, <1>5, <1>6 DEF PageInv

\* The screen is left, or entered with a synchronisation of the packs.
LEMMA SwitchKeeps ==
    ASSUME CloudInv, PageInv, SwitchScreen
    PROVE  CloudInv' /\ PageInv'
<1>1. /\ NoteTypes /\ NoteRequests /\ PageWaits /\ OpenWritten
      /\ StartIsNew /\ PageStored /\ CursorsCount
  BY DEF PageInv
<1>2. /\ onNote' = ~onNote
      /\ UNCHANGED <<mode, session, createId, startExpected, pageRequested, pageInFlight,
                     commit, effect, advanced, boundOp, started, opened, uiPc, write, primary,
                     backup, outbox, boots, opens, astray>>
  BY DEF SwitchScreen, Unmoved, files, journalVars
<1>3. OpenWritten' /\ PageStored' /\ CursorsCount'
  BY <1>1, <1>2, OpenKept, StoredKept, CountKept
<1>4. NoteTypes'
  BY <1>1, <1>2 DEF NoteTypes
<1>5. CASE RefuseRequest
  <2>1. UNCHANGED <<lanes, running, slot, pending, acked>> /\ UNCHANGED cloudVars
    BY <1>5 DEF RefuseRequest, cloudVars
  <2>2. /\ JobPlaces' = JobPlaces /\ \A p : (JobAt(p))' = JobAt(p)
        /\ \A kind : Underway(kind)' <=> Underway(kind)
    BY <2>1, RequestsStay
  <2>3. CloudInv' /\ NoteRequests' /\ StartIsNew'
    BY <1>1, <1>2, <2>1, <2>2, CloudStays, RequestsKept, NewKept
  <2>4. PageWaits'
    BY <1>1, <1>2, <2>2 DEF PageWaits
  <2> QED BY <1>3, <1>4, <2>3, <2>4 DEF PageInv
<1>6. CASE QueueRequest(Job("note", "packSync", 0))
  <2> DEFINE job == Job("note", "packSync", 0)
  <2>1. job \in Jobs /\ job.domain = "note" /\ job.op = "packSync"
    BY NoteAssumption DEF Job, Jobs, Operations
  <2>2. /\ JobPlaces = {} /\ \A kind : ~Underway(kind)
        /\ \A p \in JobPlaces' : (JobAt(p))' = job
        /\ \A kind : Underway(kind)' <=> kind = "packSync"
        /\ slot' = slot
    BY <1>1, <1>6, <2>1, Asking
  <2>3. CloudInv'
    BY <1>6, <2>1, QueueKeeps
  <2>4. NoteRequests'
    <3>1. \A p \in JobPlaces' : (JobAt(p))'.domain = "note" /\ (JobAt(p))'.op = "packSync"
      BY <2>1, <2>2
    <3> QED BY <1>1, <2>2, <3>1 DEF NoteRequests
  <2>5. ~startExpected /\ ~pageInFlight
    BY <1>1, <2>2 DEF PageWaits
  <2>6. PageWaits'
    BY <1>1, <1>2, <2>2, <2>5 DEF PageWaits
  <2>7. StartIsNew'
    BY <1>1, <1>2, <2>2, NewKept
  <2> QED BY <1>3, <1>4, <2>3, <2>4, <2>6, <2>7 DEF PageInv
<1> QED BY <1>5, <1>6 DEF SwitchScreen

--------------------------------------------------------------------------------
(* The end of a round. *)

\* The end of a round frees the domain.
LEMMA EndRoundKeeps ==
    ASSUME CloudInv, PageInv, EndRound
    PROVE  CloudInv' /\ PageInv'
<1>1. /\ NoteTypes /\ NoteRequests /\ PageWaits /\ OpenWritten
      /\ StartIsNew /\ PageStored /\ CursorsCount
  BY DEF PageInv
<1>2. /\ FinishRequests /\ UNCHANGED <<lanes, running, slot, pending, acked>>
      /\ uiPc' = "pumpPage"
      /\ UNCHANGED <<onNote, mode, session, createId, startExpected, pageRequested,
                     pageInFlight, commit, effect, advanced, boundOp, started, opened, write,
                     primary, backup, outbox, boots, opens, astray>>
  BY DEF EndRound, FinishRequests, pageVars, files, journalVars
<1>3. /\ JobPlaces' = JobPlaces /\ \A p : (JobAt(p))' = JobAt(p)
      /\ \A kind : Underway(kind)' <=> Underway(kind)
  BY <1>2, RequestsStay
<1>4. CloudInv' /\ NoteRequests' /\ OpenWritten' /\ StartIsNew' /\ PageStored' /\ CursorsCount'
  BY <1>1, <1>2, <1>3, FinishKeeps, RequestsKept, OpenKept, NewKept, StoredKept, CountKept
<1>5. NoteTypes'
  BY <1>1, <1>2 DEF NoteTypes
<1>6. PageWaits'
  BY <1>1, <1>2, <1>3 DEF PageWaits
<1> QED BY <1>4, <1>5, <1>6 DEF PageInv

\* The page becomes what the worker wrote, or stays.
LEMMA TakePersistKeeps ==
    ASSUME CloudInv, PageInv, TakePersistResult
    PROVE  CloudInv' /\ PageInv'
<1>1. /\ NoteTypes /\ NoteRequests /\ PageWaits /\ OpenWritten
      /\ StartIsNew /\ PageStored /\ CursorsCount
  BY DEF PageInv
<1>2. /\ UNCHANGED cloudVars /\ UNCHANGED <<lanes, running, slot, pending, acked>>
      /\ uiPc' = "finish"
      /\ UNCHANGED <<onNote, mode, createId, startExpected, pageRequested, pageInFlight,
                     started, opened, primary, backup, outbox, boots, opens, astray>>
  BY DEF TakePersistResult, files, journalVars, cloudVars
<1>3. /\ JobPlaces' = JobPlaces /\ \A p : (JobAt(p))' = JobAt(p)
      /\ \A kind : Underway(kind)' <=> Underway(kind)
  BY <1>2, RequestsStay
<1>4. CloudInv' /\ NoteRequests'
  BY <1>1, <1>2, CloudStays, RequestsKept
<1>5. CASE UNCHANGED <<write, session, commit, effect, advanced, boundOp>>
  <2>1. OpenWritten' /\ StartIsNew' /\ PageStored' /\ CursorsCount'
    BY <1>1, <1>2, <1>3, <1>5, OpenKept, NewKept, StoredKept, CountKept
  <2>2. NoteTypes'
    BY <1>1, <1>2, <1>5 DEF NoteTypes
  <2>3. PageWaits'
    BY <1>1, <1>2, <1>3, <1>5 DEF PageWaits
  <2> QED BY <1>4, <2>1, <2>2, <2>3 DEF PageInv
<1>6. CASE write # Nil /\ write.result # Nil
  <2>1. /\ commit = "persisting" /\ boundOp = write.op /\ write' = Nil
        /\ boundOp' = 0
        /\ IF write.result = "ok"
           THEN /\ session' = advanced /\ advanced' = Nil /\ effect' = Nil
                /\ commit' = "cloudPending"
           ELSE /\ commit' = "failed"
                /\ UNCHANGED <<session, effect, advanced>>
    BY <1>1, <1>6 DEF OpenWritten, TakePersistResult
  <2>2. /\ session \in Sessions /\ session # Nil /\ Page \in Sessions
        /\ Page.session = session.session /\ Page.items = session.items
    BY <1>1, <1>6, PageFacts
  <2>3. session' = Page
    BY <1>6, <2>1 DEF Page
  <2>4. Page' = session'
    BY <2>1 DEF Page
  <2>5. /\ session' \in Sessions /\ session' # Nil /\ session'.session = session.session
        /\ session'.items = session.items
    BY <2>2, <2>3, NilIsNone
  <2>6. NoteTypes'
    <3>1. session' \in Sessions /\ commit' \in {"cloudPending", "failed"} /\ boundOp' \in Nat
          /\ effect' \in Opens \cup {Nil} /\ advanced' \in Sessions \cup {Nil}
          /\ write' \in Writes \cup {Nil}
      BY <1>1, <2>1, <2>5 DEF NoteTypes
    <3> QED BY <1>1, <1>2, <3>1 DEF NoteTypes
  <2>7. PageWaits'
    BY <1>1, <1>2, <1>3, <2>2, <2>5 DEF PageWaits
  <2>8. OpenWritten'
    <3>1. commit' # "persisting"
      BY <2>1
    <3>2. Journal' = Journal /\ opened' = opened
      BY <1>2 DEF Journal
    <3> QED BY <1>1, <2>1, <3>1, <3>2 DEF OpenWritten
  <2>9. StartIsNew'
    BY <1>1, <1>2, <1>3, <2>2, <2>5 DEF StartIsNew
  <2>10. PageStored'
    <3>1. Journal' = Journal /\ Stored' = Stored
      BY <1>2 DEF Journal, Stored
    <3> QED BY <1>1, <1>2, <2>3, <2>4, <3>1 DEF PageStored, Reconcile, RepairedBy
  <2>11. CursorsCount'
    <3>1. Journal' = Journal /\ opens' = opens /\ astray' = astray
          /\ primary' = primary /\ backup' = backup
      BY <1>2 DEF Journal
    <3>2. SequencesUnique'
      BY <1>1, <3>1 DEF CursorsCount, SequencesUnique
    <3>3. ~astray => Page'.next = Count(session'.session) + 1
      BY <1>1, <2>2, <2>3, <2>4, <2>5 DEF CursorsCount
    <3> QED BY <1>1, <2>5, <3>1, <3>2, <3>3 DEF CursorsCount, Reconcile, RepairedBy, Count
  <2> QED BY <1>4, <2>6, <2>7, <2>8, <2>9, <2>10, <2>11 DEF PageInv
<1> QED BY <1>5, <1>6 DEF TakePersistResult

\* A page asks for what follows its list.
LEMMA PumpPageKeeps ==
    ASSUME CloudInv, PageInv, PumpCandidatePage
    PROVE  CloudInv' /\ PageInv'
<1>1. /\ NoteTypes /\ NoteRequests /\ PageWaits /\ OpenWritten
      /\ StartIsNew /\ PageStored /\ CursorsCount
  BY DEF PageInv
<1>2. /\ uiPc' = "pumpCommit"
      /\ UNCHANGED <<onNote, mode, session, createId, startExpected, commit, effect, advanced,
                     boundOp, started, opened, write, primary, backup, outbox, boots, opens,
                     astray>>
  BY DEF PumpCandidatePage, files, journalVars
<1>3. OpenWritten' /\ PageStored' /\ CursorsCount'
  BY <1>1, <1>2, OpenKept, StoredKept, CountKept
<1>4. CASE /\ UNCHANGED cloudVars
           /\ pageRequested' \in {pageRequested, TRUE} /\ pageInFlight' \in {pageInFlight, FALSE}
  <2>1. UNCHANGED <<lanes, running, slot, pending, acked>>
    BY <1>4 DEF cloudVars
  <2>2. /\ JobPlaces' = JobPlaces /\ \A p : (JobAt(p))' = JobAt(p)
        /\ \A kind : Underway(kind)' <=> Underway(kind)
    BY <2>1, RequestsStay
  <2>3. CloudInv' /\ NoteRequests' /\ StartIsNew'
    BY <1>1, <1>2, <1>4, <2>1, <2>2, CloudStays, RequestsKept, NewKept
  <2>4. NoteTypes'
    <3>1. pageRequested' \in BOOLEAN /\ pageInFlight' \in BOOLEAN
      BY <1>1, <1>4 DEF NoteTypes
    <3> QED BY <1>1, <1>2, <3>1 DEF NoteTypes
  <2>5. PageWaits'
    <3>1. pageInFlight' => pageInFlight
      BY <1>1, <1>4 DEF NoteTypes
    <3> QED BY <1>1, <1>2, <2>2, <3>1 DEF PageWaits
  <2> QED BY <1>3, <2>3, <2>4, <2>5 DEF PageInv
<1>5. CASE /\ WantsMore(session) /\ pageRequested' = FALSE /\ pageInFlight' = TRUE
           /\ QueueRequest(Job("note", "page",
                  [session |-> session.session, cursor |-> Len(session.items)]))
  <2>1. session \in Sessions /\ session # Nil
    BY <1>1, <1>5 DEF WantsMore, NoteTypes
  <2>2. PICK asked : asked = [session |-> session.session, cursor |-> Len(session.items)]
    OBVIOUS
  <2>3. asked \in [session : Nat, cursor : Nat]
    BY <2>1, <2>2 DEF Sessions
  <2>4. PICK job : job = Job("note", "page", asked)
    OBVIOUS
  <2>5. job \in Jobs /\ job.domain = "note" /\ job.op = "page" /\ job.arg = asked
    BY <2>3, <2>4, NoteAssumption DEF Job, Jobs, Operations
  <2>6. QueueRequest(job)
    BY <1>5, <2>2, <2>4
  <2>7. /\ JobPlaces = {} /\ \A kind : ~Underway(kind)
        /\ \A p \in JobPlaces' : (JobAt(p))' = job
        /\ \A kind : Underway(kind)' <=> kind = "page"
        /\ slot' = slot
    BY <1>1, <2>5, <2>6, Asking
  <2>8. CloudInv'
    BY <2>5, <2>6, QueueKeeps
  <2>9. NoteTypes'
    <3>1. pageRequested' \in BOOLEAN /\ pageInFlight' \in BOOLEAN
      BY <1>5
    <3> QED BY <1>1, <1>2, <3>1 DEF NoteTypes
  <2>10. NoteRequests'
    <3>1. \A p \in JobPlaces' : /\ (JobAt(p))'.domain = "note" /\ (JobAt(p))'.op = "page"
                                /\ (JobAt(p))'.arg \in [session : Nat, cursor : Nat]
      BY <2>3, <2>5, <2>7
    <3> QED BY <1>1, <2>7, <3>1 DEF NoteRequests
  <2>11. PageWaits'
    <3>1. ~startExpected
      BY <1>1, <2>7 DEF PageWaits
    <3>2. \A p \in JobPlaces' :
            (JobAt(p))'.arg = [session |-> session'.session, cursor |-> Len(session'.items)]
      BY <1>2, <2>2, <2>5, <2>7
    <3> QED BY <1>1, <1>2, <2>1, <2>7, <3>1, <3>2 DEF PageWaits
  <2>12. StartIsNew'
    BY <1>1, <1>2, <2>7, NewKept
  <2> QED BY <1>3, <2>8, <2>9, <2>10, <2>11, <2>12 DEF PageInv
<1>6. pageRequested \in BOOLEAN /\ pageInFlight \in BOOLEAN
  BY <1>1 DEF NoteTypes
<1>7. CASE busy["note"] \/ ~pageRequested \/ pageInFlight \/ ~WantsMore(session)
  <2>1. UNCHANGED cloudVars /\ UNCHANGED <<pageRequested, pageInFlight>>
    BY <1>7 DEF PumpCandidatePage
  <2> QED BY <1>4, <2>1
<1>8. CASE ~(busy["note"] \/ ~pageRequested \/ pageInFlight \/ ~WantsMore(session))
  <2>1. CASE /\ QueueRequest(Job("note", "page",
                     [session |-> session.session, cursor |-> Len(session.items)]))
             /\ pageRequested' = FALSE /\ pageInFlight' = TRUE
    BY <1>5, <1>8, <2>1
  <2>2. CASE RefuseRequest /\ pageRequested' = TRUE /\ pageInFlight' = FALSE
    BY <1>4, <2>2 DEF RefuseRequest
  <2> QED BY <1>8, <2>1, <2>2 DEF PumpCandidatePage
<1> QED BY <1>7, <1>8

\* The open that the worker gets continues the page.
LEMMA PumpCommitKeeps ==
    ASSUME CloudInv, PageInv, PumpObservationCommit
    PROVE  CloudInv' /\ PageInv'
<1>1. /\ NoteTypes /\ NoteRequests /\ PageWaits /\ OpenWritten
      /\ StartIsNew /\ PageStored /\ CursorsCount
  BY DEF PageInv
<1>2. /\ UNCHANGED cloudVars /\ UNCHANGED <<lanes, running, slot, pending, acked>>
      /\ uiPc' = "input"
      /\ UNCHANGED <<onNote, mode, session, createId, startExpected, pageRequested,
                     pageInFlight, effect, started, opened, primary, backup, outbox, boots,
                     opens, astray>>
  BY DEF PumpObservationCommit, files, journalVars, cloudVars
<1>3. /\ JobPlaces' = JobPlaces /\ \A p : (JobAt(p))' = JobAt(p)
      /\ \A kind : Underway(kind)' <=> Underway(kind)
  BY <1>2, RequestsStay
<1>4. CloudInv' /\ NoteRequests' /\ StartIsNew'
  BY <1>1, <1>2, <1>3, CloudStays, RequestsKept, NewKept
<1>5. PageWaits'
  BY <1>1, <1>2, <1>3 DEF PageWaits
<1>6. CASE UNCHANGED <<write, commit, advanced, boundOp>>
  <2>1. OpenWritten' /\ PageStored' /\ CursorsCount'
    BY <1>1, <1>2, <1>6, OpenKept, StoredKept, CountKept
  <2>2. NoteTypes'
    BY <1>1, <1>2, <1>6 DEF NoteTypes
  <2> QED BY <1>4, <1>5, <2>1, <2>2 DEF PageInv
<1>7. CASE /\ write = Nil /\ commit = "persisting" /\ boundOp = 0
           /\ write' = [op |-> effect.id, observation |-> effect,
                        session |-> Advance(session, effect), result |-> Nil]
           /\ advanced' = Advance(session, effect)
           /\ boundOp' = effect.id
           /\ UNCHANGED commit
  <2>1. /\ effect # Nil /\ session # Nil /\ effect.id = opened /\ opened > 0
        /\ effect.session = session.session /\ effect.sequence = session.next
        /\ effect.position \in 1..Len(session.items)
        /\ \A i \in DOMAIN Journal : Journal[i].id # opened
        /\ \A i \in DOMAIN Journal : Journal[i].id \in 1..opened
    BY <1>1, <1>7 DEF OpenWritten
  <2>2. session \in Sessions /\ effect \in Opens /\ effect.id \in Nat
    BY <1>1, <2>1 DEF NoteTypes, Opens
  <2>3. Advance(session, effect) \in Sessions
    <3>1. effect.sequence + 1 \in Nat /\ effect.position \in Nat
      BY <2>2 DEF Opens
    <3> QED BY <2>2, <3>1 DEF Sessions, Advance
  <2>4. write' \in Writes
    BY <1>7, <2>2, <2>3 DEF Writes
  <2>5. /\ write' # Nil /\ write'.result = Nil /\ write'.op = effect.id
        /\ write'.observation = effect
    BY <1>7, <2>4, NilIsNone
  <2>6. Journal' = Journal
    BY <1>2 DEF Journal
  <2>7. NoteTypes'
    BY <1>1, <1>2, <1>7, <2>2, <2>3, <2>4 DEF NoteTypes
  <2>8. OpenWritten'
    BY <1>2, <1>7, <2>1, <2>5, <2>6 DEF OpenWritten
  <2>9. Page' = Page
    BY <1>2, <1>7, <2>5, NilIsNone DEF Page
  <2>10. PageStored'
    BY <1>1, <1>2, <2>6, <2>9 DEF PageStored, Reconcile, RepairedBy, Stored
  <2>11. CursorsCount'
    BY <1>1, <1>2, <2>6, <2>9 DEF CursorsCount, SequencesUnique, Reconcile, RepairedBy, Count
  <2> QED BY <1>4, <1>5, <2>7, <2>8, <2>10, <2>11 DEF PageInv
<1>8. CASE write = Nil /\ commit = "persisting" /\ boundOp = 0
  <2>1. effect.session = session.session /\ effect.sequence = session.next
    BY <1>1, <1>8 DEF OpenWritten
  <2> QED BY <1>6, <1>7, <1>8, <2>1 DEF PumpObservationCommit
<1>9. CASE ~(write = Nil /\ commit = "persisting" /\ boundOp = 0)
  BY <1>6, <1>9 DEF PumpObservationCommit
<1> QED BY <1>8, <1>9

--------------------------------------------------------------------------------
(* The persist worker and the lanes. *)

\* The worker appends the open behind all of its session, or the program has nothing of it.
LEMMA PersistKeeps ==
    ASSUME CloudInv, PageInv, PersistWrite
    PROVE  CloudInv' /\ PageInv'
<1>1. /\ NoteTypes /\ NoteRequests /\ PageWaits /\ OpenWritten
      /\ StartIsNew /\ PageStored /\ CursorsCount
  BY DEF PageInv
<1>2. /\ write # Nil /\ write.result = Nil
      /\ UNCHANGED cloudVars /\ UNCHANGED <<lanes, running, slot, pending, acked>>
      /\ UNCHANGED <<uiPc, onNote, mode, session, createId, startExpected, pageRequested,
                     pageInFlight, commit, effect, advanced, boundOp, started, opened, boots,
                     astray>>
  BY DEF PersistWrite, pageVars, cloudVars
<1>3. /\ JobPlaces' = JobPlaces /\ \A p : (JobAt(p))' = JobAt(p)
      /\ \A kind : Underway(kind)' <=> Underway(kind)
  BY <1>2, RequestsStay
<1>4. CloudInv' /\ NoteRequests'
  BY <1>1, <1>2, CloudStays, RequestsKept
<1>5. PageWaits'
  BY <1>1, <1>2, <1>3 DEF PageWaits
<1>6. /\ write \in Writes /\ write.observation = effect /\ effect \in Opens
      /\ effect.id = opened /\ opened > 0 /\ opened \in Nat
      /\ session \in Sessions /\ session # Nil
      /\ effect.session = session.session /\ effect.sequence = session.next
      /\ effect.position \in 1..Len(session.items)
      /\ \A i \in DOMAIN Journal : Journal[i].id # opened
      /\ \A i \in DOMAIN Journal : Journal[i].id \in 1..opened
      /\ advanced = Advance(session, effect)
      /\ write.result # "ok" /\ Page = session
  BY <1>1, <1>2, PageFacts, NilIsNone DEF OpenWritten, NoteTypes, Page
<1>7. ASSUME NEW verdict \in {"ok", "failed"}, write' = [write EXCEPT !.result = verdict]
      PROVE  /\ write' \in Writes /\ write' # Nil /\ write'.result = verdict
             /\ write'.op = write.op /\ write'.observation = write.observation
  <2>1. write' \in Writes
    BY <1>6, <1>7 DEF Writes
  <2> QED BY <1>6, <1>7, <2>1, NilIsNone DEF Writes
<1>8. CASE /\ write' = [write EXCEPT !.result = "failed"]
           /\ UNCHANGED <<outbox, opens, files>>
  <2>1. /\ write' \in Writes /\ write' # Nil /\ write'.result = "failed"
        /\ write'.op = write.op /\ write'.observation = write.observation
    BY <1>7, <1>8
  <2>2. Journal' = Journal /\ Page' = Page /\ opens' = opens /\ outbox' = outbox
        /\ primary' = primary /\ backup' = backup
    BY <1>2, <1>6, <1>8, <2>1 DEF Journal, Page, files, journalVars
  <2>3. NoteTypes'
    BY <1>1, <1>2, <2>1, <2>2 DEF NoteTypes
  <2>4. OpenWritten'
    BY <1>1, <1>2, <1>6, <2>1, <2>2 DEF OpenWritten
  <2>5. StartIsNew'
    BY <1>1, <1>2, <1>3, <2>2, NewKept
  <2>6. PageStored'
    BY <1>1, <1>2, <2>2 DEF PageStored, Reconcile, RepairedBy, Stored
  <2>7. CursorsCount'
    BY <1>1, <1>2, <2>2 DEF CursorsCount, SequencesUnique, Reconcile, RepairedBy, Count
  <2> QED BY <1>4, <1>5, <2>3, <2>4, <2>5, <2>6, <2>7 DEF PageInv
<1>9. CASE /\ write' = [write EXCEPT !.result = "ok"]
           /\ CommitOpen(effect, write.session)
  <2>1. /\ write' \in Writes /\ write' # Nil /\ write'.result = "ok"
        /\ write'.op = write.op /\ write'.observation = write.observation
    BY <1>7, <1>9
  <2>2. /\ Len(outbox.pending) < OutboxCapacity
        /\ outbox' = [outbox EXCEPT !.pending = Append(@, effect)]
        /\ opens' = Append(opens, <<effect.session, effect.sequence>>)
        /\ primary' = primary /\ backup' = backup
    BY <1>6, <1>9 DEF CommitOpen, Recorded, MayAppend, files
  <2>3. PICK s \in Nat, n \in Nat : s = effect.session /\ n = effect.sequence
    BY <1>6 DEF Opens
  <2>4. /\ Journal \in Seq(Opens) /\ outbox.pending \in Seq(Opens)
        /\ outbox.acknowledged \in Seq(Opens)
    BY <1>1, JournalOfOpens
  <2>5. /\ outbox'.pending = Append(outbox.pending, effect)
        /\ outbox'.acknowledged = outbox.acknowledged
        /\ outbox' \in [pending : Seq(Opens), acknowledged : Seq(Opens)]
        /\ Len(outbox'.pending) <= OutboxCapacity
    <3>1. outbox \in [pending : Seq(Opens), acknowledged : Seq(Opens)]
      BY <1>1 DEF NoteTypes
    <3>2. /\ Append(outbox.pending, effect) \in Seq(Opens)
          /\ Len(Append(outbox.pending, effect)) = Len(outbox.pending) + 1
          /\ Len(outbox.pending) \in Nat /\ OutboxCapacity \in Nat
      BY <1>6, <2>4, NoteAssumption
    <3>3. /\ outbox'.pending = Append(outbox.pending, effect)
          /\ outbox'.acknowledged = outbox.acknowledged
          /\ outbox' \in [pending : Seq(Opens), acknowledged : Seq(Opens)]
      BY <2>2, <3>1, <3>2
    <3> QED BY <2>2, <3>2, <3>3
  <2>6. Journal' = Append(Journal, effect)
    <3>1. outbox.acknowledged \o Append(outbox.pending, effect)
            = Append(outbox.acknowledged \o outbox.pending, effect)
      BY <1>6, <2>4, JournalGrows
    <3> QED BY <2>5, <3>1 DEF Journal
  <2>7. /\ \A r \in Nat : Count(r)' = IF r = s THEN Count(r) + 1 ELSE Count(r)
        /\ SequencesUnique /\ (~astray => n = Count(s) + 1) => SequencesUnique'
        /\ \A i \in DOMAIN opens : i \in DOMAIN opens' /\ opens'[i] = opens[i]
        /\ Len(opens) + 1 \in DOMAIN opens' /\ opens'[Len(opens) + 1] = <<s, n>>
    BY <1>1, <1>2, <2>2, <2>3, CountGrows
  <2>8. Page' = Advance(session, effect)
    BY <1>2, <1>6, <2>1 DEF Page
  <2>9. /\ Page'.next = n + 1 /\ \A i \in DOMAIN Journal : Journal'[i] = Journal[i]
        /\ DOMAIN Journal' = 1..(Len(Journal) + 1) /\ DOMAIN Journal = 1..Len(Journal)
        /\ Journal'[Len(Journal) + 1] = effect /\ Len(Journal) \in Nat
    <3>1. Page'.next = n + 1
      BY <1>6, <2>3, <2>8 DEF Advance, Sessions
    <3> QED BY <1>6, <2>4, <2>6, <3>1
  <2>10. NoteTypes'
    <3>1. opens' \in Seq(Nat \X Nat)
      BY <1>1, <2>2, <2>3 DEF NoteTypes
    <3> QED BY <1>1, <1>2, <2>1, <2>2, <2>5, <3>1 DEF NoteTypes
  <2>11. OpenWritten'
    <3>1. \A i \in DOMAIN Journal' : Journal'[i].id \in 1..opened
      <4> SUFFICES ASSUME NEW i \in 1..(Len(Journal) + 1) PROVE Journal'[i].id \in 1..opened
        BY <2>9
      <4>1. i \in 1..Len(Journal) \/ i = Len(Journal) + 1
        BY <2>9
      <4>2. opened \in 1..opened
        BY <1>6
      <4> QED BY <1>6, <2>9, <4>1, <4>2
    <3> QED BY <1>1, <1>2, <1>6, <2>1, <3>1 DEF OpenWritten
  <2>12. StartIsNew'
    <3>1. Underway("start") => s # started
      BY <1>1, <1>6, <2>3 DEF StartIsNew
    <3>2. s \in 1..started
      BY <1>1, <1>6, <2>3 DEF StartIsNew
    <3>3. \A i \in DOMAIN opens' : opens'[i][1] \in 1..started
          /\ (Underway("start") => opens'[i][1] # started)
      <4> SUFFICES ASSUME NEW i \in DOMAIN opens'
                   PROVE  /\ opens'[i][1] \in 1..started
                          /\ (Underway("start") => opens'[i][1] # started)
        OBVIOUS
      <4>1. i \in DOMAIN opens \/ i = Len(opens) + 1
        <5>1. opens \in Seq(Nat \X Nat) /\ <<s, n>> \in Nat \X Nat
          BY <1>1 DEF NoteTypes
        <5>2. opens' = Append(opens, <<s, n>>)
          BY <2>2, <2>3
        <5>3. DOMAIN opens' = 1..(Len(opens) + 1) /\ DOMAIN opens = 1..Len(opens)
              /\ Len(opens) \in Nat
          BY <5>1, <5>2
        <5> QED BY <5>3
      <4> QED BY <1>1, <2>7, <3>1, <3>2, <4>1 DEF StartIsNew
    <3> QED BY <1>1, <1>2, <1>3, <2>2, <3>3 DEF StartIsNew
  <2>13. PageStored'
    <3> SUFFICES ASSUME mode \in {"list", "view"}
                 PROVE  Reconcile(Stored)' = Page'
      BY <1>2 DEF PageStored
    <3>1. Reconcile(Stored) = session
      BY <1>1, <1>6 DEF PageStored
    <3>2. PICK file : file = Stored
      OBVIOUS
    <3>3. file # Nil /\ file \in Sessions /\ Moved(Journal, file) = session
      BY <1>1, <1>6, <3>1, <3>2 DEF Reconcile, RepairedBy, Stored, NoteTypes
    <3>4. file.session = session.session /\ file.items = session.items
      BY <2>4, <3>3, CursorBehind
    <3>5. effect.sequence >= session.next /\ effect.position <= Len(file.items)
      BY <1>6, <3>4 DEF Sessions
    <3>6. Moved(Append(Journal, effect), file) = Advance(Moved(Journal, file), effect)
      BY <1>6, <2>4, <3>3, <3>4, <3>5, CursorMoves
    <3>7. Stored' = file
      BY <2>2, <3>2 DEF Stored
    <3> QED BY <2>6, <2>8, <3>3, <3>6, <3>7 DEF Reconcile, RepairedBy
  <2>14. CursorsCount'
    <3>1. \A i \in DOMAIN Journal' :
            \E k \in DOMAIN opens' : opens'[k] = <<Journal'[i].session, Journal'[i].sequence>>
      <4> SUFFICES ASSUME NEW i \in 1..(Len(Journal) + 1)
                   PROVE  \E k \in DOMAIN opens' :
                            opens'[k] = <<Journal'[i].session, Journal'[i].sequence>>
        BY <2>9
      <4>1. i \in 1..Len(Journal) \/ i = Len(Journal) + 1
        BY <2>9
      <4>2. CASE i \in 1..Len(Journal)
        <5>1. PICK k \in DOMAIN opens : opens[k] = <<Journal[i].session, Journal[i].sequence>>
          BY <1>1, <2>9, <4>2 DEF CursorsCount
        <5> QED BY <2>7, <2>9, <4>2, <5>1
      <4>3. CASE i = Len(Journal) + 1
        BY <2>3, <2>7, <2>9, <4>3
      <4> QED BY <4>1, <4>2, <4>3
    <3>2. ~astray => n = Count(s) + 1
      BY <1>1, <1>6, <2>3 DEF CursorsCount
    <3>3. SequencesUnique'
      BY <1>1, <2>7, <3>2 DEF CursorsCount
    <3>4. ASSUME ~astray PROVE Page'.next = Count(session.session)' + 1
      <4>1. session'.session = s /\ Count(s)' = Count(s) + 1 /\ Page'.next = n + 1
        BY <1>2, <1>6, <2>3, <2>7, <2>9
      <4>2. Page'.next = Count(s)' + 1
        BY <3>2, <3>4, <4>1
      <4> QED BY <4>1, <4>2 DEF Count
    <3>5. ASSUME ~astray, primary # Nil
          PROVE  Reconcile(primary)'.next = Count(primary.session)' + 1
      <4>1. PICK file \in Sessions : file = primary
        BY <1>1, <3>5 DEF NoteTypes
      <4>2. file.session \in Nat /\ file # Nil
        BY <3>5, <4>1 DEF Sessions
      <4>3. Moved(Journal, file).next = Count(file.session) + 1
        BY <1>1, <3>5, <4>1 DEF CursorsCount, Reconcile, RepairedBy
      <4>4. Count(file.session) \in Nat /\ Count(s) \in Nat
        BY <1>1, <4>2, CountFacts
      <4>5. Moved(Journal', file).next = Count(file.session)' + 1
        <5>1. CASE file.session = s
          <6>1. effect.sequence >= Moved(Journal, file).next /\ effect.session = file.session
            BY <2>3, <3>2, <3>5, <4>3, <4>4, <5>1
          <6>2. Moved(Append(Journal, effect), file).next = effect.sequence + 1
            BY <1>6, <2>4, <6>1, CursorMoves
          <6>3. Count(s)' = Count(s) + 1
            BY <2>7
          <6>4. Moved(Journal', file).next = n + 1 /\ n = Count(s) + 1
            BY <2>3, <2>6, <3>2, <3>5, <6>2
          <6> QED BY <4>4, <5>1, <6>3, <6>4
        <5>2. CASE file.session # s
          <6>1. effect.session # file.session
            BY <2>3, <5>2
          <6>2. Moved(Append(Journal, effect), file) = Moved(Journal, file)
            BY <1>6, <2>4, <6>1, CursorMoves
          <6>3. Count(file.session)' = Count(file.session)
            BY <2>7, <4>2, <5>2
          <6> QED BY <2>6, <4>3, <6>2, <6>3
        <5> QED BY <5>1, <5>2
      <4>6. primary' = file
        BY <2>2, <4>1
      <4> QED BY <4>1, <4>2, <4>5, <4>6 DEF Reconcile, RepairedBy, Count
    <3>6. primary' = primary /\ backup' = backup /\ session' = session
          /\ astray' = astray
      BY <1>2, <2>2
    <3> QED BY <1>1, <3>1, <3>3, <3>4, <3>5, <3>6 DEF CursorsCount, Count
  <2> QED BY <1>4, <1>5, <2>10, <2>11, <2>12, <2>13, <2>14 DEF PageInv
<1>10. CASE /\ write' = [write EXCEPT !.result = "failed"]
            /\ AppendFails(effect) \/ UNCHANGED <<journalVars, opens, files>>
  <2>1. UNCHANGED <<outbox, opens, files>>
    BY <1>10 DEF AppendFails, journalVars
  <2> QED BY <1>8, <1>10, <2>1
<1> QED BY <1>6, <1>9, <1>10 DEF PersistWrite

\* Steps of the lanes that leave the page and its files alone.
LEMMA LaneKeeps ==
    ASSUME PageInv, NoteRequests',
           UNCHANGED <<uiPc, onNote, mode, session, createId, startExpected, pageRequested,
                       pageInFlight, commit, effect, advanced, boundOp, started, opened, write,
                       primary, backup, outbox, boots, opens, astray>>,
           \A p \in JobPlaces' : \E q \in JobPlaces : (JobAt(p))' = JobAt(q),
           \A kind : Underway(kind)' <=> Underway(kind),
           \/ slot'["note"].result = Nil \/ slot'["note"].op # "start"
           \/ slot' = slot
           \/ slot'["note"].result \in [status : {"failed", "unsaved"}]
    PROVE  PageInv'
<1>1. /\ NoteTypes /\ NoteRequests /\ PageWaits /\ OpenWritten
      /\ StartIsNew /\ PageStored /\ CursorsCount
  BY DEF PageInv
<1>2. OpenWritten' /\ PageStored' /\ CursorsCount'
  BY <1>1, OpenKept, StoredKept, CountKept
<1>3. NoteTypes'
  BY <1>1 DEF NoteTypes
<1>4. PageWaits'
  BY <1>1 DEF PageWaits
<1>5. StartIsNew'
  BY <1>1 DEF StartIsNew
<1> QED BY <1>2, <1>3, <1>4, <1>5 DEF PageInv

\* A lane takes a job.
LEMMA RunKeeps ==
    ASSUME CloudInv, PageInv, NEW l \in Lanes, RunJob(l)
    PROVE  CloudInv' /\ PageInv'
<1>1. StartJob(l) /\ CloudInv'
  BY StartKeeps DEF RunJob
<1>2. NoteRequests
  BY DEF PageInv
<1>3. /\ \A p \in JobPlaces' : \E q \in JobPlaces : (JobAt(p))' = JobAt(q)
      /\ \A kind : Underway(kind)' <=> Underway(kind)
      /\ slot'["note"].result = Nil
  BY <1>1, <1>2, Taking
<1>4. UNCHANGED <<uiPc, onNote, mode, session, createId, startExpected, pageRequested,
                  pageInFlight, commit, effect, advanced, boundOp, started, opened, write,
                  primary, backup, outbox, boots, opens, astray>>
  BY DEF RunJob, pageVars, files, journalVars
<1>5. NoteRequests'
  BY <1>2, <1>3, <1>4 DEF NoteRequests
<1> QED BY <1>1, <1>3, <1>4, <1>5, LaneKeeps

\* A lane answers a request that starts no session.
LEMMA OtherKeeps ==
    ASSUME CloudInv, PageInv, NEW l \in Lanes, ExecuteOther(l)
    PROVE  CloudInv' /\ PageInv'
<1>1. NoteRequests
  BY DEF PageInv
<1>2. PICK answer : FillSlot(l, answer)
                    /\ answer \in IF running[l].op = "page" THEN AnswersTo(running[l].arg)
                                  ELSE {[status |-> "ok"]}
  BY DEF ExecuteOther
<1>3. /\ JobPlaces' = JobPlaces /\ \A p : (JobAt(p))' = JobAt(p)
      /\ \A kind : Underway(kind)' <=> Underway(kind)
      /\ <<l, 0>> \in JobPlaces /\ JobAt(<<l, 0>>) = running[l]
      /\ slot'["note"].op = running[l].op /\ slot'["note"].result = answer
  BY <1>1, <1>2, Answering
<1>4. running[l].op # "start" /\ (running[l].op = "page" => answer \in PageAnswers)
      /\ (running[l].op # "page" => answer \in SyncAnswers)
  <2>1. running[l].op # "start"
    BY DEF ExecuteOther
  <2>2. ASSUME running[l].op = "page" PROVE answer \in PageAnswers
    <3>1. PICK asked \in [session : Nat, cursor : Nat] : asked = running[l].arg
      BY <1>1, <1>3, <2>2 DEF NoteRequests
    <3>2. asked.session \in Nat /\ asked.cursor \in Nat /\ <<asked.cursor + 1>> \in Seq(Nat)
      BY <3>1
    <3>3. \/ answer = [status |-> "ok", session |-> asked.session, cursor |-> asked.cursor,
                       items |-> <<asked.cursor + 1>>]
          \/ answer = [status |-> "failed"] \/ answer = [status |-> "invalid"]
      BY <1>2, <2>2, <3>1 DEF AnswersTo
    <3>4. CASE answer = [status |-> "ok", session |-> asked.session, cursor |-> asked.cursor,
                         items |-> <<asked.cursor + 1>>]
      BY <3>2, <3>4 DEF PageAnswers
    <3>5. CASE answer \in {[status |-> "failed"], [status |-> "invalid"]}
      BY <3>5 DEF PageAnswers
    <3> QED BY <3>3, <3>4, <3>5
  <2>3. running[l].op # "page" => answer \in SyncAnswers
    BY <1>2 DEF SyncAnswers
  <2> QED BY <2>1, <2>2, <2>3
<1>5. answer \in Results \ {Nil}
  BY <1>4, NilIsNone DEF Results
<1>6. CloudInv'
  BY <1>2, <1>5, FillKeeps
<1>7. UNCHANGED <<uiPc, onNote, mode, session, createId, startExpected, pageRequested,
                  pageInFlight, commit, effect, advanced, boundOp, started, opened, write,
                  primary, backup, outbox, boots, opens, astray>>
  BY DEF ExecuteOther, pageVars, files, journalVars
<1>8. NoteRequests'
  BY <1>1, <1>3, <1>4, <1>7 DEF NoteRequests
<1>9. slot'["note"].op # "start"
  BY <1>3, <1>4
<1> QED BY <1>3, <1>6, <1>7, <1>8, <1>9, LaneKeeps DEF PageInv

\* An answer is published.
LEMMA PublishAnswerKeeps ==
    ASSUME CloudInv, PageInv, NEW l \in Lanes, PublishAnswer(l)
    PROVE  CloudInv' /\ PageInv'
<1>1. PublishResult(l) /\ CloudInv'
  BY PublishKeeps DEF PublishAnswer
<1>2. NoteRequests
  BY DEF PageInv
<1>3. JobPlaces' = {} /\ slot' = slot /\ \A kind : Underway(kind)' <=> Underway(kind)
  BY <1>1, <1>2, Publishing
<1>4. UNCHANGED <<uiPc, onNote, mode, session, createId, startExpected, pageRequested,
                  pageInFlight, commit, effect, advanced, boundOp, started, opened, write,
                  primary, backup, outbox, boots, opens, astray>>
  BY DEF PublishAnswer, pageVars, files, journalVars
<1>5. NoteRequests'
  BY <1>2, <1>3, <1>4 DEF NoteRequests
<1> QED BY <1>1, <1>3, <1>4, <1>5, LaneKeeps

--------------------------------------------------------------------------------
(* A session starts. *)

\* A new session: no record moves its cursor, no open counts for it.
LEMMA NewSessions ==
    ASSUME NoteTypes, StartIsNew, CursorsCount, Underway("start")
    PROVE  LET s == NewSession(started) IN
           /\ s \in Sessions /\ s # Nil /\ s.session = started /\ started \in 1..started
           /\ s.next = 1 /\ s.items = <<1>>
           /\ Moved(Journal, s) = s /\ Count(started) = 0
<1> DEFINE s == NewSession(started)
<1>1. started \in Nat /\ started > 0 /\ \A i \in DOMAIN opens : opens[i][1] # started
  BY DEF NoteTypes, StartIsNew
<1>2. s \in Sessions /\ s.session = started /\ s.next = 1 /\ s.items = <<1>>
  <2>1. <<1>> \in Seq(Nat)
    OBVIOUS
  <2> QED BY <1>1, <2>1 DEF NewSession, Sessions
<1>3. Journal \in Seq(Opens)
  BY JournalOfOpens
<1>4. \A i \in DOMAIN Journal : Journal[i].session # s.session
  <2> SUFFICES ASSUME NEW i \in DOMAIN Journal PROVE Journal[i].session # started
    BY <1>2
  <2>1. PICK k \in DOMAIN opens : opens[k] = <<Journal[i].session, Journal[i].sequence>>
    BY DEF CursorsCount
  <2> QED BY <1>1, <2>1
<1> HIDE DEF s
<1>5. Moved(Journal, s) = s
  BY <1>2, <1>3, <1>4, CursorStays
<1>6. Count(started) = 0
  BY <1>1, CountFacts
<1>7. started \in 1..started /\ s # Nil
  BY <1>1, <1>2, NilIsNone
<1> QED BY <1>2, <1>5, <1>6, <1>7 DEF s

\* A session that starts is saved with the cursor of a new one.
LEMMA StartKeepsPage ==
    ASSUME CloudInv, PageInv, NEW l \in Lanes, ExecuteStart(l)
    PROVE  CloudInv' /\ PageInv'
<1>1. /\ NoteTypes /\ NoteRequests /\ PageWaits /\ OpenWritten
      /\ StartIsNew /\ PageStored /\ CursorsCount
  BY DEF PageInv
<1>2. UNCHANGED <<uiPc, onNote, mode, session, createId, startExpected, pageRequested,
                  pageInFlight, commit, effect, advanced, boundOp, started, opened, write,
                  outbox, boots, opens, astray>>
  BY DEF ExecuteStart, pageVars, journalVars
<1>3. Working(l) /\ running[l].op = "start"
  BY DEF ExecuteStart
<1>4. PICK job : job = running[l]
  OBVIOUS
<1>5. CASE \E status \in {"failed", "unsaved"} : FillSlot(l, [status |-> status]) /\ UNCHANGED files
  <2>1. PICK status \in {"failed", "unsaved"} : FillSlot(l, [status |-> status])
    BY <1>5
  <2>2. PICK answer : answer = [status |-> status]
    OBVIOUS
  <2>3. answer \in [status : {"failed", "unsaved"}] /\ answer \in StartAnswers
        /\ answer \in Results \ {Nil}
    <3>1. answer \in [status : {"failed", "unsaved"}]
      BY <2>2
    <3> QED BY <3>1, NilIsNone DEF StartAnswers, Results
  <2>4. /\ JobPlaces' = JobPlaces /\ \A p : (JobAt(p))' = JobAt(p)
        /\ \A kind : Underway(kind)' <=> Underway(kind)
        /\ slot'["note"].op = running[l].op /\ slot'["note"].result = answer
    BY <1>1, <2>1, <2>2, Answering
  <2>5. CloudInv'
    BY <2>1, <2>2, <2>3, FillKeeps
  <2>6. NoteRequests'
    BY <1>1, <1>2, <1>3, <2>3, <2>4 DEF NoteRequests
  <2>7. UNCHANGED <<primary, backup>>
    BY <1>5 DEF files, journalVars
  <2> QED BY <1>2, <2>3, <2>4, <2>5, <2>6, <2>7, LaneKeeps
<1>6. CASE /\ FillSlot(l, [status |-> "ok", session |-> NewSession(running[l].arg)])
           /\ SaveSession(NewSession(running[l].arg))
  <2>1. <<l, 0>> \in JobPlaces /\ JobAt(<<l, 0>>) = running[l] /\ Underway("start")
    BY <1>1, <1>3, <1>6, Answering
  <2>2. running[l].arg = started
    BY <1>1, <1>3, <2>1 DEF NoteRequests
  <2>3. PICK s : s = NewSession(started)
    OBVIOUS
  <2>4. /\ s \in Sessions /\ s # Nil /\ s.session = started /\ started \in 1..started
        /\ s.next = 1 /\ s.items = <<1>>
        /\ Moved(Journal, s) = s /\ Count(started) = 0
    BY <1>1, <2>1, <2>3, NewSessions
  <2>5. PICK answer : answer = [status |-> "ok", session |-> s]
    OBVIOUS
  <2>6. answer \in StartAnswers /\ answer \in Results \ {Nil}
        /\ answer.status = "ok" /\ answer.session = s
    BY <2>4, <2>5, NilIsNone DEF StartAnswers, Results
  <2>7. FillSlot(l, answer) /\ SaveSession(s)
    BY <1>6, <2>2, <2>3, <2>5
  <2>8. /\ JobPlaces' = JobPlaces /\ \A p : (JobAt(p))' = JobAt(p)
        /\ \A kind : Underway(kind)' <=> Underway(kind)
        /\ slot'["note"].op = "start" /\ slot'["note"].result = answer
    BY <1>1, <1>3, <2>7, Answering
  <2>9. CloudInv'
    BY <2>6, <2>7, FillKeeps
  <2>10. primary' = s /\ backup' = IF primary # Nil THEN primary ELSE backup
    BY <2>7 DEF SaveSession
  <2>11. mode \in {"notebooks", "starting"}
    BY <1>1, <2>1 DEF PageWaits
  <2>12. NoteTypes'
    <3>1. primary' \in Sessions \cup {Nil} /\ backup' \in Sessions \cup {Nil}
      BY <1>1, <2>4, <2>10 DEF NoteTypes
    <3> QED BY <1>1, <1>2, <3>1 DEF NoteTypes
  <2>13. NoteRequests'
    BY <1>1, <1>2, <2>6, <2>8 DEF NoteRequests
  <2>14. PageWaits'
    BY <1>1, <1>2, <2>8 DEF PageWaits
  <2>15. OpenWritten' /\ PageStored'
    BY <1>1, <1>2, <2>11, OpenKept DEF PageStored
  <2>16. StartIsNew'
    <3>1. /\ session' = session /\ started' = started /\ opens' = opens
          /\ Underway("start") /\ Underway("start")'
      BY <1>2, <2>1, <2>8
    <3>2. /\ started > 0
          /\ session # Nil => session.session \in 1..started
          /\ session # Nil => session.session # started
          /\ \A i \in DOMAIN opens : opens[i][1] \in 1..started /\ opens[i][1] # started
      BY <1>1, <2>1 DEF StartIsNew
    <3>3. /\ primary' # Nil => primary'.session \in 1..started
          /\ backup' # Nil => backup'.session \in 1..started
      BY <1>1, <2>4, <2>10 DEF StartIsNew
    <3>4. slot'["note"].result.session = NewSession(started')
          /\ primary' = slot'["note"].result.session
      BY <2>3, <2>6, <2>8, <2>10, <3>1
    <3> QED BY <3>1, <3>2, <3>3, <3>4 DEF StartIsNew
  <2>17. CursorsCount'
    <3>1. Journal' = Journal /\ Page' = Page /\ session' = session /\ opens' = opens
          /\ astray' = astray
      BY <1>2 DEF Journal, Page
    <3>2. primary' # Nil /\ Reconcile(primary)' = s
      BY <2>4, <2>10, <3>1 DEF Reconcile, RepairedBy
    <3>3. s.next = Count(s.session) + 1
      BY <2>4
    <3>4. Reconcile(primary)'.next = Count(primary.session)' + 1
      BY <2>10, <3>1, <3>2, <3>3 DEF Count
    <3> QED BY <1>1, <3>1, <3>2, <3>4 DEF CursorsCount, SequencesUnique, Count
  <2> QED BY <2>9, <2>12, <2>13, <2>14, <2>15, <2>16, <2>17 DEF PageInv
<1> QED BY <1>5, <1>6 DEF ExecuteStart

--------------------------------------------------------------------------------
(* Results *)

\* What the page knows when it takes a result.
LEMMA TakingResult ==
    ASSUME CloudInv, PageInv, TakeNoteResult
    PROVE  /\ CloudInv' /\ NoteRequests'
           /\ UNCHANGED <<uiPc, write, outbox, started, opened, boots, opens>>
           /\ write = Nil /\ boundOp = 0 /\ commit # "persisting" /\ Page = session
           /\ \A kind : ~Underway(kind)'
           /\ \A kind : Underway(kind) <=> slot["note"].op = kind
           /\ slot'["note"].result = Nil /\ slot["note"].result # Nil
           /\ PeekedSlot("note") = slot["note"]
<1>1. /\ NoteTypes /\ NoteRequests /\ OpenWritten
  BY DEF PageInv
<1>2. AckResult("note") /\ commit # "persisting"
      /\ UNCHANGED <<uiPc, write, outbox, started, opened, boots, opens>>
  BY DEF TakeNoteResult, Deferred, journalVars
<1>3. CloudInv'
  BY <1>2, AckKeeps, OneNoteJob, <1>1
<1>4. /\ JobPlaces = {} /\ JobPlaces' = {} /\ HasResult("note")
      /\ \A kind : ~Underway(kind)'
      /\ slot'["note"].result = Nil /\ slot["note"].result # Nil
      /\ PeekedSlot("note") = slot["note"]
  BY <1>1, <1>2, Acknowledging
<1>5. \A kind : Underway(kind) <=> slot["note"].op = kind
  BY <1>4 DEF Underway
<1>6. NoteRequests'
  BY <1>4 DEF NoteRequests
<1> QED BY <1>1, <1>2, <1>3, <1>4, <1>5, <1>6, PageFacts

\* A started session is shown as it was saved.
LEMMA ApplyStartKeeps ==
    ASSUME CloudInv, PageInv, TakeNoteResult, slot["note"].op = "start",
           ApplyStart(slot["note"].result)
    PROVE  CloudInv' /\ PageInv'
<1>1. /\ NoteTypes /\ NoteRequests /\ PageWaits /\ OpenWritten
      /\ StartIsNew /\ PageStored /\ CursorsCount
  BY DEF PageInv
<1>2. /\ CloudInv' /\ NoteRequests'
      /\ UNCHANGED <<uiPc, write, outbox, started, opened, boots, opens>>
      /\ write = Nil /\ boundOp = 0 /\ commit # "persisting" /\ Page = session
      /\ \A kind : ~Underway(kind)'
      /\ \A kind : Underway(kind) <=> slot["note"].op = kind
      /\ slot'["note"].result = Nil /\ slot["note"].result # Nil
  BY TakingResult
<1>3. PICK answer : answer = slot["note"].result
  OBVIOUS
<1>4. /\ startExpected' = FALSE
      /\ UNCHANGED <<onNote, effect, advanced, boundOp, primary, backup, astray>>
  BY DEF ApplyStart, files, journalVars
<1>5. Underway("start") /\ ~Underway("page") /\ ~pageInFlight
  BY <1>1, <1>2 DEF PageWaits
<1>6. mode \in {"notebooks", "starting"} /\ (mode = "starting" <=> startExpected)
      /\ startExpected \in BOOLEAN
  BY <1>1, <1>5 DEF PageWaits, NoteTypes
<1>7. CASE /\ mode' = "notebooks" /\ createId' \in Nat
           /\ UNCHANGED <<session, pageRequested, pageInFlight, commit>>
  <2>1. OpenWritten' /\ CursorsCount' /\ PageStored'
    BY <1>1, <1>2, <1>4, <1>7, OpenKept, CountKept, StoredKept
  <2>2. NoteTypes'
    <3>1. startExpected' \in BOOLEAN /\ mode' \in {"notebooks"}
      BY <1>4, <1>7
    <3> QED BY <1>1, <1>2, <1>4, <1>7, <3>1 DEF NoteTypes
  <2>3. PageWaits'
    BY <1>2, <1>4, <1>5, <1>7 DEF PageWaits
  <2>4. StartIsNew'
    BY <1>1, <1>2, <1>4, <1>7 DEF StartIsNew
  <2> QED BY <1>2, <2>1, <2>2, <2>3, <2>4 DEF PageInv
<1>8. CASE /\ answer.status = "ok"
           /\ session' = answer.session
           /\ commit' = "idle" /\ createId' = 0 /\ mode' = "list"
           /\ pageInFlight' = FALSE
           /\ pageRequested' = NeedsPage(answer.session, "idle")
  <2>1. /\ answer.session = NewSession(started) /\ primary = answer.session
    BY <1>1, <1>2, <1>3, <1>5, <1>8 DEF StartIsNew
  <2>2. PICK s : s = NewSession(started)
    OBVIOUS
  <2>3. /\ s \in Sessions /\ s # Nil /\ s.session = started /\ started \in 1..started
        /\ s.next = 1 /\ s.items = <<1>>
        /\ Moved(Journal, s) = s /\ Count(started) = 0
    BY <1>1, <1>5, <2>2, NewSessions
  <2>4. session' = s /\ primary = s /\ Page' = s /\ Journal' = Journal
    BY <1>2, <1>8, <2>1, <2>2 DEF Page, Journal
  <2>5. NoteTypes'
    <3>1. /\ startExpected' \in BOOLEAN /\ mode' \in {"list"} /\ pageRequested' \in BOOLEAN
          /\ pageInFlight' \in BOOLEAN /\ createId' \in Nat /\ commit' \in {"idle"}
      BY <1>4, <1>8 DEF NeedsPage, WantsMore
    <3> QED BY <1>1, <1>2, <1>4, <2>3, <2>4, <3>1 DEF NoteTypes
  <2>6. PageWaits'
    BY <1>2, <1>4, <1>8, <2>3, <2>4 DEF PageWaits
  <2>7. OpenWritten'
    BY <1>1, <1>2, <1>4, <1>8, <2>4 DEF OpenWritten
  <2>8. StartIsNew'
    BY <1>1, <1>2, <1>4, <2>3, <2>4 DEF StartIsNew
  <2>9. PageStored'
    BY <1>4, <2>3, <2>4 DEF PageStored, Reconcile, RepairedBy, Stored
  <2>10. CursorsCount'
    <3>1. opens' = opens /\ astray' = astray /\ primary' = primary /\ backup' = backup
      BY <1>2, <1>4
    <3>2. Page'.next = Count(session'.session) + 1
      BY <2>3, <2>4
    <3> QED BY <1>1, <2>3, <2>4, <3>1, <3>2
            DEF CursorsCount, SequencesUnique, Reconcile, RepairedBy, Count
  <2> QED BY <1>2, <2>5, <2>6, <2>7, <2>8, <2>9, <2>10 DEF PageInv
<1>9. CASE ~onNote \/ ~startExpected
  <2>1. /\ createId' = IF onNote THEN createId ELSE 0
        /\ mode' = IF onNote THEN mode ELSE "notebooks"
        /\ UNCHANGED <<session, pageRequested, pageInFlight, commit>>
    BY <1>9 DEF ApplyStart
  <2>2. mode' = "notebooks"
    BY <1>1, <1>6, <1>9, <2>1 DEF NoteTypes
  <2>3. createId' \in Nat
    BY <1>1, <2>1 DEF NoteTypes
  <2> QED BY <1>7, <2>1, <2>2, <2>3
<1>10. CASE ~(~onNote \/ ~startExpected) /\ answer.status # "ok"
  <2>1. mode' = "notebooks" /\ UNCHANGED <<createId, session, pageRequested, pageInFlight, commit>>
    BY <1>3, <1>10 DEF ApplyStart
  <2>2. createId' \in Nat
    BY <1>1, <2>1 DEF NoteTypes
  <2> QED BY <1>7, <2>1, <2>2
<1>11. CASE ~(~onNote \/ ~startExpected) /\ answer.status = "ok"
  BY <1>3, <1>8, <1>11 DEF ApplyStart
<1> QED BY <1>9, <1>10, <1>11

\* A page that the server no longer knows is forgotten.
LEMMA ResetKeepsPage ==
    ASSUME CloudInv, PageInv, TakeNoteResult, ResetForServerInvalid
    PROVE  CloudInv' /\ PageInv'
<1>1. /\ NoteTypes /\ NoteRequests /\ PageWaits /\ OpenWritten
      /\ StartIsNew /\ PageStored /\ CursorsCount
  BY DEF PageInv
<1>2. /\ CloudInv' /\ NoteRequests'
      /\ UNCHANGED <<uiPc, write, outbox, started, opened, boots, opens>>
      /\ write = Nil /\ \A kind : ~Underway(kind)'
      /\ slot'["note"].result = Nil
  BY TakingResult
<1>3. /\ session' = Nil /\ createId' = 0 /\ startExpected' = FALSE /\ pageRequested' = FALSE
      /\ pageInFlight' = FALSE /\ commit' = "idle" /\ effect' = Nil /\ advanced' = Nil
      /\ boundOp' = 0 /\ mode' = "notebooks" /\ onNote' = onNote
  BY DEF ResetForServerInvalid, FreshPage
<1>4. /\ primary' \in {primary, Nil} /\ backup' \in {backup, Nil}
      /\ astray' \in {astray, TRUE}
      /\ ~astray' => ~astray /\ \/ primary' = primary /\ backup' = backup
                                \/ primary' = Nil /\ backup' = Nil
  <2>1. astray \in BOOLEAN
    BY <1>1 DEF NoteTypes
  <2>2. CASE primary' = Nil /\ backup' = Nil /\ UNCHANGED astray
    BY <2>1, <2>2
  <2>3. CASE primary' = Nil /\ astray' = TRUE /\ UNCHANGED backup
    BY <2>1, <2>3
  <2>4. CASE UNCHANGED <<primary, backup, astray>>
    BY <2>1, <2>4
  <2> QED BY <2>2, <2>3, <2>4 DEF ResetForServerInvalid, files, journalVars
<1>5. NoteTypes'
  <2>1. /\ startExpected' \in BOOLEAN /\ mode' \in {"notebooks"} /\ pageRequested' \in BOOLEAN
        /\ pageInFlight' \in BOOLEAN /\ createId' \in Nat /\ commit' \in {"idle"}
        /\ boundOp' \in Nat /\ session' \in {Nil} /\ effect' \in {Nil} /\ advanced' \in {Nil}
    BY <1>3
  <2>2. /\ primary' \in Sessions \cup {Nil} /\ backup' \in Sessions \cup {Nil}
        /\ astray' \in BOOLEAN
    BY <1>1, <1>4 DEF NoteTypes
  <2> QED BY <1>1, <1>2, <1>3, <2>1, <2>2 DEF NoteTypes
<1>6. PageWaits' /\ PageStored'
  BY <1>2, <1>3 DEF PageWaits, PageStored
<1>7. Journal' = Journal
  BY <1>2 DEF Journal
<1>8. OpenWritten'
  BY <1>1, <1>2, <1>3, <1>7 DEF OpenWritten
<1>9. StartIsNew'
  BY <1>1, <1>2, <1>3, <1>4 DEF StartIsNew
<1>10. CursorsCount'
  <2>1. \A i \in DOMAIN Journal' :
            \E k \in DOMAIN opens' : opens'[k] = <<Journal'[i].session, Journal'[i].sequence>>
    BY <1>1, <1>2, <1>7 DEF CursorsCount
  <2>2. SequencesUnique'
    BY <1>1, <1>2, <1>4 DEF CursorsCount, SequencesUnique
  <2>3. CASE ~astray' /\ primary' = primary /\ backup' = backup
    BY <1>1, <1>2, <1>3, <1>4, <1>7, <2>1, <2>2, <2>3 DEF CursorsCount, Reconcile, RepairedBy, Count
  <2>4. CASE ~astray' /\ primary' = Nil /\ backup' = Nil
    BY <1>3, <2>1, <2>2, <2>4 DEF CursorsCount
  <2>5. CASE astray'
    BY <2>1, <2>2, <2>5 DEF CursorsCount
  <2> QED BY <1>4, <2>3, <2>4, <2>5
<1> QED BY <1>2, <1>5, <1>6, <1>8, <1>9, <1>10 DEF PageInv

\* A page of candidates is saved before it is shown.
LEMMA ApplyPageKeeps ==
    ASSUME CloudInv, PageInv, TakeNoteResult, slot["note"].op = "page",
           ApplyPage(slot["note"].result)
    PROVE  CloudInv' /\ PageInv'
<1>1. /\ NoteTypes /\ NoteRequests /\ PageWaits /\ OpenWritten
      /\ StartIsNew /\ PageStored /\ CursorsCount
  BY DEF PageInv
<1>2. /\ CloudInv' /\ NoteRequests'
      /\ UNCHANGED <<uiPc, write, outbox, started, opened, boots, opens>>
      /\ write = Nil /\ boundOp = 0 /\ commit # "persisting" /\ Page = session
      /\ \A kind : ~Underway(kind)'
      /\ \A kind : Underway(kind) <=> slot["note"].op = kind
      /\ slot'["note"].result = Nil /\ slot["note"].result # Nil
  BY TakingResult
<1>3. PICK page : page = slot["note"].result /\ page \in PageAnswers
  BY <1>1, <1>2 DEF NoteRequests
<1>4. /\ pageInFlight' = FALSE
      /\ UNCHANGED <<onNote, mode, createId, startExpected, commit, effect, advanced, boundOp,
                     astray>>
  BY DEF ApplyPage
<1>5. ~Underway("start") /\ ~startExpected
  BY <1>1, <1>2 DEF PageWaits
<1>6. Journal' = Journal /\ Page' = session' /\ opens' = opens /\ opened' = opened
      /\ started' = started
  BY <1>2 DEF Journal, Page
<1>7. CASE UNCHANGED <<session, primary, backup>> /\ pageRequested' \in BOOLEAN
  <2>1. OpenWritten' /\ CursorsCount' /\ PageStored'
    BY <1>1, <1>2, <1>4, <1>7, OpenKept, CountKept, StoredKept
  <2>2. NoteTypes'
    <3>1. pageInFlight' \in BOOLEAN
      BY <1>4
    <3> QED BY <1>1, <1>2, <1>4, <1>7, <3>1 DEF NoteTypes
  <2>3. PageWaits'
    BY <1>1, <1>2, <1>4, <1>5, <1>7 DEF PageWaits
  <2>4. StartIsNew'
    BY <1>1, <1>2, <1>4, <1>7 DEF StartIsNew
  <2> QED BY <1>2, <2>1, <2>2, <2>3, <2>4 DEF PageInv
<1>8. CASE /\ session # Nil /\ page.status = "ok"
           /\ SaveSession(Extended(page)) /\ session' = Extended(page)
           /\ pageRequested' = (pageRequested \/ NeedsPage(Extended(page), commit))
  <2>1. session \in Sessions /\ page.items \in Seq(Nat)
    BY <1>1, <1>3, <1>8 DEF NoteTypes, PageAnswers
  <2>2. PICK s : s = Extended(page)
    OBVIOUS
  <2>3. session.items \o page.items \in Seq(Nat)
    BY <2>1 DEF Sessions
  <2>4. s \in Sessions /\ s # Nil /\ s.session = session.session /\ s.next = session.next
    BY <2>1, <2>2, <2>3, NilIsNone DEF Extended, Sessions
  <2>5. session' = s /\ primary' = s /\ backup' = IF primary # Nil THEN primary ELSE backup
    BY <1>8, <2>2 DEF SaveSession
  <2>6. Journal \in Seq(Opens) /\ \A i \in DOMAIN Journal : Journal[i].sequence \in Nat
    <3>1. Journal \in Seq(Opens) /\ \A i \in DOMAIN Journal : Journal[i] \in Opens
      BY <1>1, JournalOfOpens
    <3> QED BY <3>1 DEF Opens
  <2>7. session.session \in Nat /\ session.next \in Nat
    BY <2>1 DEF Sessions
  <2>8. ASSUME ~astray \/ mode \in {"list", "view"}
        PROVE  Moved(Journal, s) = s
    <3>1. ASSUME ~astray
          PROVE  \A i \in DOMAIN Journal :
                    Journal[i].session = session.session => Journal[i].sequence < session.next
      <4>1. session.next = Count(session.session) + 1 /\ SequencesUnique
        BY <1>1, <1>2, <1>8, <3>1 DEF CursorsCount
      <4>2. /\ Count(session.session) \in Nat
            /\ \A k \in DOMAIN opens :
                opens[k][1] = session.session => opens[k][2] <= Count(session.session)
        BY <1>1, <2>7, <3>1, <4>1, CountFacts
      <4> SUFFICES ASSUME NEW i \in DOMAIN Journal, Journal[i].session = session.session
                   PROVE  Journal[i].sequence < session.next
        OBVIOUS
      <4>3. PICK k \in DOMAIN opens : opens[k] = <<Journal[i].session, Journal[i].sequence>>
        BY <1>1 DEF CursorsCount
      <4>4. Journal[i].sequence <= Count(session.session)
        BY <4>2, <4>3
      <4> QED BY <2>6, <4>1, <4>2, <4>4
    <3>2. ASSUME mode \in {"list", "view"}
          PROVE  \A i \in DOMAIN Journal :
                    Journal[i].session = session.session => Journal[i].sequence < session.next
      <4>1. Reconcile(Stored) = session
        BY <1>1, <1>2, <3>2 DEF PageStored
      <4>2. PICK file : file = Stored
        OBVIOUS
      <4>3. file # Nil /\ file \in Sessions /\ Moved(Journal, file) = session
        BY <1>1, <1>8, <4>1, <4>2 DEF Reconcile, RepairedBy, Stored, NoteTypes
      <4> QED BY <2>6, <4>3, CursorBehind
    <3>3. \A i \in DOMAIN Journal :
            Journal[i].session = s.session => Journal[i].sequence < s.next
      BY <2>4, <2>8, <3>1, <3>2
    <3> QED BY <2>4, <2>6, <3>3, CursorStays
  <2>9. NoteTypes'
    <3>1. pageInFlight' \in BOOLEAN /\ pageRequested' \in BOOLEAN
      BY <1>1, <1>4, <1>8 DEF NoteTypes, NeedsPage, WantsMore
    <3>2. /\ session' \in Sessions /\ primary' \in Sessions
          /\ backup' \in Sessions \cup {Nil}
      BY <1>1, <2>4, <2>5 DEF NoteTypes
    <3> QED BY <1>1, <1>2, <1>4, <3>1, <3>2 DEF NoteTypes
  <2>10. PageWaits'
    BY <1>1, <1>2, <1>4, <1>5, <2>4, <2>5 DEF PageWaits
  <2>11. OpenWritten'
    BY <1>1, <1>2, <1>4, <1>6 DEF OpenWritten
  <2>12. StartIsNew'
    BY <1>1, <1>2, <1>6, <1>8, <2>4, <2>5 DEF StartIsNew
  <2>13. PageStored'
    <3> SUFFICES ASSUME mode \in {"list", "view"} PROVE Reconcile(Stored)' = Page'
      BY <1>4 DEF PageStored
    <3>1. Moved(Journal, s) = s
      BY <2>8
    <3> QED BY <1>6, <2>4, <2>5, <3>1 DEF Reconcile, RepairedBy, Stored
  <2>14. CursorsCount'
    <3>1. astray' = astray
      BY <1>4
    <3>2. ASSUME ~astray
          PROVE  /\ Page'.next = Count(session.session) + 1
                 /\ Reconcile(primary)' = s
      <4>1. session.next = Count(session.session) + 1
        BY <1>1, <1>2, <1>8, <3>2 DEF CursorsCount
      <4>2. Moved(Journal, s) = s
        BY <2>8, <3>2
      <4> QED BY <1>6, <2>4, <2>5, <4>1, <4>2 DEF Reconcile, RepairedBy
    <3>3. SequencesUnique'
      BY <1>1, <1>6, <3>1 DEF CursorsCount, SequencesUnique
    <3>4. primary' # Nil /\ primary'.session = session.session /\ session'.session = session.session
          /\ s.next = session.next /\ Page' = s
      BY <1>6, <2>4, <2>5
    <3>5. \A n : Count(n)' = Count(n)
      BY <1>6 DEF Count
    <3>6. ~astray =>
            /\ Reconcile(primary)'.next = Count(primary.session)'  + 1
            /\ Page'.next = Count(session.session)' + 1
      BY <1>6, <3>2, <3>4 DEF Count
    <3> QED BY <1>1, <1>6, <3>1, <3>3, <3>4, <3>6 DEF CursorsCount
  <2> QED BY <1>2, <2>9, <2>10, <2>11, <2>12, <2>13, <2>14 DEF PageInv
<1>9. pageRequested \in BOOLEAN
  BY <1>1 DEF NoteTypes
<1>10. CASE session = Nil
  <2>1. UNCHANGED <<session, pageRequested, primary, backup>>
    BY <1>10 DEF ApplyPage, files, journalVars
  <2> QED BY <1>7, <1>9, <2>1
<1>11. CASE session # Nil /\ page.status # "ok"
  <2>1. pageRequested' = FALSE /\ UNCHANGED <<session, primary, backup>>
    BY <1>3, <1>11 DEF ApplyPage, files, journalVars
  <2> QED BY <1>7, <2>1
<1>12. CASE session # Nil /\ page.status = "ok"
  <2>1. \/ UNCHANGED <<session, pageRequested, primary, backup>>
        \/ /\ SaveSession(Extended(page)) /\ session' = Extended(page)
           /\ pageRequested' = (pageRequested \/ NeedsPage(Extended(page), commit))
    BY <1>3, <1>12 DEF ApplyPage, files, journalVars
  <2> QED BY <1>7, <1>8, <1>9, <1>12, <2>1
<1> QED BY <1>10, <1>11, <1>12

\* A result of the note domain is taken.
LEMMA TakeKeeps ==
    ASSUME CloudInv, PageInv, TakeNoteResult
    PROVE  CloudInv' /\ PageInv'
<1>1. PICK taken : taken = slot["note"]
  OBVIOUS
<1>2. PeekedSlot("note") = taken
  BY <1>1, TakingResult
<1>3. CASE taken.op = "start" \/ taken.op = "page"
  <2>1. \/ taken.op = "start" /\ ApplyStart(taken.result)
        \/ taken.op = "page" /\ (ResetForServerInvalid \/ ApplyPage(taken.result))
    BY <1>2, <1>3 DEF TakeNoteResult
  <2> QED BY <1>1, <2>1, ApplyStartKeeps, ResetKeepsPage, ApplyPageKeeps
<1>4. CASE ~(taken.op = "start" \/ taken.op = "page")
  <2>1. UNCHANGED <<pageVars, files, astray>>
    BY <1>2, <1>4 DEF TakeNoteResult
  <2>2. UNCHANGED <<onNote, mode, session, createId, startExpected, pageRequested,
                    pageInFlight, commit, effect, advanced, boundOp, primary, backup,
                    astray>>
    BY <2>1 DEF pageVars, files, journalVars
  <2>3. /\ NoteTypes /\ NoteRequests /\ PageWaits /\ OpenWritten
        /\ StartIsNew /\ PageStored /\ CursorsCount
    BY DEF PageInv
  <2>4. /\ CloudInv' /\ NoteRequests'
        /\ UNCHANGED <<uiPc, write, outbox, started, opened, boots, opens>>
        /\ \A kind : ~Underway(kind)'
        /\ \A kind : Underway(kind) <=> slot["note"].op = kind
        /\ slot'["note"].result = Nil
    BY TakingResult
  <2>5. ~Underway("start") /\ ~Underway("page")
    BY <1>1, <1>4, <2>4
  <2>6. OpenWritten' /\ CursorsCount' /\ PageStored'
    BY <2>2, <2>3, <2>4, OpenKept, CountKept, StoredKept
  <2>7. NoteTypes'
    BY <2>2, <2>3, <2>4 DEF NoteTypes
  <2>8. PageWaits'
    BY <2>2, <2>3, <2>4, <2>5 DEF PageWaits
  <2>9. StartIsNew'
    BY <2>2, <2>3, <2>4 DEF StartIsNew
  <2> QED BY <2>4, <2>6, <2>7, <2>8, <2>9 DEF PageInv
<1> QED BY <1>3, <1>4

--------------------------------------------------------------------------------
(* The journal is compacted, and the program starts again. *)

\* A checkpoint puts into the file what the records say, and no record moves it further.
LEMMA CheckpointKeeps ==
    ASSUME PageInv, CheckpointSessionFromOutbox \/ (UNCHANGED files /\ Journal' = Journal),
           Journal' \in Seq(Opens),
           \A i \in DOMAIN Journal' : \E j \in DOMAIN Journal : Journal'[i] = Journal[j],
           outbox' \in [pending : Seq(Opens), acknowledged : Seq(Opens)],
           Len(outbox'.pending) <= OutboxCapacity,
           UNCHANGED <<cloudVars, uiPc, pageVars, write, started, opened, boots, opens,
                       astray>>
    PROVE  PageInv'
<1>1. /\ NoteTypes /\ NoteRequests /\ PageWaits /\ OpenWritten
      /\ StartIsNew /\ PageStored /\ CursorsCount
  BY DEF PageInv
<1>2. /\ UNCHANGED <<lanes, running, slot, pending, acked>>
      /\ UNCHANGED <<uiPc, onNote, mode, session, createId, startExpected, pageRequested,
                     pageInFlight, commit, effect, advanced, boundOp, started, opened, write,
                     boots, opens, astray>>
  BY DEF pageVars, cloudVars
<1>3. /\ JobPlaces' = JobPlaces /\ \A p : (JobAt(p))' = JobAt(p)
      /\ \A kind : Underway(kind)' <=> Underway(kind)
  BY <1>2, RequestsStay
<1>4. Journal \in Seq(Opens)
  BY <1>1, JournalOfOpens
<1>5. /\ Stored # Nil => /\ Stored \in Sessions /\ Reconcile(Stored) = Moved(Journal, Stored)
                         /\ Reconcile(Stored) \in Sessions /\ Reconcile(Stored) # Nil
                         /\ Reconcile(Stored).session = Stored.session
      /\ Stored = Nil => Reconcile(Stored) = Nil /\ primary = Nil /\ backup = Nil
  <2>1. PICK file : file = Stored
    OBVIOUS
  <2>2. file \in Sessions \cup {Nil}
    BY <1>1, <2>1 DEF Stored, NoteTypes
  <2>3. file # Nil => /\ Moved(Journal, file) \in Sessions
                      /\ Moved(Journal, file).session = file.session
    BY <1>4, <2>2, CursorBehind
  <2> QED BY <2>1, <2>2, <2>3, NilIsNone DEF Reconcile, RepairedBy, Stored
<1>6. PICK x : x = Reconcile(Stored)
  OBVIOUS
<1>7. x # Nil =>
        /\ \A i \in DOMAIN Journal : Journal[i].session = x.session => Journal[i].sequence < x.next
        /\ Moved(Journal', x) = x
  <2> SUFFICES ASSUME x # Nil
               PROVE  /\ \A i \in DOMAIN Journal :
                            Journal[i].session = x.session => Journal[i].sequence < x.next
                      /\ Moved(Journal', x) = x
    OBVIOUS
  <2>1. Stored # Nil /\ x = Moved(Journal, Stored) /\ x \in Sessions /\ Stored \in Sessions
        /\ x.session = Stored.session
    BY <1>5, <1>6
  <2>2. \A i \in DOMAIN Journal : Journal[i].session = x.session => Journal[i].sequence < x.next
    BY <1>4, <2>1, CursorBehind
  <2>3. \A i \in DOMAIN Journal' : Journal'[i].session = x.session => Journal'[i].sequence < x.next
    BY <2>2
  <2> QED BY <2>1, <2>2, <2>3, CursorStays
<1>8. /\ \/ x # Stored /\ primary' = x /\ backup' = IF primary # Nil THEN primary ELSE backup
         \/ x = Stored /\ UNCHANGED files
         \/ UNCHANGED files /\ Journal' = Journal
      /\ x \in Sessions \cup {Nil}
  BY <1>5, <1>6 DEF CheckpointSessionFromOutbox, SaveSession
<1>9. /\ primary' \in Sessions \cup {Nil} /\ backup' \in Sessions \cup {Nil}
      /\ primary' # Nil => primary'.session \in 1..started
      /\ backup' # Nil => backup'.session \in 1..started
  <2>1. /\ primary \in Sessions \cup {Nil} /\ backup \in Sessions \cup {Nil}
        /\ primary # Nil => primary.session \in 1..started
        /\ backup # Nil => backup.session \in 1..started
    BY <1>1 DEF StartIsNew, NoteTypes
  <2>2. x # Nil => x.session \in 1..started
    BY <1>5, <1>6, <2>1 DEF Stored
  <2> QED BY <1>8, <2>1, <2>2 DEF files, journalVars
<1>10. (Reconcile(Stored))' = x
  <2>1. CASE UNCHANGED files /\ Journal' = Journal
    BY <1>6, <2>1 DEF Reconcile, RepairedBy, Stored, files, journalVars
  <2>2. CASE x = Stored /\ UNCHANGED files
    <3>1. Stored' = x
      BY <2>2 DEF Stored, files, journalVars
    <3>2. CASE x = Nil
      BY <3>1, <3>2 DEF Reconcile, RepairedBy
    <3>3. CASE x # Nil
      BY <1>7, <3>1, <3>3 DEF Reconcile, RepairedBy
    <3> QED BY <3>2, <3>3
  <2>3. CASE x # Stored /\ primary' = x
    <3>1. x # Nil
      BY <1>5, <1>6, <2>3
    <3>2. Stored' = x
      BY <2>3, <3>1 DEF Stored
    <3> QED BY <1>7, <3>1, <3>2 DEF Reconcile, RepairedBy
  <2> QED BY <1>8, <2>1, <2>2, <2>3
<1>11. NoteTypes'
  BY <1>1, <1>2, <1>9 DEF NoteTypes
<1>12. NoteRequests' /\ PageWaits'
  BY <1>1, <1>2, <1>3, RequestsKept DEF PageWaits
<1>13. OpenWritten'
  BY <1>1, <1>2 DEF OpenWritten
<1>14. StartIsNew'
  <2>1. slot["note"].op = "start" /\ slot["note"].result # Nil
          /\ slot["note"].result.status = "ok" => primary' = primary
    <3> SUFFICES ASSUME slot["note"].op = "start", slot["note"].result # Nil,
                        slot["note"].result.status = "ok"
                 PROVE  primary' = primary
      OBVIOUS
    <3>1. PICK s : s = NewSession(started)
      OBVIOUS
    <3>2. Underway("start") /\ primary = s
      BY <1>1, <3>1 DEF StartIsNew
    <3>3. s # Nil /\ Moved(Journal, s) = s
      BY <1>1, <3>1, <3>2, NewSessions
    <3>4. x = Stored
      BY <1>6, <3>2, <3>3 DEF Stored, Reconcile, RepairedBy
    <3> QED BY <1>8, <3>4 DEF files, journalVars
  <2> QED BY <1>1, <1>2, <1>3, <1>9, <2>1 DEF StartIsNew
<1>15. PageStored'
  <2>1. Page' = Page
    BY <1>2 DEF Page
  <2> QED BY <1>1, <1>2, <1>6, <1>10, <2>1 DEF PageStored
<1>16. CursorsCount'
  <2>1. \A i \in DOMAIN Journal' :
            \E k \in DOMAIN opens' : opens'[k] = <<Journal'[i].session, Journal'[i].sequence>>
    BY <1>1, <1>2 DEF CursorsCount
  <2>2. SequencesUnique' /\ Page' = Page
    BY <1>1, <1>2 DEF CursorsCount, SequencesUnique, Page
  <2>3. ASSUME ~astray
        PROVE  /\ primary' = Nil => backup' = Nil
               /\ primary' # Nil => primary # Nil /\ primary'.session = primary.session
                                    /\ (Reconcile(primary))' = Reconcile(primary)
    <3>1. primary = Nil => backup = Nil /\ Stored = Nil /\ x = Nil
      BY <1>1, <1>5, <1>6, <2>3 DEF CursorsCount, Stored
    <3>2. CASE primary = Nil
      BY <1>8, <3>1, <3>2 DEF files, journalVars
    <3>3. CASE primary # Nil
      <4>1. Stored = primary /\ x # Nil /\ x = Reconcile(primary) /\ x.session = primary.session
        BY <1>5, <1>6, <3>3 DEF Stored
      <4>2. primary' # Nil /\ primary'.session = primary.session /\ Stored' = primary'
        BY <1>8, <3>3, <4>1 DEF files, journalVars, Stored
      <4>3. (Reconcile(primary))' = x
        BY <1>10, <4>2 DEF Reconcile, RepairedBy
      <4> QED BY <3>3, <4>1, <4>2, <4>3
    <3> QED BY <3>2, <3>3
  <2>4. ASSUME ~astray, primary' # Nil
        PROVE  (Reconcile(primary))'.next = Count(primary.session)' + 1
    <3>1. Reconcile(primary).next = Count(primary.session) + 1
      BY <1>1, <2>3, <2>4 DEF CursorsCount
    <3>2. primary'.session = primary.session /\ (Reconcile(primary))' = Reconcile(primary)
      BY <2>3, <2>4
    <3>3. Count(primary.session)' = Count(primary.session)
      BY <1>2, <3>2 DEF Count
    <3> QED BY <3>1, <3>2, <3>3
  <2>5. ASSUME ~astray, session # Nil
        PROVE  Page'.next = Count(session.session)' + 1
    BY <1>1, <1>2, <2>2, <2>5 DEF CursorsCount, Count
  <2> QED BY <1>2, <2>1, <2>2, <2>3, <2>4, <2>5 DEF CursorsCount
<1> QED BY <1>11, <1>12, <1>13, <1>14, <1>15, <1>16 DEF PageInv

\* Records are acknowledged and compacted.
LEMMA AckObservationKeeps ==
    ASSUME CloudInv, PageInv, AckObservation
    PROVE  CloudInv' /\ PageInv'
<1>1. /\ UNCHANGED <<cloudVars, uiPc, pageVars, write, started, opened, boots, opens,
                     astray>>
      /\ outbox.pending # <<>>
  BY DEF AckObservation
<1>2. CloudInv'
  BY <1>1, CloudStays
<1>3. /\ NoteTypes /\ outbox.pending \in Seq(Opens) /\ outbox.acknowledged \in Seq(Opens)
      /\ Journal \in Seq(Opens)
      /\ outbox \in [pending : Seq(Opens), acknowledged : Seq(Opens)]
      /\ Len(outbox.pending) <= OutboxCapacity /\ Len(outbox.pending) \in Nat
      /\ OutboxCapacity \in Nat
  BY JournalOfOpens, NoteAssumption DEF PageInv, NoteTypes
<1>4. PICK a, p : a = outbox.acknowledged /\ p = outbox.pending
  OBVIOUS
<1>5. /\ Append(a, Head(p)) \o Tail(p) = a \o p
      /\ Append(a, Head(p)) \in Seq(Opens) /\ Tail(p) \in Seq(Opens)
      /\ Len(Tail(p)) <= Len(p)
  BY <1>1, <1>3, <1>4, JournalStays
<1>6. Len(Tail(p)) <= OutboxCapacity
  <2>1. Len(Tail(p)) \in Nat
    BY <1>5
  <2> QED BY <1>3, <1>4, <1>5, <2>1
<1>7. CASE outbox' = [pending |-> Tail(p), acknowledged |-> Append(a, Head(p))] /\ UNCHANGED files
  <2>1. Journal' = Journal
    BY <1>4, <1>5, <1>7 DEF Journal
  <2>2. outbox' \in [pending : Seq(Opens), acknowledged : Seq(Opens)]
        /\ Len(outbox'.pending) <= OutboxCapacity
    BY <1>5, <1>6, <1>7
  <2> QED BY <1>1, <1>2, <1>3, <1>7, <2>1, <2>2, CheckpointKeeps
<1>8. CASE /\ outbox' = [pending |-> Tail(p), acknowledged |-> <<>>]
           /\ CheckpointSessionFromOutbox
  <2>1. /\ <<>> \o Tail(p) \in Seq(Opens)
        /\ \A i \in DOMAIN (<<>> \o Tail(p)) :
            \E j \in DOMAIN (a \o p) : (<<>> \o Tail(p))[i] = (a \o p)[j]
    <3>1. /\ a \in Seq(Opens) /\ p \in Seq(Opens) /\ Tail(p) \in {p, Tail(p)}
          /\ p # <<>> \/ Tail(p) = p
      BY <1>1, <1>3, <1>4
    <3> QED BY <3>1, JournalShrinks
  <2>2. Journal' = <<>> \o Tail(p) /\ Journal = a \o p
    BY <1>4, <1>8 DEF Journal
  <2>3. outbox' \in [pending : Seq(Opens), acknowledged : Seq(Opens)]
        /\ Len(outbox'.pending) <= OutboxCapacity
    <3>1. <<>> \in Seq(Opens)
      OBVIOUS
    <3> QED BY <1>5, <1>6, <1>8, <3>1
  <2>4. /\ Journal' \in Seq(Opens)
        /\ \A i \in DOMAIN Journal' : \E j \in DOMAIN Journal : Journal'[i] = Journal[j]
    BY <2>1, <2>2
  <2> QED BY <1>1, <1>2, <1>8, <2>3, <2>4, CheckpointKeeps
<1> QED BY <1>4, <1>7, <1>8 DEF AckObservation

\* A part of an acknowledgement is in the file.
LEMMA AckFailsKeeps ==
    ASSUME CloudInv, PageInv, AckFails
    PROVE  CloudInv' /\ PageInv'
<1>1. /\ UNCHANGED <<cloudVars, uiPc, pageVars, write, started, opened, boots, opens, astray>>
      /\ outbox' = outbox /\ UNCHANGED files /\ Journal' = Journal
  BY DEF AckFails, Journal
<1>2. CloudInv'
  BY <1>1, CloudStays
<1>3. /\ Journal \in Seq(Opens) /\ outbox \in [pending : Seq(Opens), acknowledged : Seq(Opens)]
      /\ Len(outbox.pending) <= OutboxCapacity
  BY JournalOfOpens DEF PageInv, NoteTypes
<1> QED BY <1>1, <1>2, <1>3, CheckpointKeeps

\* Acknowledged records go before sleep.
LEMMA PrepareKeeps ==
    ASSUME CloudInv, PageInv, PrepareOutboxForSleep
    PROVE  CloudInv' /\ PageInv'
<1>1. /\ UNCHANGED <<cloudVars, uiPc, pageVars, write, started, opened, boots, opens,
                     astray>>
      /\ CheckpointSessionFromOutbox
      /\ outbox' = [outbox EXCEPT !.acknowledged = <<>>] \/ outbox' = outbox
  BY DEF PrepareOutboxForSleep, journalVars
<1>2. CloudInv'
  BY <1>1, CloudStays
<1>3. /\ outbox.pending \in Seq(Opens) /\ outbox.acknowledged \in Seq(Opens)
      /\ Journal \in Seq(Opens)
      /\ outbox \in [pending : Seq(Opens), acknowledged : Seq(Opens)]
      /\ Len(outbox.pending) <= OutboxCapacity
  BY JournalOfOpens DEF PageInv, NoteTypes
<1>4. CASE outbox' = outbox
  <2>1. Journal' = Journal
    BY <1>4 DEF Journal
  <2> QED BY <1>1, <1>2, <1>3, <1>4, <2>1, CheckpointKeeps
<1>5. CASE outbox' = [outbox EXCEPT !.acknowledged = <<>>]
  <2>1. outbox'.pending = outbox.pending /\ outbox'.acknowledged = <<>>
        /\ outbox' \in [pending : Seq(Opens), acknowledged : Seq(Opens)]
    <3>1. <<>> \in Seq(Opens)
      OBVIOUS
    <3> QED BY <1>3, <1>5, <3>1
  <2>2. PICK a, p : a = outbox.acknowledged /\ p = outbox.pending
    OBVIOUS
  <2>3. /\ <<>> \o p \in Seq(Opens)
        /\ \A i \in DOMAIN (<<>> \o p) : \E j \in DOMAIN (a \o p) : (<<>> \o p)[i] = (a \o p)[j]
    <3>1. /\ a \in Seq(Opens) /\ p \in Seq(Opens) /\ p \in {p, Tail(p)}
          /\ p # <<>> \/ p = p
      BY <1>3, <2>2
    <3> QED BY <3>1, JournalShrinks
  <2>4. Journal' = <<>> \o p /\ Journal = a \o p
    BY <2>1, <2>2 DEF Journal
  <2>5. /\ Journal' \in Seq(Opens)
        /\ \A i \in DOMAIN Journal' : \E j \in DOMAIN Journal : Journal'[i] = Journal[j]
    BY <2>3, <2>4
  <2> QED BY <1>1, <1>2, <1>3, <2>1, <2>5, CheckpointKeeps
<1> QED BY <1>1, <1>4, <1>5

\* What a start finds of the journal: what the program believed, or what failed appends
\* have left.
LEMMA JournalRead ==
    ASSUME PageInv, FiledKnown, JournalFound # Nil, ReadJournal,
           NEW J, J = JournalFound.acknowledged \o JournalFound.pending
    PROVE  /\ J \in Seq(Numbered) /\ J \in Seq(Opens)
           /\ outbox' \in [pending : Seq(Opens), acknowledged : Seq(Opens)]
           /\ Len(outbox'.pending) <= OutboxCapacity
           /\ Journal' \in Seq(Opens)
           /\ \A i \in DOMAIN Journal' : \E j \in DOMAIN J : Journal'[i] = J[j]
           /\ ~Marred => J = Journal /\ opens' = opens
           /\ Marred => opens' = opens \o [i \in DOMAIN J |-> <<J[i].session, J[i].sequence>>]
           /\ filed' \in Seq(Numbered)
           /\ aside' \in {aside, JournalFound} /\ Len(JournalFound.pending) <= OutboxCapacity
           /\ JournalFound \in [pending : Seq(Numbered), acknowledged : Seq(Numbered)]
<1>1. /\ NoteTypes /\ OpenWritten /\ StartIsNew /\ CursorsCount
      /\ outbox \in [pending : Seq(Opens), acknowledged : Seq(Opens)]
      /\ Len(outbox.pending) <= OutboxCapacity
  BY DEF PageInv, NoteTypes
<1>2. PICK R : R = JournalFound
  OBVIOUS
<1>3. /\ R \in [pending : Seq(Numbered), acknowledged : Seq(Numbered)]
      /\ Len(R.pending) <= OutboxCapacity
  <2>1. CASE Legible(filed, tail)
    <3>1. R = [pending |-> filed, acknowledged |-> outbox.acknowledged]
      BY <1>2, <2>1 DEF JournalFound
    <3>2. outbox.acknowledged \in Seq(Numbered)
      BY <1>1, JournalNumbered
    <3> QED BY <2>1, <3>1, <3>2 DEF FiledKnown, Legible
  <2>2. CASE ~Legible(filed, tail)
    <3>1. R = aside /\ R # Nil
      BY <1>2, <2>2 DEF JournalFound
    <3> QED BY <3>1 DEF FiledKnown
  <2> QED BY <2>1, <2>2
<1>4. PICK a, p : a = R.acknowledged /\ p = R.pending
  OBVIOUS
<1>5. a \in Seq(Numbered) /\ p \in Seq(Numbered) /\ a \in Seq(Opens) /\ p \in Seq(Opens)
  BY <1>1, <1>3, <1>4, NumberedOpens
<1>6. J = a \o p /\ J \in Seq(Numbered) /\ J \in Seq(Opens)
  BY <1>2, <1>4, <1>5
<1>7. /\ outbox' = [R EXCEPT !.acknowledged = <<>>] \/ outbox' = R
      /\ filed' = R.pending /\ aside' \in {aside, R}
      /\ opens' = IF ~Marred THEN opens
                  ELSE opens \o [i \in DOMAIN J |-> <<J[i].session, J[i].sequence>>]
  BY <1>2 DEF ReadJournal
<1>8. /\ outbox' \in [pending : Seq(Opens), acknowledged : Seq(Opens)]
      /\ outbox'.pending = p /\ outbox'.acknowledged \in {a, <<>>}
  <2>1. R = [pending |-> p, acknowledged |-> a]
    BY <1>3, <1>4
  <2>2. <<>> \in Seq(Opens)
    OBVIOUS
  <2>3. outbox' \in {[pending |-> p, acknowledged |-> <<>>], [pending |-> p, acknowledged |-> a]}
    BY <1>7, <2>1
  <2>4. outbox'.pending = p /\ outbox'.acknowledged \in {a, <<>>}
    BY <2>3
  <2>5. outbox' \in [pending : Seq(Opens), acknowledged : Seq(Opens)]
    <3>1. PICK S : S = Seq(Opens)
      OBVIOUS
    <3>2. p \in S /\ a \in S /\ <<>> \in S
      BY <1>5, <2>2, <3>1
    <3>3. outbox' \in [pending : S, acknowledged : S]
      BY <2>3, <3>2
    <3> QED BY <3>1, <3>3
  <2> QED BY <2>4, <2>5
<1>9. /\ Journal' \in Seq(Opens)
      /\ \A i \in DOMAIN Journal' : \E j \in DOMAIN J : Journal'[i] = J[j]
  <2>1. CASE outbox'.acknowledged = a
    <3>1. Journal' = J
      BY <1>6, <1>8, <2>1 DEF Journal
    <3> QED BY <1>6, <3>1
  <2>2. CASE outbox'.acknowledged = <<>>
    <3>1. Journal' = <<>> \o p
      BY <1>8, <2>2 DEF Journal
    <3>2. p \in {p, Tail(p)} /\ (p # <<>> \/ p = p)
      OBVIOUS
    <3>3. /\ <<>> \o p \in Seq(Opens)
          /\ \A i \in DOMAIN (<<>> \o p) : \E j \in DOMAIN (a \o p) : (<<>> \o p)[i] = (a \o p)[j]
      BY <1>5, <3>2, JournalShrinks
    <3> QED BY <1>6, <3>1, <3>3
  <2> QED BY <1>8, <2>1, <2>2
<1>10. ~Marred => J = Journal
  <2> SUFFICES ASSUME ~Marred PROVE J = Journal
    OBVIOUS
  <2>1. filed = outbox.pending /\ tail \in {"whole", "torn"}
    BY DEF Marred
  <2>2. Legible(filed, tail)
    BY <1>1, <2>1 DEF Legible
  <2>3. R = [pending |-> filed, acknowledged |-> outbox.acknowledged]
    BY <1>2, <2>2 DEF JournalFound
  <2> QED BY <1>4, <1>6, <2>1, <2>3 DEF Journal
<1> QED BY <1>2, <1>3, <1>4, <1>5, <1>6, <1>7, <1>8, <1>9, <1>10

\* A start of the program shows what the file and the journal hold.
LEMMA BootKeeps ==
    ASSUME CloudInv, PageInv, FiledKnown, NEW file, NEW old, Boot(file, old),
           file \in {primary, backup, Nil}, old \in {primary, backup},
           astray' \in {astray, TRUE},
           ~astray' => /\ ~Marred
                       /\ primary # Nil => file = primary \/ (file = Nil /\ old = primary)
                       /\ primary = Nil => file = Nil /\ old = Nil
    PROVE  CloudInv' /\ PageInv'
<1>1. /\ NoteTypes /\ NoteRequests /\ PageWaits /\ OpenWritten
      /\ StartIsNew /\ PageStored /\ CursorsCount
  BY DEF PageInv
<1>2. PICK found : found = IF file # Nil THEN file ELSE old
  OBVIOUS
<1>3. PICK resumed : resumed = Restored(found)
  OBVIOUS
<1>4. PICK repaired : repaired = IF JournalFound = Nil THEN found ELSE resumed
  OBVIOUS
<1>5. /\ primary' = repaired
      /\ backup' = IF repaired # found THEN found ELSE old
      /\ session' = resumed
      /\ mode' = IF resumed = Nil THEN "notebooks" ELSE "list"
      /\ pageRequested' = NeedsPage(resumed, "idle")
      /\ onNote' = TRUE
      /\ createId' = 0 /\ startExpected' = FALSE /\ pageInFlight' = FALSE /\ commit' = "idle"
      /\ effect' = Nil /\ advanced' = Nil /\ boundOp' = 0
      /\ uiPc' = "input" /\ write' = Nil
      /\ boots' = boots + 1
      /\ CloudReset /\ ReadJournal
      /\ UNCHANGED <<started, opened>>
  BY <1>2, <1>3, <1>4 DEF Boot, FreshPage
<1>6. CloudInv' /\ JobPlaces' = {}
  BY <1>5, ResetKeeps DEF CloudInv
<1>7. ~HasResult("note")' /\ slot'["note"].result = Nil
  BY <1>5, NoteAssumption DEF CloudReset, CloudIdle, HasResult, EmptySlot
<1>8. \A kind : ~Underway(kind)'
  BY <1>6, <1>7 DEF Underway
<1>9. /\ found \in Sessions \cup {Nil} /\ old \in Sessions \cup {Nil}
      /\ found # Nil => found.session \in 1..started
      /\ old # Nil => old.session \in 1..started
  BY <1>1, <1>2 DEF NoteTypes, StartIsNew
<1>10. PICK J : J = JournalFound.acknowledged \o JournalFound.pending
  OBVIOUS
\* What the journal is now.
<1>11. /\ outbox' \in [pending : Seq(Opens), acknowledged : Seq(Opens)]
       /\ Len(outbox'.pending) <= OutboxCapacity
       /\ Journal' \in Seq(Opens)
       /\ \A i \in DOMAIN Journal' : Journal'[i] \in Numbered
  <2>1. CASE JournalFound = Nil
    <3>1. outbox' = outbox
      BY <1>5, <2>1 DEF ReadJournal
    <3>2. Journal' = Journal /\ Journal \in Seq(Numbered) /\ Journal \in Seq(Opens)
      BY <1>1, <3>1, JournalNumbered, JournalOfOpens DEF Journal
    <3>3. \A i \in DOMAIN Journal : Journal[i] \in Numbered
      BY <3>2
    <3> QED BY <1>1, <3>1, <3>2, <3>3 DEF NoteTypes
  <2>2. CASE JournalFound # Nil
    <3>1. /\ J \in Seq(Numbered)
          /\ outbox' \in [pending : Seq(Opens), acknowledged : Seq(Opens)]
          /\ Len(outbox'.pending) <= OutboxCapacity /\ Journal' \in Seq(Opens)
          /\ \A i \in DOMAIN Journal' : \E j \in DOMAIN J : Journal'[i] = J[j]
      BY <1>5, <1>10, <2>2, JournalRead
    <3>2. \A j \in DOMAIN J : J[j] \in Numbered
      BY <3>1
    <3> QED BY <3>1, <3>2
  <2> QED BY <2>1, <2>2
\* What the opens are now: those there were, and behind them some of the sessions there are.
<1>12. /\ opens' \in Seq(Nat \X Nat)
       /\ \A i \in DOMAIN opens' : opens'[i][1] \in 1..started
       /\ \A i \in DOMAIN Journal' :
            \E k \in DOMAIN opens' : opens'[k] = <<Journal'[i].session, Journal'[i].sequence>>
       /\ ~astray' => opens' = opens
  <2>1. /\ opens \in Seq(Nat \X Nat) /\ \A i \in DOMAIN opens : opens[i][1] \in 1..started
        /\ \A i \in DOMAIN Journal :
            \E k \in DOMAIN opens : opens[k] = <<Journal[i].session, Journal[i].sequence>>
    BY <1>1 DEF NoteTypes, StartIsNew, CursorsCount
  <2>2. CASE JournalFound = Nil
    <3>1. opens' = opens /\ outbox' = outbox
      BY <1>5, <2>2 DEF ReadJournal
    <3>2. Journal' = Journal
      BY <3>1 DEF Journal
    <3> QED BY <2>1, <3>1, <3>2
  <2>3. CASE JournalFound # Nil
    <3>1. /\ J \in Seq(Numbered)
          /\ \A i \in DOMAIN Journal' : \E j \in DOMAIN J : Journal'[i] = J[j]
          /\ ~Marred => J = Journal /\ opens' = opens
          /\ Marred => opens' = opens \o [i \in DOMAIN J |-> <<J[i].session, J[i].sequence>>]
      BY <1>5, <1>10, <2>3, JournalRead
    <3>2. CASE ~Marred
      <4> SUFFICES ASSUME NEW i \in DOMAIN Journal'
                   PROVE  \E k \in DOMAIN opens :
                            opens[k] = <<Journal'[i].session, Journal'[i].sequence>>
        BY <2>1, <3>1, <3>2
      <4>1. PICK j \in DOMAIN J : Journal'[i] = J[j]
        BY <3>1
      <4>2. j \in DOMAIN Journal /\ Journal'[i] = Journal[j]
        BY <3>1, <3>2, <4>1
      <4> QED BY <2>1, <4>2
    <3>3. CASE Marred
      <4>1. PICK more : more = [i \in DOMAIN J |-> <<J[i].session, J[i].sequence>>]
        OBVIOUS
      <4>2. Len(J) \in Nat /\ DOMAIN J = 1..Len(J) /\ \A i \in 1..Len(J) : J[i] \in Numbered
        BY <3>1
      <4>3. \A i \in 1..Len(J) : J[i].session \in 1..started /\ J[i].session \in Nat
                                 /\ J[i].sequence \in Nat
        <5>1. started \in Nat
          BY <1>1 DEF NoteTypes
        <5> QED BY <4>2, <5>1 DEF Numbered
      <4>4. more \in [1..Len(J) -> Nat \X Nat]
        BY <4>1, <4>2, <4>3
      <4>5. more \in Seq(Nat \X Nat) /\ Len(more) = Len(J)
        BY <4>2, <4>4, SeqDef
      <4>6. \A i \in 1..Len(J) : more[i] = <<J[i].session, J[i].sequence>>
        BY <4>1, <4>2
      <4>7. PICK m, n : m = Len(opens) /\ n = Len(J)
        OBVIOUS
      <4>8. /\ opens' = opens \o more /\ opens' \in Seq(Nat \X Nat)
            /\ m \in Nat /\ n \in Nat /\ Len(opens') = m + n /\ DOMAIN opens' = 1..(m + n)
            /\ \A i \in 1..m : opens'[i] = opens[i]
            /\ \A i \in 1..n : opens'[m + i] = more[i]
        <5>1. opens' = opens \o more
          BY <3>1, <3>3, <4>1
        <5>2. opens \in Seq(Nat \X Nat) /\ more \in Seq(Nat \X Nat) /\ Len(more) = n
          BY <2>1, <4>5, <4>7
        <5>3. PICK T : T = Nat \X Nat
          OBVIOUS
        <5>4. opens \in Seq(T) /\ more \in Seq(T) /\ m = Len(opens) /\ n = Len(more)
          BY <4>7, <5>2, <5>3
        <5>5. /\ opens \o more \in Seq(T) /\ Len(opens \o more) = m + n
              /\ DOMAIN (opens \o more) = 1..(m + n) /\ m \in Nat /\ n \in Nat
              /\ \A i \in 1..m : (opens \o more)[i] = opens[i]
              /\ \A i \in 1..n : (opens \o more)[m + i] = more[i]
          BY <5>4, Joined
        <5> QED BY <5>1, <5>3, <5>5
      <4>9. \A i \in DOMAIN opens' : opens'[i][1] \in 1..started
        <5> SUFFICES ASSUME NEW i \in 1..(m + n) PROVE opens'[i][1] \in 1..started
          BY <4>8
        <5>1. CASE i <= m
          <6>1. i \in DOMAIN opens /\ opens'[i] = opens[i]
            BY <2>1, <4>7, <4>8, <5>1
          <6> QED BY <2>1, <6>1
        <5>2. CASE ~(i <= m)
          <6>1. i - m \in 1..n /\ m + (i - m) = i
            BY <4>8, <5>2
          <6>2. opens'[i] = <<J[i - m].session, J[i - m].sequence>>
            BY <4>6, <4>7, <4>8, <6>1
          <6> QED BY <4>3, <4>7, <6>1, <6>2
        <5> QED BY <5>1, <5>2
      <4>10. \A j \in DOMAIN J : /\ m + j \in DOMAIN opens'
                                 /\ opens'[m + j] = <<J[j].session, J[j].sequence>>
        <5> SUFFICES ASSUME NEW j \in 1..n
                     PROVE  m + j \in 1..(m + n) /\ opens'[m + j] = <<J[j].session, J[j].sequence>>
          BY <4>2, <4>7, <4>8
        <5>1. m + j \in 1..(m + n)
          BY <4>8
        <5> QED BY <4>6, <4>7, <4>8, <5>1
      <4>11. astray'
        BY <3>3
      <4>12. \A i \in DOMAIN Journal' : \E k \in DOMAIN opens' :
                opens'[k] = <<Journal'[i].session, Journal'[i].sequence>>
        <5> SUFFICES ASSUME NEW i \in DOMAIN Journal'
                     PROVE  \E k \in DOMAIN opens' :
                                opens'[k] = <<Journal'[i].session, Journal'[i].sequence>>
          OBVIOUS
        <5>1. PICK j \in DOMAIN J : Journal'[i] = J[j]
          BY <3>1
        <5>2. m + j \in DOMAIN opens' /\ opens'[m + j] = <<J[j].session, J[j].sequence>>
          BY <4>10
        <5> QED BY <5>1, <5>2
      <4> QED BY <4>8, <4>9, <4>11, <4>12
    <3> QED BY <3>2, <3>3
  <2> QED BY <2>2, <2>3
\* The session that is resumed is behind its records.
<1>13. /\ repaired \in Sessions \cup {Nil} /\ resumed \in Sessions \cup {Nil}
       /\ repaired # Nil => repaired.session \in 1..started
       /\ repaired = Nil <=> found = Nil
       /\ resumed # Nil => /\ resumed = repaired /\ repaired.session = found.session
                           /\ Moved(Journal', repaired) = repaired
       /\ ~Marred => resumed = Reconcile(found) /\ resumed = repaired
  <2>1. CASE JournalFound = Nil
    <3>1. resumed = Nil /\ repaired = found
      BY <1>3, <1>4, <2>1 DEF Restored
    <3>2. Marred
      <4> SUFFICES ASSUME ~Marred PROVE FALSE
        OBVIOUS
      <4>1. Legible(filed, tail)
        BY <1>1 DEF Marred, Legible, NoteTypes
      <4>2. JournalFound = [pending |-> filed, acknowledged |-> outbox.acknowledged]
        BY <4>1 DEF JournalFound
      <4>3. filed \in Seq(Opens) /\ outbox.acknowledged \in Seq(Opens)
        BY <1>1, NumberedOpens, JournalOfOpens DEF FiledKnown
      <4> QED BY <2>1, <4>2, <4>3, NoteAssumption DEF Journals
    <3> QED BY <1>9, <3>1, <3>2
  <2>2. CASE JournalFound # Nil
    <3>1. /\ J \in Seq(Opens)
          /\ ~Marred => J = Journal
          /\ \A i \in DOMAIN Journal' : \E j \in DOMAIN J : Journal'[i] = J[j]
      BY <1>5, <1>10, <2>2, JournalRead
    <3>2. resumed = RepairedBy(J, found) /\ repaired = resumed
      BY <1>3, <1>4, <1>10, <2>2 DEF Restored
    <3>3. CASE found = Nil
      BY <3>1, <3>2, <3>3 DEF RepairedBy, Reconcile
    <3>4. CASE found # Nil
      <4>1. resumed = Moved(J, found) /\ found \in Sessions
        BY <1>9, <3>2, <3>4 DEF RepairedBy
      <4>2. /\ resumed \in Sessions /\ resumed.session = found.session
            /\ \A i \in DOMAIN J : J[i].session = resumed.session => J[i].sequence < resumed.next
        BY <3>1, <4>1, CursorBehind
      <4>3. \A i \in DOMAIN Journal' :
                Journal'[i].session = resumed.session => Journal'[i].sequence < resumed.next
        BY <3>1, <4>2
      <4>4. Moved(Journal', resumed) = resumed
        BY <1>11, <4>2, <4>3, CursorStays
      <4> QED BY <1>9, <3>1, <3>2, <3>4, <4>2, <4>4, NilIsNone DEF Reconcile, RepairedBy
    <3> QED BY <3>3, <3>4
  <2> QED BY <2>1, <2>2
<1>14. NoteTypes'
  <2>1. /\ startExpected' \in BOOLEAN /\ mode' \in {"notebooks", "list"}
        /\ pageRequested' \in BOOLEAN /\ onNote' \in BOOLEAN /\ uiPc' \in {"input"}
        /\ pageInFlight' \in BOOLEAN /\ createId' \in Nat /\ commit' \in {"idle"}
        /\ boundOp' \in Nat /\ effect' \in {Nil} /\ advanced' \in {Nil} /\ write' \in {Nil}
    BY <1>5 DEF NeedsPage, WantsMore
  <2>2. /\ primary' \in Sessions \cup {Nil} /\ backup' \in Sessions \cup {Nil}
        /\ session' \in Sessions \cup {Nil}
    BY <1>5, <1>9, <1>13
  <2>3. astray' \in BOOLEAN /\ boots' \in Nat
    <3>1. astray \in BOOLEAN /\ boots \in Nat
      BY <1>1 DEF NoteTypes
    <3>2. astray' = astray \/ astray' = TRUE
      OBVIOUS
    <3>3. astray' \in BOOLEAN
      BY <3>1, <3>2
    <3> QED BY <1>5, <3>1, <3>3
  <2> QED BY <1>1, <1>5, <1>11, <1>12, <2>1, <2>2, <2>3 DEF NoteTypes
<1>15. NoteRequests'
  BY <1>6, <1>7 DEF NoteRequests
<1>16. PageWaits'
  BY <1>5, <1>8 DEF PageWaits
<1>17. OpenWritten'
  <2>1. \A i \in DOMAIN Journal' : Journal'[i].id \in 1..opened
    BY <1>11 DEF Numbered
  <2> QED BY <1>5, <2>1 DEF OpenWritten
<1>18. StartIsNew'
  BY <1>5, <1>7, <1>8, <1>9, <1>12, <1>13 DEF StartIsNew
<1>19. Page' = session'
  BY <1>5 DEF Page
<1>20. PageStored'
  <2> SUFFICES ASSUME resumed # Nil PROVE Reconcile(Stored)' = Page'
    BY <1>5 DEF PageStored
  <2>1. Stored' = repaired /\ repaired # Nil
    BY <1>5, <1>13 DEF Stored
  <2> QED BY <1>5, <1>13, <1>19, <2>1 DEF Reconcile, RepairedBy
<1>21. CursorsCount'
  <2>1. ~astray' => ~astray /\ ~Marred
    BY <1>1 DEF NoteTypes
  <2>2. SequencesUnique'
    BY <1>1, <1>12, <2>1 DEF CursorsCount, SequencesUnique
  <2>3. CASE astray'
    BY <1>12, <2>2, <2>3 DEF CursorsCount
  <2>4. CASE ~astray' /\ primary = Nil
    <3>1. found = Nil /\ old = Nil /\ repaired = Nil /\ resumed = Nil
      BY <1>2, <1>13, <2>1, <2>4
    <3> QED BY <1>5, <1>12, <2>2, <3>1 DEF CursorsCount
  <2>5. CASE ~astray' /\ primary # Nil
    <3>1. found = primary /\ repaired # Nil /\ resumed = repaired
      BY <1>2, <1>13, <2>1, <2>5
    <3>2. Reconcile(primary).next = Count(primary.session) + 1
      BY <1>1, <2>1, <2>5 DEF CursorsCount
    <3>3. repaired.next = Count(repaired.session) + 1
      BY <1>13, <2>1, <2>5, <3>1, <3>2
    <3>4. (Reconcile(primary))' = repaired
      BY <1>5, <1>13, <3>1 DEF Reconcile, RepairedBy
    <3>5. opens' = opens
      BY <1>12, <2>5
    <3> QED BY <1>5, <1>12, <1>19, <2>2, <3>1, <3>3, <3>4, <3>5 DEF CursorsCount, Count
  <2> QED BY <2>3, <2>4, <2>5
<1> QED BY <1>6, <1>14, <1>15, <1>16, <1>17, <1>18, <1>20, <1>21 DEF PageInv

\* The power is lost, at any time or within a save or a clear.
LEMMA PowerLossKeeps ==
    ASSUME CloudInv, PageInv, FiledKnown, PowerLoss \/ PowerLossInSave \/ PowerLossInClear
    PROVE  CloudInv' /\ PageInv'
<1>1. ~astray /\ primary = Nil => backup = Nil
  BY DEF PageInv, CursorsCount
<1>5. astray \in BOOLEAN
  BY DEF PageInv, NoteTypes
<1>2. CASE PowerLoss
  <2>1. Boot(primary, backup) /\ astray' = (astray \/ Marred)
    BY <1>2 DEF PowerLoss
  <2>2. astray' \in {astray, TRUE} /\ (~astray' => ~astray /\ ~Marred)
    BY <2>1, <1>5
  <2> QED BY <1>1, <2>1, <2>2, BootKeeps
<1>3. CASE PowerLossInSave
  <2>1. Boot(Nil, primary) /\ astray' = (astray \/ Marred) /\ primary # Nil
    BY <1>3 DEF PowerLossInSave
  <2>2. astray' \in {astray, TRUE} /\ (~astray' => ~astray /\ ~Marred)
    BY <2>1, <1>5
  <2> QED BY <2>1, <2>2, BootKeeps
<1>4. CASE PowerLossInClear
  <2>1. Boot(Nil, backup) /\ astray' = TRUE
    BY <1>4 DEF PowerLossInClear
  <2> QED BY <2>1, BootKeeps
<1> QED BY <1>2, <1>3, <1>4

--------------------------------------------------------------------------------
(* The files of the journal. *)

\* Files that stay know the opens when these become more.
LEMMA FiledGrows ==
    ASSUME FiledKnown, NoteTypes, UNCHANGED <<filed, aside>>,
           started' \in {started, started + 1}, opened' \in {opened, opened + 1}
    PROVE  FiledKnown'
<1>1. Numbered \in SUBSET Numbered'
  <2>1. started \in Nat /\ opened \in Nat
    BY DEF NoteTypes
  <2>2. 1..started \in SUBSET (1..started') /\ 1..opened \in SUBSET (1..opened')
    BY <2>1
  <2> QED BY <2>2 DEF Numbered
<1>2. PICK T, U : T = Numbered /\ U = Numbered'
  OBVIOUS
<1>3. \A r \in Seq(T) : r \in Seq(U)
  BY <1>1, <1>2
<1>4. /\ filed \in Seq(T) /\ aside \in [pending : Seq(T), acknowledged : Seq(T)] \cup {Nil}
      /\ aside # Nil => Len(aside.pending) <= OutboxCapacity
  BY <1>2 DEF FiledKnown
<1>5. filed \in Seq(U) /\ aside \in [pending : Seq(U), acknowledged : Seq(U)] \cup {Nil}
  BY <1>3, <1>4
<1> QED BY <1>2, <1>4, <1>5 DEF FiledKnown

\* What goes into the files are the open that is being written and what the program has in
\* memory.
LEMMA FiledSteps == PageInv /\ FiledKnown /\ [NoteNext]_noteVars => FiledKnown'
<1> SUFFICES ASSUME PageInv, FiledKnown, [NoteNext]_noteVars PROVE FiledKnown'
  OBVIOUS
<1>1. NoteTypes /\ OpenWritten /\ StartIsNew /\ CursorsCount
  BY DEF PageInv
<1>2. CASE ConfirmNotebook \/ CancelStart \/ (\E i \in 1..ListLength : OpenNote(i)) \/ ScrollDown
           \/ GoBack \/ SwitchScreen
  <2>1. UNCHANGED journalVars
    BY <1>2 DEF ConfirmNotebook, CancelStart, OpenNote, ScrollDown, GoBack, SwitchScreen, Unmoved
  <2>2. started' \in {started, started + 1} /\ opened' \in {opened, opened + 1}
    BY <1>2 DEF ConfirmNotebook, CancelStart, OpenNote, ScrollDown, GoBack, SwitchScreen
  <2> QED BY <1>1, <2>1, <2>2, FiledGrows DEF journalVars
<1>3. CASE Poll \/ TakeNoteResult \/ EndScan \/ TakePersistResult \/ EndRound \/ PumpCandidatePage
           \/ PumpObservationCommit \/ UNCHANGED noteVars
           \/ \E l \in Lanes : RunJob(l) \/ ExecuteStart(l) \/ ExecuteOther(l) \/ PublishAnswer(l)
  <2>1. UNCHANGED journalVars /\ UNCHANGED <<started, opened>>
    BY <1>3 DEF Poll, TakeNoteResult, EndScan, TakePersistResult, EndRound, PumpCandidatePage,
       PumpObservationCommit, RunJob, ExecuteStart, ExecuteOther, PublishAnswer, noteVars
  <2> QED BY <1>1, <2>1, FiledGrows DEF journalVars
<1>4. CASE PersistWrite
  <2>1. UNCHANGED <<aside, started, opened>>
        /\ filed' \in {filed, Append(filed, write.observation)}
    BY <1>4 DEF PersistWrite, CommitOpen, AppendFails, LeavesPart, journalVars
  <2>2. write.observation \in Numbered
    <3>1. /\ write.observation = effect /\ effect \in Opens /\ effect.id = opened /\ opened > 0
          /\ effect.session = session.session /\ session.session \in 1..started
          /\ opened \in Nat
      BY <1>1, <1>4 DEF PersistWrite, OpenWritten, NoteTypes, StartIsNew
    <3> QED BY <3>1 DEF Opens, Numbered
  <2>3. Numbered' = Numbered
    BY <2>1 DEF Numbered
  <2>4. filed' \in Seq(Numbered)
    BY <2>1, <2>2 DEF FiledKnown
  <2> QED BY <2>1, <2>3, <2>4 DEF FiledKnown
<1>5. CASE AckObservation \/ AckFails \/ PrepareOutboxForSleep
  <2>1. /\ outbox.pending \in Seq(Numbered) /\ outbox.acknowledged \in Seq(Numbered)
        /\ Len(outbox.pending) <= OutboxCapacity
    BY <1>1, JournalNumbered DEF NoteTypes
  <2>2. Numbered' = Numbered
    BY <1>5 DEF AckObservation, AckFails, PrepareOutboxForSleep, Numbered
  <2>3. CASE AckObservation
    <3>1. PICK a, p : a = outbox.acknowledged /\ p = outbox.pending
      OBVIOUS
    <3>2. PICK rest, more : rest = Unfiled(filed, Head(p)) /\ more = Append(a, Head(p))
      OBVIOUS
    <3>3. rest \in Seq(Numbered) /\ more \in Seq(Numbered) /\ Tail(p) \in Seq(Numbered)
      <4>1. p # <<>> /\ p \in Seq(Numbered) /\ a \in Seq(Numbered) /\ filed \in Seq(Numbered)
        BY <2>1, <2>3, <3>1 DEF AckObservation, FiledKnown
      <4>2. Head(p) \in Numbered /\ Tail(p) \in Seq(Numbered)
        BY <4>1
      <4> QED BY <3>2, <4>1, <4>2, UnfiledRecords
    <3>4. \/ filed' = rest /\ aside' = aside
          \/ /\ outbox' = [pending |-> Tail(p), acknowledged |-> <<>>]
             /\ CompactOutbox(rest, more, TailAfter)
      BY <2>3, <3>1, <3>2 DEF AckObservation
    <3>5. CASE filed' = rest /\ aside' = aside
      BY <2>2, <3>3, <3>5 DEF FiledKnown
    <3>6. CASE /\ outbox' = [pending |-> Tail(p), acknowledged |-> <<>>]
               /\ CompactOutbox(rest, more, TailAfter)
      <4>1. filed' = Tail(p)
            /\ aside' = IF Legible(rest, TailAfter) THEN [pending |-> rest, acknowledged |-> more]
                        ELSE Nil
        BY <3>6 DEF CompactOutbox
      <4>2. Legible(rest, TailAfter) => Len(rest) <= OutboxCapacity
        BY DEF Legible
      <4> QED BY <2>2, <3>3, <4>1, <4>2 DEF FiledKnown
    <3> QED BY <3>4, <3>5, <3>6
  <2>4. CASE AckFails
    BY <2>2, <2>4 DEF AckFails, FiledKnown
  <2>5. CASE PrepareOutboxForSleep
    <3>1. CASE UNCHANGED journalVars
      BY <2>2, <3>1 DEF journalVars, FiledKnown
    <3>2. CASE /\ outbox' = [outbox EXCEPT !.acknowledged = <<>>]
               /\ CompactOutbox(filed, outbox.acknowledged, tail)
      <4>1. outbox'.pending = outbox.pending
        BY <1>1, <3>2 DEF NoteTypes
      <4>2. /\ filed' = outbox.pending
            /\ aside' = IF Legible(filed, tail)
                        THEN [pending |-> filed, acknowledged |-> outbox.acknowledged] ELSE Nil
        BY <3>2, <4>1 DEF CompactOutbox
      <4>3. Legible(filed, tail) => Len(filed) <= OutboxCapacity
        BY DEF Legible
      <4> QED BY <2>1, <2>2, <4>2, <4>3 DEF FiledKnown
    <3> QED BY <2>5, <3>1, <3>2 DEF PrepareOutboxForSleep
  <2> QED BY <1>5, <2>3, <2>4, <2>5
<1>6. CASE PowerLoss \/ PowerLossInSave \/ PowerLossInClear
  <2>1. ReadJournal /\ UNCHANGED <<started, opened>>
    BY <1>6 DEF PowerLoss, PowerLossInSave, PowerLossInClear, Boot
  <2>2. Numbered' = Numbered
    BY <2>1 DEF Numbered
  <2>3. CASE JournalFound = Nil
    <3>1. UNCHANGED <<filed, aside>>
      BY <2>1, <2>3 DEF ReadJournal
    <3> QED BY <2>2, <3>1 DEF FiledKnown
  <2>4. CASE JournalFound # Nil
    <3>1. /\ filed' \in Seq(Numbered) /\ aside' \in {aside, JournalFound}
          /\ Len(JournalFound.pending) <= OutboxCapacity
          /\ JournalFound \in [pending : Seq(Numbered), acknowledged : Seq(Numbered)]
      BY <2>1, <2>4, JournalRead
    <3> QED BY <2>2, <3>1 DEF FiledKnown
  <2> QED BY <2>3, <2>4
<1> QED BY <1>2, <1>3, <1>4, <1>5, <1>6 DEF NoteNext

--------------------------------------------------------------------------------
(* The theorems of the note session. *)

\* An idle page of a fresh device waits for nothing.
LEMMA NoteStarts == NoteInit => CloudInv /\ PageInv
<1> SUFFICES ASSUME NoteInit PROVE CloudInv /\ PageInv
    OBVIOUS
<1>1. CloudInv /\ JobPlaces = {}
    BY CloudStarts DEF NoteInit
<1>2. slot = [d \in Domains |-> EmptySlot(0)] /\ "note" \in Domains
    BY NoteAssumption DEF NoteInit, CloudInit, CloudIdle
<1>3. slot["note"].op = Nil /\ slot["note"].result = Nil
    BY <1>2 DEF EmptySlot
<1>4. ~HasResult("note")
    BY <1>2 DEF NoteInit, CloudInit, CloudIdle, HasResult
<1>5. \A kind : ~Underway(kind)
    BY <1>1, <1>4 DEF Underway
<1>6. Journal = <<>> /\ opens = <<>> /\ DOMAIN Journal = {} /\ DOMAIN opens = {}
    BY DEF NoteInit, Journal
<1>7. NoteTypes
    <2>1. <<>> \in Seq(Opens) /\ Len(<<>>) = 0 /\ opens \in Seq(Nat \X Nat)
        BY DEF NoteInit
    <2>2. outbox \in [pending : Seq(Opens), acknowledged : Seq(Opens)]
          /\ Len(outbox.pending) <= OutboxCapacity
        BY <2>1, NoteAssumption DEF NoteInit
    <2> QED
        BY <2>1, <2>2 DEF NoteInit, NoteTypes
<1>8. NoteRequests
    BY <1>1, <1>3 DEF NoteRequests
<1>9. PageWaits
    BY <1>5 DEF PageWaits, NoteInit
<1>10. OpenWritten
    BY <1>6 DEF OpenWritten, NoteInit
<1>11. StartIsNew
    BY <1>3, <1>5, <1>6 DEF StartIsNew, NoteInit
<1>12. PageStored
    BY DEF PageStored, NoteInit
<1>13. CursorsCount
    BY <1>6 DEF CursorsCount, SequencesUnique, NoteInit
<1> QED
    BY <1>1, <1>7, <1>8, <1>9, <1>10, <1>11, <1>12, <1>13 DEF PageInv

\* Every step keeps the books of the runner and of the page.
LEMMA NoteSteps ==
    CloudInv /\ PageInv /\ FiledKnown /\ [NoteNext]_noteVars => CloudInv' /\ PageInv'
<1> SUFFICES ASSUME CloudInv, PageInv, FiledKnown, [NoteNext]_noteVars PROVE CloudInv' /\ PageInv'
    OBVIOUS
<1>1. CASE ConfirmNotebook \/ CancelStart \/ (\E i \in 1..ListLength : OpenNote(i)) \/ ScrollDown
           \/ GoBack \/ SwitchScreen \/ Poll
    BY <1>1, ConfirmKeeps, CancelKeeps, OpenKeeps, LookKeeps, SwitchKeeps
<1>2. CASE TakeNoteResult \/ EndScan \/ TakePersistResult \/ EndRound \/ PumpCandidatePage
           \/ PumpObservationCommit
    BY <1>2, TakeKeeps, LookKeeps, TakePersistKeeps, EndRoundKeeps, PumpPageKeeps, PumpCommitKeeps
<1>3. CASE PersistWrite
    BY <1>3, PersistKeeps
<1>4. CASE \E l \in Lanes : RunJob(l) \/ ExecuteStart(l) \/ ExecuteOther(l) \/ PublishAnswer(l)
    BY <1>4, RunKeeps, StartKeepsPage, OtherKeeps, PublishAnswerKeeps
<1>5. CASE AckObservation \/ AckFails \/ PrepareOutboxForSleep
    BY <1>5, AckObservationKeeps, AckFailsKeeps, PrepareKeeps
<1>6. CASE PowerLoss \/ PowerLossInSave \/ PowerLossInClear
    BY <1>6, PowerLossKeeps
<1>7. CASE UNCHANGED noteVars
    <2>1. UNCHANGED cloudVars /\ UNCHANGED <<uiPc, pageVars, write, files, journalVars, started,
                                            opened, boots, opens, astray>>
        BY <1>7 DEF noteVars
    <2>2. UNCHANGED <<lanes, running, slot, pending, acked>>
        BY <2>1 DEF cloudVars
    <2>3. CloudInv'
        BY <2>1, CloudStays
    <2>4. /\ UNCHANGED <<onNote, mode, session, createId, startExpected, pageRequested>>
          /\ UNCHANGED <<pageInFlight, commit, effect, advanced, boundOp, primary, backup>>
        BY <2>1 DEF pageVars, files, journalVars
    <2>5. JobPlaces' = JobPlaces /\ (\A p : (JobAt(p))' = JobAt(p))
          /\ \A kind : Underway(kind)' <=> Underway(kind)
        BY <2>2, RequestsStay
    <2>6. NoteTypes /\ NoteRequests /\ outbox' = outbox
        BY <2>1 DEF PageInv, journalVars
    <2>7. NoteRequests'
        BY <2>1, <2>2, <2>6, RequestsKept
    <2>8. PageInv'
        BY <2>1, <2>2, <2>4, <2>5, <2>6, <2>7, LaneKeeps
    <2> QED
        BY <2>3, <2>8
<1> QED
    BY <1>1, <1>2, <1>3, <1>4, <1>5, <1>6, <1>7 DEF NoteNext

\* The books of the runner and of the page hold always.
LEMMA NoteBooks == NoteSpec => [](CloudInv /\ PageInv /\ FiledKnown)
<1>1. NoteInit => FiledKnown
  <2>1. NoteInit => filed = <<>> /\ aside = Nil
    BY DEF NoteInit
  <2> QED BY <2>1 DEF FiledKnown
<1> QED BY <1>1, NoteStarts, NoteSteps, FiledSteps, PTL DEF NoteSpec

\* What the books say of the requests of the page.
LEMMA PageIsOwed ==
    ASSUME CloudInv, PageInv
    PROVE  RequestsAccounted
<1>1. NoteTypes /\ NoteRequests /\ PageWaits /\ OpenWritten
    BY DEF PageInv
<1>2. CloudTypeOK /\ OneRequestPerDomain
    BY BooksPromise
<1>3. NoteTypeOK
    BY <1>1, <1>2, NilIsNone DEF NoteTypeOK, NoteTypes, PageWaits, OpenWritten
<1>4. JobsUnderWay("note") = JobPlaces
    BY <1>1 DEF JobsUnderWay, NoteRequests
<1>5. /\ \A p, q \in JobPlaces : p = q
      /\ HasResult("note") => PeekedSlot("note") = slot["note"]
      /\ JobPlaces # {} => ~HasResult("note")
    BY <1>1, OneNoteJob
<1> DEFINE jobs == {JobAt(p) : p \in JobsUnderWay("note")}
           Owed(kind) == \/ \E job \in jobs : job.op = kind
                         \/ HasResult("note") /\ PeekedSlot("note").op = kind
<1>6. \A kind : Underway(kind) => Owed(kind)
    BY <1>4, <1>5 DEF Underway
<1>7. startExpected => Owed("start") /\ \A job \in jobs : job.arg = createId
    <2> SUFFICES ASSUME startExpected
                 PROVE  Owed("start") /\ \A p \in JobPlaces : JobAt(p).arg = createId
        BY <1>4
    <2>1. Underway("start") /\ createId = started
        BY <1>1 DEF PageWaits
    <2>2. ASSUME NEW p \in JobPlaces PROVE JobAt(p).arg = createId
        <3>1. \E q \in JobPlaces : JobAt(q).op = "start"
            BY <2>1, <1>5 DEF Underway
        <3>2. JobAt(p).op = "start"
            BY <3>1, <1>5
        <3> QED
            BY <3>2, <2>1, <1>1 DEF NoteRequests
    <2> QED
        BY <2>1, <2>2, <1>6
<1>8. pageInFlight =>
        /\ Owed("page")
        /\ \A job \in jobs : job.arg = [session |-> session.session, cursor |-> Len(session.items)]
    BY <1>1, <1>4, <1>6 DEF PageWaits
<1>9. WaitsForItsOwn
    BY <1>1, <1>7, <1>8 DEF WaitsForItsOwn, PageWaits
<1> QED
    BY <1>2, <1>3, <1>9 DEF RequestsAccounted

\* What they say of the session.
LEMMA PageIsSafe ==
    ASSUME CloudInv, PageInv
    PROVE  NoteSessionSound
<1>1. NoteTypes /\ OpenWritten /\ PageStored /\ CursorsCount
    BY DEF PageInv
<1>2. SequencesUnique
    BY <1>1 DEF CursorsCount
<1>3. PageSurvivesReboot
    <2> SUFFICES ASSUME mode \in {"list", "view"}, ~Marred
                 PROVE  \/ Restored(Stored) = session
                        \/ commit = "persisting" /\ boundOp # 0 /\ Restored(Stored) = advanced
        BY DEF PageSurvivesReboot
    <2>0. JournalFound = [pending |-> outbox.pending, acknowledged |-> outbox.acknowledged]
        BY <1>1 DEF JournalFound, Legible, Marred, NoteTypes
    <2>4. JournalFound # Nil
        BY <1>1, <2>0, JournalOfOpens, NoteAssumption DEF Journals
    <2>1. Restored(Stored) = Page
        BY <1>1, <2>0, <2>4 DEF PageStored, Restored, Reconcile, RepairedBy, Journal
    <2>2. CASE write # Nil /\ write.result = "ok"
        <3>1. Page = advanced /\ commit = "persisting" /\ boundOp = effect.id
            BY <2>2, <1>1 DEF OpenWritten, Page
        <3>2. effect.id = opened /\ opened > 0 /\ opened \in Nat
            BY <3>1, <1>1 DEF OpenWritten, NoteTypes
        <3> QED
            BY <2>1, <3>1, <3>2
    <2>3. CASE ~(write # Nil /\ write.result = "ok")
        BY <2>1, <2>3 DEF Page
    <2> QED
        BY <2>2, <2>3
<1> QED
    BY <1>2, <1>3 DEF NoteSessionSound

\* RequestsAccounted for every device, list and bound: the note page has one request under
\* way at a time, its lease covers it, and the page waits only for what it asked for last.
THEOREM RequestsAreAccounted == NoteSpec => []RequestsAccounted
BY NoteBooks, PageIsOwed, PTL

\* NoteSessionSound for every device, list and bound: while the file of the journal holds what
\* the program believes, a reboot brings back the cursor and the list of the page; and until a
\* start has read what failed appends left, or a Clear was cut, no session numbers two opens
\* alike or leaves a number out.
THEOREM SessionsAreSound == NoteSpec => []NoteSessionSound
BY NoteBooks, PageIsSafe, PTL

--------------------------------------------------------------------------------
(* The verdicts on problems *)

\* The verdict given last is not in the journal yet.
Unheard == effectReady \/ (verdictWrite.op # 0 /\ verdictWrite.result = "none")

\* The verdicts that the journal and the server may know.
Known == IF Unheard THEN given - 1 ELSE given

LinesUpTo(n) == [holds : 0..n, mentions : SUBSET (1..n), closed : BOOLEAN]
Uploads == [at : {"idle", "submit", "remove"}, id : Nat,
            answer : {"none", "applied", "refused", "lost", "unreadable"}]
VerdictWrites == [op : Nat, id : Nat, result : {"none", "ok", "failed"}]

\* The records of a journal are in the order their verdicts were given.
InOrder(lines) ==
    \A i, j \in DOMAIN lines :
        i < j /\ lines[i].holds # 0 /\ lines[j].holds # 0 => lines[i].holds < lines[j].holds

\* What the server has applied does not come after a record of the journal.
NoneBefore(done, lines) ==
    \A k \in DOMAIN done, i \in DOMAIN lines : lines[i].holds # 0 => done[k] <= lines[i].holds

\* The record of a verdict is the first of a journal.
IsFirst(lines, id) ==
    \E i \in DOMAIN lines :
        lines[i].holds = id /\ id # 0 /\ \A j \in 1..(i - 1) : lines[j].holds = 0

VerdictsSound ==
    /\ given \in Nat /\ Known \in Nat
    /\ verdicts \in Seq(LinesUpTo(Known)) /\ Len(verdicts) <= VerdictCapacity
    /\ applied \in Seq(1..Known)
    /\ InOrder(verdicts) /\ DeliveredInOrder /\ NoneBefore(applied, verdicts)

UploadSound ==
    /\ upload \in Uploads
    /\ upload.at # "idle" => IsFirst(verdicts, upload.id)
    /\ upload.at = "remove" => upload.id \in Range(applied) \cup refused \cup damaged

WriteSound ==
    /\ verdictWrite \in VerdictWrites
    /\ effectReady => verdictCommit = "persisting" /\ pendingVerdict.id = given /\ given # 0
    /\ verdictWrite # NoWrite =>
        /\ verdictCommit = "persisting" /\ ~effectReady
        /\ verdictWrite.op = given /\ verdictWrite.id = given /\ verdictOp = given
        /\ pendingVerdict.id = given /\ given # 0

PageSound ==
    /\ problemMode \in {"list", "view", "verdict"}
    /\ problemMode = "list" => current = NoProblem
    /\ ~active => problemMode = "list"
    /\ current # NoProblem => current = [set |-> set, index |-> selected]

OutboxInv ==
    /\ VerdictsSound /\ UploadSound /\ WriteSound /\ PageSound
    /\ LostOnlyByDamage /\ AcknowledgedMeansDelivered /\ WaitsOnItsProblem

--------------------------------------------------------------------------------
(* Sets of numbers, and what a rewrite keeps *)

\* The numbers of a finite set, counted from the least: Nth finds each of them, in order.
LEMMA NthNumber ==
    ASSUME NEW k \in Nat, NEW S \in SUBSET (1..k)
    PROVE  /\ IsFiniteSet(S) /\ Cardinality(S) \in Nat /\ Cardinality(S) <= k
           /\ \A n \in 1..Cardinality(S) : Nth(S, n) \in S
           /\ \A m, n \in 1..Cardinality(S) : m < n => Nth(S, m) < Nth(S, n)
           /\ \A i \in S : \E n \in 1..Cardinality(S) : Nth(S, n) = i
<1> DEFINE upTo(i) == {j \in S : j <= i}
           c == Cardinality(S)
           rank == [i \in S |-> Cardinality(upTo(i))]
<1>1. IsFiniteSet(S) /\ c \in Nat /\ c <= k
  <2>1. IsFiniteSet(1..k) /\ Cardinality(1..k) = k
    BY FS_Interval
  <2>2. IsFiniteSet(S) /\ c <= k
    BY <2>1, FS_Subset
  <2> QED BY <2>2, FS_CardinalityType
<1>2. \A i \in S : i \in Nat
  OBVIOUS
<1>3. \A i \in S : IsFiniteSet(upTo(i)) /\ rank[i] \in 1..c
  <2> SUFFICES ASSUME NEW i \in S
               PROVE  IsFiniteSet(upTo(i)) /\ rank[i] \in 1..c
    OBVIOUS
  <2>1. upTo(i) \in SUBSET S /\ i \in upTo(i)
    BY <1>2
  <2>2. IsFiniteSet(upTo(i)) /\ Cardinality(upTo(i)) <= c
    BY <1>1, <2>1, FS_Subset
  <2>3. Cardinality(upTo(i)) \in Nat /\ Cardinality(upTo(i)) # 0
    BY <2>1, <2>2, FS_CardinalityType, FS_EmptySet
  <2> QED BY <1>1, <2>2, <2>3
<1>4. \A i, j \in S : i < j => rank[i] < rank[j]
  <2> SUFFICES ASSUME NEW i \in S, NEW j \in S, i < j
               PROVE  rank[i] < rank[j]
    OBVIOUS
  <2>0. j <= j /\ ~(j <= i) /\ \A m \in S : m <= i => m <= j
    BY <1>2
  <2>1. upTo(i) \in SUBSET upTo(j) /\ j \in upTo(j) /\ j \notin upTo(i)
    <3> HIDE DEF rank, c
    <3> QED BY <2>0, Zenon
  <2>2. IsFiniteSet(upTo(j))
    BY <1>3
  <2>3. Cardinality(upTo(i)) <= Cardinality(upTo(j)) /\ Cardinality(upTo(i)) # Cardinality(upTo(j))
    BY <2>1, <2>2, FS_Subset
  <2>4. rank[i] \in Nat /\ rank[j] \in Nat
    BY <1>3
  <2> QED BY <2>3, <2>4
<1>5. \A i, j \in S : i # j => rank[i] # rank[j]
  <2> SUFFICES ASSUME NEW i \in S, NEW j \in S, i # j
               PROVE  rank[i] # rank[j]
    OBVIOUS
  <2>1. i < j \/ j < i
    BY <1>2
  <2>2. rank[i] \in Nat /\ rank[j] \in Nat
    BY <1>3
  <2> QED BY <1>4, <2>1, <2>2
<1>6. rank \in Injection(S, 1..c)
  BY <1>3, <1>5 DEF Injection, IsInjective
<1>7. IsFiniteSet(1..c) /\ Cardinality(1..c) = c
  BY <1>1, FS_Interval
<1>8. rank \in Surjection(S, 1..c)
  BY <1>6, <1>7, FS_Injection
<1>9. \A n \in 1..c : Nth(S, n) \in S /\ rank[Nth(S, n)] = n
  <2> SUFFICES ASSUME NEW n \in 1..c
               PROVE  Nth(S, n) \in S /\ rank[Nth(S, n)] = n
    OBVIOUS
  <2>1. \E i \in S : rank[i] = n
    BY <1>8 DEF Surjection
  <2>2. \E i \in S : Cardinality({j \in S : j <= i}) = n
    BY <2>1
  <2>3. Nth(S, n) \in S /\ Cardinality({j \in S : j <= Nth(S, n)}) = n
    BY <2>2 DEF Nth
  <2> QED BY <2>3
<1>10. \A m, n \in 1..c : m < n => Nth(S, m) < Nth(S, n)
  <2> SUFFICES ASSUME NEW m \in 1..c, NEW n \in 1..c, m < n
               PROVE  Nth(S, m) < Nth(S, n)
    OBVIOUS
  <2>1. Nth(S, m) \in S /\ Nth(S, n) \in S /\ rank[Nth(S, m)] = m /\ rank[Nth(S, n)] = n
    BY <1>9
  <2>2. Nth(S, m) \in Nat /\ Nth(S, n) \in Nat
    BY <1>2, <2>1
  <2>3. ~(rank[Nth(S, n)] < rank[Nth(S, m)]) /\ rank[Nth(S, n)] # rank[Nth(S, m)]
    <3> HIDE DEF rank
    <3> QED BY <2>1
  <2>4. ~(Nth(S, n) < Nth(S, m))
    <3> HIDE DEF rank
    <3> QED BY <1>4, <2>1, <2>3
  <2>5. Nth(S, n) # Nth(S, m)
    BY <2>3
  <2> QED BY <2>2, <2>4, <2>5
<1>11. \A i \in S : \E n \in 1..c : Nth(S, n) = i
  <2> SUFFICES ASSUME NEW i \in S
               PROVE  \E n \in 1..c : Nth(S, n) = i
    OBVIOUS
  <2>1. rank[i] \in 1..c
    BY <1>3
  <2>2. Nth(S, rank[i]) \in S /\ rank[Nth(S, rank[i])] = rank[i]
    BY <1>9, <2>1
  <2>3. Nth(S, rank[i]) = i
    BY <1>5, <2>2
  <2> QED BY <2>1, <2>3
<1> QED BY <1>1, <1>9, <1>10, <1>11

\* Lines that are taken from a journal in their order are in order.
LEMMA PickedLines ==
    ASSUME NEW lines, NEW picked, NEW e \in [DOMAIN picked -> DOMAIN lines],
           \A k \in DOMAIN picked : picked[k].holds = lines[e[k]].holds,
           \A j, k \in DOMAIN picked : j < k => e[j] < e[k]
    PROVE  /\ InOrder(lines) => InOrder(picked)
           /\ \A done : NoneBefore(done, lines) => NoneBefore(done, picked)
           /\ Held(picked) \subseteq Held(lines)
<1>1. \A k \in DOMAIN picked : e[k] \in DOMAIN lines
  OBVIOUS
<1>2. InOrder(lines) => InOrder(picked)
  BY <1>1 DEF InOrder
<1>3. \A done : NoneBefore(done, lines) => NoneBefore(done, picked)
  BY <1>1 DEF NoneBefore
<1>4. Held(picked) \subseteq Held(lines)
  BY <1>1 DEF Held
<1> QED BY <1>2, <1>3, <1>4

\* What a removal retains: every record but the one, in their order.
LEMMA RetainedLines ==
    ASSUME NEW n \in Nat, verdicts \in Seq(LinesUpTo(n)), NEW id
    PROVE  /\ Retained(id) \in Seq(LinesUpTo(n)) /\ Len(Retained(id)) <= Len(verdicts)
           /\ InOrder(verdicts) => InOrder(Retained(id))
           /\ \A done : NoneBefore(done, verdicts) => NoneBefore(done, Retained(id))
           /\ Held(Retained(id)) = Held(verdicts) \ {id}
<1> DEFINE kept == {i \in Records : verdicts[i].holds # id}
           c == Cardinality(kept)
           R == Retained(id)
           e == [m \in 1..c |-> Nth(kept, m)]
<1>1. Len(verdicts) \in Nat /\ DOMAIN verdicts = 1..Len(verdicts)
  OBVIOUS
<1>2. kept \in SUBSET (1..Len(verdicts))
  BY <1>1 DEF Records
<1>3. /\ c \in Nat /\ c <= Len(verdicts)
      /\ \A m \in 1..c : Nth(kept, m) \in kept
      /\ \A j, m \in 1..c : j < m => Nth(kept, j) < Nth(kept, m)
      /\ \A i \in kept : \E m \in 1..c : Nth(kept, m) = i
  <2> HIDE DEF kept
  <2> QED BY <1>1, <1>2, NthNumber
<1>4. R = [m \in 1..c |-> verdicts[Nth(kept, m)]]
  BY DEF Retained, RecordsAt
<1>5. DOMAIN R = 1..c /\ \A m \in 1..c : R[m] = verdicts[e[m]] /\ e[m] \in kept
  <2> HIDE DEF kept, R
  <2> QED BY <1>3, <1>4
<1>6. e \in [DOMAIN R -> DOMAIN verdicts]
  <2> HIDE DEF R, kept
  <2> QED BY <1>1, <1>2, <1>3, <1>5
<1>7. \A j, k \in DOMAIN R : j < k => e[j] < e[k]
  <2> HIDE DEF R, kept
  <2> QED BY <1>3, <1>5
<1>8. \A k \in DOMAIN R : R[k].holds = verdicts[e[k]].holds
  BY <1>5
<1>9. R \in Seq(LinesUpTo(n)) /\ Len(R) = c
  <2>1. \A m \in 1..c : verdicts[Nth(kept, m)] \in LinesUpTo(n)
    <3> HIDE DEF kept
    <3>1. \A m \in 1..c : Nth(kept, m) \in 1..Len(verdicts)
      BY <1>2, <1>3
    <3>2. \A i \in 1..Len(verdicts) : verdicts[i] \in LinesUpTo(n)
      OBVIOUS
    <3> QED BY <3>1, <3>2
  <2> HIDE DEF kept, R
  <2> QED BY <1>3, <1>4, <2>1, IsASeq
<1>10. /\ InOrder(verdicts) => InOrder(R)
       /\ \A done : NoneBefore(done, verdicts) => NoneBefore(done, R)
       /\ Held(R) \subseteq Held(verdicts)
  <2> HIDE DEF R, e
  <2> QED BY <1>6, <1>7, <1>8, PickedLines
<1>11. id \notin Held(R)
  <2>1. \A m \in DOMAIN R : R[m].holds # id
    BY <1>5
  <2> HIDE DEF R
  <2> QED BY <2>1 DEF Held
<1>12. Held(verdicts) \ {id} \subseteq Held(R)
  <2> SUFFICES ASSUME NEW x \in Held(verdicts), x # id
               PROVE  x \in Held(R)
    OBVIOUS
  <2>1. PICK i \in DOMAIN verdicts : verdicts[i].holds = x /\ x # 0
    BY DEF Held
  <2>2. i \in kept
    BY <2>1 DEF Records
  <2>3. PICK m \in 1..c : Nth(kept, m) = i
    BY <1>3, <2>2
  <2>4. m \in DOMAIN R /\ R[m].holds = x
    BY <1>5, <2>1, <2>3
  <2> HIDE DEF R
  <2> QED BY <2>1, <2>4 DEF Held
<1> QED BY <1>3, <1>9, <1>10, <1>11, <1>12

\* An append leaves what the lines hold, and adds at most the record of the new one.
LEMMA AppendedLines ==
    ASSUME NEW n \in Nat, NEW lines \in Seq(LinesUpTo(n)), NEW next \in LinesUpTo(n)
    PROVE  LET longer == AppendLine(lines, next)
           IN  /\ longer \in Seq(LinesUpTo(n))
               /\ Len(longer) \in {Len(lines), Len(lines) + 1}
               /\ \A i \in 1..Len(lines) : longer[i].holds = lines[i].holds
               /\ \A i \in 1..Len(longer) : i > Len(lines) => longer[i] = next
<1> DEFINE longer == AppendLine(lines, next)
           glued == Glued(Last(lines), next)
<1>1. Len(lines) \in Nat
  OBVIOUS
<1>2. CASE lines # <<>> /\ ~Last(lines).closed
  <2>1. longer = Append(Front(lines), glued)
    BY <1>2 DEF AppendLine
  <2>2. Len(lines) > 0
    BY <1>2, EmptySeq
  <2>3. \A i \in 1..(Len(lines) - 1) : lines[i] \in LinesUpTo(n)
    OBVIOUS
  <2> DEFINE shorter == SubSeq(lines, 1, Len(lines) - 1)
  <2>4. /\ shorter \in Seq(LinesUpTo(n))
        /\ Len(shorter) = IF 1 <= Len(lines) - 1 THEN Len(lines) - 1 - 1 + 1 ELSE 0
        /\ \A i \in 1..(Len(lines) - 1 - 1 + 1) : shorter[i] = lines[1 + i - 1]
    <3>1. 1 \in Int /\ Len(lines) - 1 \in Int
      BY <1>1
    <3> QED BY <2>3, <3>1, SubSeqProperties
  <2> HIDE DEF shorter
  <2>5. Len(shorter) = Len(lines) - 1 /\ Len(lines) - 1 - 1 + 1 = Len(lines) - 1
    <3> DEFINE k == Len(lines)
    <3>1. k \in Nat /\ k > 0 /\ Len(shorter) = IF 1 <= k - 1 THEN k - 1 - 1 + 1 ELSE 0
      BY <1>1, <2>2, <2>4
    <3> HIDE DEF k
    <3>2. (IF 1 <= k - 1 THEN k - 1 - 1 + 1 ELSE 0) = k - 1 /\ k - 1 - 1 + 1 = k - 1
      BY <3>1
    <3>3. Len(shorter) = k - 1
      BY <3>1, <3>2
    <3> QED BY <3>2, <3>3 DEF k
  <2>6. \A i \in 1..(Len(lines) - 1) : shorter[i] = lines[i]
    <3> SUFFICES ASSUME NEW i \in 1..(Len(lines) - 1)
                 PROVE  shorter[i] = lines[i]
      OBVIOUS
    <3>1. 1 + i - 1 = i
      OBVIOUS
    <3> QED BY <2>4, <2>5, <3>1
  <2>7. /\ Front(lines) \in Seq(LinesUpTo(n)) /\ Len(Front(lines)) = Len(lines) - 1
        /\ \A i \in 1..(Len(lines) - 1) : Front(lines)[i] = lines[i]
    BY <2>4, <2>5, <2>6 DEF Front, shorter
  <2>8. Last(lines) \in LinesUpTo(n) /\ Last(lines) = lines[Len(lines)]
    BY <2>2 DEF Last
  <2>9. glued \in LinesUpTo(n) /\ glued.holds = lines[Len(lines)].holds
    BY <2>8 DEF Glued, LinesUpTo
  <2> HIDE DEF glued
  <2>10. /\ longer \in Seq(LinesUpTo(n)) /\ Len(longer) = Len(lines)
         /\ \A i \in 1..(Len(lines) - 1) : longer[i] = Front(lines)[i]
         /\ longer[Len(lines)] = glued
    BY <1>1, <2>1, <2>7, <2>9, AppendProperties
  <2>11. \A i \in 1..Len(lines) : longer[i].holds = lines[i].holds
    BY <1>1, <2>7, <2>9, <2>10
  <2> QED BY <1>1, <2>10, <2>11
<1>3. CASE ~(lines # <<>> /\ ~Last(lines).closed)
  <2>1. longer = Append(lines, next)
    BY <1>3 DEF AppendLine
  <2>2. /\ longer \in Seq(LinesUpTo(n)) /\ Len(longer) = Len(lines) + 1
        /\ \A i \in 1..Len(lines) : longer[i] = lines[i]
        /\ longer[Len(lines) + 1] = next
    BY <2>1, AppendProperties
  <2> QED BY <1>1, <2>2
<1> QED BY <1>2, <1>3

\* A record that is given last goes behind the others.
LEMMA AppendKeeps ==
    ASSUME NEW n \in Nat, NEW lines \in Seq(LinesUpTo(n)), NEW next \in LinesUpTo(n + 1),
           next.holds \in {0, n + 1}
    PROVE  LET longer == AppendLine(lines, next)
           IN  /\ longer \in Seq(LinesUpTo(n + 1))
               /\ Len(longer) \in Nat /\ Len(longer) <= Len(lines) + 1
               /\ InOrder(lines) => InOrder(longer)
               /\ \A done \in Seq(1..n) : NoneBefore(done, lines) => NoneBefore(done, longer)
               /\ \A id : IsFirst(lines, id) => IsFirst(longer, id)
               /\ Held(lines) \subseteq Held(longer)
<1> DEFINE longer == AppendLine(lines, next)
<1>1. lines \in Seq(LinesUpTo(n + 1)) /\ Len(lines) \in Nat /\ DOMAIN lines = 1..Len(lines)
  <2>1. LinesUpTo(n) \subseteq LinesUpTo(n + 1)
    BY DEF LinesUpTo
  <2> QED BY <2>1, SeqMonotonic
<1>10. n + 1 \in Nat
  OBVIOUS
<1>2. /\ longer \in Seq(LinesUpTo(n + 1))
      /\ Len(longer) \in {Len(lines), Len(lines) + 1}
      /\ \A i \in 1..Len(lines) : longer[i].holds = lines[i].holds
      /\ \A i \in 1..Len(longer) : i > Len(lines) => longer[i] = next
  BY <1>1, <1>10, AppendedLines
<1> HIDE DEF longer
<1>3. /\ DOMAIN longer = 1..Len(longer) /\ Len(longer) \in Nat
      /\ \A i \in 1..Len(lines) : i \in 1..Len(longer)
      /\ \A i \in 1..Len(longer) : i \in 1..Len(lines) \/ i = Len(lines) + 1
  BY <1>1, <1>2
<1>4. \A i \in 1..Len(lines) : lines[i].holds \in 0..n
  <2>1. \A i \in 1..Len(lines) : lines[i] \in LinesUpTo(n)
    OBVIOUS
  <2> QED BY <2>1 DEF LinesUpTo
<1>5. \A i \in 1..Len(longer) : i \notin 1..Len(lines) => longer[i].holds \in {0, n + 1}
  BY <1>1, <1>2
<1>6. InOrder(lines) => InOrder(longer)
  <2> SUFFICES ASSUME InOrder(lines), NEW i \in 1..Len(longer), NEW j \in 1..Len(longer), i < j,
                      longer[i].holds # 0, longer[j].holds # 0
               PROVE  longer[i].holds < longer[j].holds
    BY <1>3 DEF InOrder
  <2>0. i \in 1..Len(lines)
    <3>1. i # Len(lines) + 1
      BY <1>1, <1>3
    <3> QED BY <1>3, <3>1
  <2>1. i \in 1..Len(lines) /\ longer[i].holds = lines[i].holds /\ lines[i].holds \in 0..n
    BY <1>2, <1>4, <2>0
  <2>2. CASE j \in 1..Len(lines)
    BY <1>1, <1>2, <2>1, <2>2 DEF InOrder
  <2>3. CASE j \notin 1..Len(lines)
    BY <1>5, <2>1, <2>3
  <2> QED BY <2>2, <2>3
<1>7. \A done \in Seq(1..n) : NoneBefore(done, lines) => NoneBefore(done, longer)
  <2> SUFFICES ASSUME NEW done \in Seq(1..n), NoneBefore(done, lines), NEW k \in DOMAIN done,
                      NEW i \in 1..Len(longer), longer[i].holds # 0
               PROVE  done[k] <= longer[i].holds
    BY <1>3 DEF NoneBefore
  <2>1. done[k] \in 1..n
    OBVIOUS
  <2>2. CASE i \in 1..Len(lines)
    BY <1>1, <1>2, <2>2 DEF NoneBefore
  <2>3. CASE i \notin 1..Len(lines)
    BY <1>5, <2>1, <2>3
  <2> QED BY <2>2, <2>3
<1>8. \A id : IsFirst(lines, id) => IsFirst(longer, id)
  <2> SUFFICES ASSUME NEW id, IsFirst(lines, id)
               PROVE  IsFirst(longer, id)
    OBVIOUS
  <2>1. PICK i \in 1..Len(lines) :
           lines[i].holds = id /\ id # 0 /\ \A j \in 1..(i - 1) : lines[j].holds = 0
    BY <1>1 DEF IsFirst
  <2>2. \A j \in 1..(i - 1) : j \in 1..Len(lines)
    BY <1>1
  <2>3. \A j \in 1..(i - 1) : longer[j].holds = 0
    BY <1>2, <2>1, <2>2
  <2>4. i \in DOMAIN longer
    BY <1>3
  <2>5. longer[i].holds = id /\ id # 0
    BY <1>2, <2>1
  <2> QED BY <2>3, <2>4, <2>5 DEF IsFirst
<1>9. Held(lines) \subseteq Held(longer)
  <2> SUFFICES ASSUME NEW i \in 1..Len(lines), lines[i].holds # 0
               PROVE  \E j \in DOMAIN longer : longer[j].holds = lines[i].holds
    BY <1>1 DEF Held
  <2>1. i \in DOMAIN longer
    BY <1>3
  <2> QED BY <1>2, <2>1
<1>11. Len(longer) <= Len(lines) + 1
  BY <1>1, <1>2
<1>12. longer \in Seq(LinesUpTo(n + 1)) /\ Len(longer) \in Nat
  BY <1>2, <1>3, Zenon
<1> QED BY <1>6, <1>7, <1>8, <1>9, <1>11, <1>12, Zenon DEF longer

--------------------------------------------------------------------------------
(* The steps of the journal *)

\* The first record of a journal is one it holds, and the least.
LEMMA FirstIsLeast ==
    ASSUME NEW n \in Nat, NEW lines \in Seq(LinesUpTo(n)), InOrder(lines), NEW id,
           IsFirst(lines, id)
    PROVE  /\ id \in Held(lines) /\ id \in 1..n
           /\ \A i \in DOMAIN lines : lines[i].holds # 0 => id <= lines[i].holds
<1>1. DOMAIN lines = 1..Len(lines) /\ Len(lines) \in Nat
  OBVIOUS
<1>2. \A i \in DOMAIN lines : lines[i].holds \in 0..n
  <2>1. \A i \in DOMAIN lines : lines[i] \in LinesUpTo(n)
    OBVIOUS
  <2> QED BY <2>1 DEF LinesUpTo
<1>3. PICK i \in DOMAIN lines :
         lines[i].holds = id /\ id # 0 /\ \A j \in 1..(i - 1) : lines[j].holds = 0
  BY DEF IsFirst
<1>4. id \in Held(lines)
  BY <1>3 DEF Held
<1>5. id \in 1..n
  BY <1>2, <1>3
<1>6. ASSUME NEW j \in DOMAIN lines, lines[j].holds # 0
      PROVE  id <= lines[j].holds
  <2>1. i \in Nat /\ j \in Nat /\ j >= 1
    BY <1>1
  <2>2. j >= i
    <3> SUFFICES ASSUME ~(j >= i) PROVE FALSE
      OBVIOUS
    <3>1. j \in 1..(i - 1)
      BY <2>1
    <3> QED BY <1>3, <1>6, <3>1
  <2>3. CASE j = i
    BY <1>3, <1>5, <2>3
  <2>4. CASE j # i
    <3>1. i < j
      BY <2>1, <2>2, <2>4
    <3>2. id < lines[j].holds
      BY <1>3, <1>6, <3>1 DEF InOrder
    <3> QED BY <1>2, <1>5, <3>2
  <2> QED BY <2>3, <2>4
<1> QED BY <1>4, <1>5, <1>6

\* A journal that stays is sound as long as no fewer verdicts may be known.
LEMMA VerdictsStay ==
    ASSUME VerdictsSound, given' \in Nat, Known' \in Nat, Known' >= Known,
           verdicts' = verdicts, applied' = applied
    PROVE  VerdictsSound'
<1>1. LinesUpTo(Known) \subseteq LinesUpTo(Known') /\ 1..Known \subseteq 1..Known'
  BY DEF VerdictsSound, LinesUpTo
<1>2. verdicts \in Seq(LinesUpTo(Known')) /\ applied \in Seq(1..Known')
  BY <1>1, SeqMonotonic DEF VerdictsSound
<1>3. DeliveredInOrder'
  BY DEF VerdictsSound, DeliveredInOrder
<1>4. Len(verdicts) <= VerdictCapacity /\ InOrder(verdicts) /\ NoneBefore(applied, verdicts)
  BY DEF VerdictsSound
<1>5. /\ verdicts' \in Seq(LinesUpTo(Known')) /\ applied' \in Seq(1..Known')
      /\ Len(verdicts') <= VerdictCapacity /\ InOrder(verdicts')
      /\ NoneBefore(applied', verdicts')
  BY <1>2, <1>4
<1> QED BY <1>3, <1>5 DEF VerdictsSound

\* An append of what is left of the newest verdict keeps the journal.
LEMMA NewestAppended ==
    ASSUME VerdictsSound, WriteSound, Unheard, ~Unheard', given' = given, given # 0,
           NEW t \in TornLine(given) \cup {Line(given)},
           Len(verdicts) < VerdictCapacity, VerdictCapacity \in Nat,
           verdicts' = AppendLine(verdicts, t), applied' = applied
    PROVE  /\ VerdictsSound' /\ Held(verdicts) \subseteq Held(verdicts')
           /\ \A id : IsFirst(verdicts, id) => IsFirst(verdicts', id)
<1> DEFINE n == Known
<1>1. n \in Nat /\ n = given - 1 /\ given = n + 1 /\ Known' = n + 1 /\ given' \in Nat
  BY DEF Known, VerdictsSound
<1>2. verdicts \in Seq(LinesUpTo(n)) /\ applied \in Seq(1..n) /\ Len(verdicts) \in Nat
  BY DEF VerdictsSound
<1>3. t \in LinesUpTo(n + 1) /\ t.holds \in {0, n + 1}
  <2> HIDE DEF n
  <2>1. given \in 1..(n + 1) /\ 0 \in 0..(n + 1) /\ given \in 0..(n + 1) /\ given = n + 1
    BY <1>1
  <2>2. \A h \in {0, given}, m \in {{}, {given}}, b \in BOOLEAN :
          LET line == [holds |-> h, mentions |-> m, closed |-> b]
          IN  line \in LinesUpTo(n + 1) /\ line.holds \in {0, n + 1}
    BY <2>1 DEF LinesUpTo
  <2>3. \E h \in {0, given}, m \in {{}, {given}}, b \in BOOLEAN :
          t = [holds |-> h, mentions |-> m, closed |-> b]
    BY DEF TornLine, Line
  <2> QED BY <2>2, <2>3
<1>4. InOrder(verdicts) /\ NoneBefore(applied, verdicts)
  BY DEF VerdictsSound
<1> HIDE DEF n
<1>5. /\ verdicts' \in Seq(LinesUpTo(n + 1))
      /\ Len(verdicts') \in Nat /\ Len(verdicts') <= Len(verdicts) + 1
      /\ InOrder(verdicts) => InOrder(verdicts')
      /\ \A done \in Seq(1..n) : NoneBefore(done, verdicts) => NoneBefore(done, verdicts')
      /\ \A id : IsFirst(verdicts, id) => IsFirst(verdicts', id)
      /\ Held(verdicts) \subseteq Held(verdicts')
  BY <1>1, <1>2, <1>3, AppendKeeps
<1>6. InOrder(verdicts') /\ NoneBefore(applied', verdicts')
  BY <1>2, <1>4, <1>5
<1>7. Len(verdicts') <= VerdictCapacity
  BY <1>2, <1>5
<1>8. applied' \in Seq(1..(n + 1))
  <2>1. 1..n \subseteq 1..(n + 1)
    BY <1>1
  <2> QED BY <1>2, <2>1, SeqMonotonic
<1>9. DeliveredInOrder'
  BY DEF VerdictsSound, DeliveredInOrder
<1>10. VerdictsSound'
  BY <1>1, <1>5, <1>6, <1>7, <1>8, <1>9 DEF VerdictsSound
<1> QED BY <1>5, <1>10

\* While the worker has the newest verdict, it is nowhere in the journal yet.
LEMMA WorkerHasNewest ==
    ASSUME VerdictsSound, WriteSound, verdictWrite.op # 0, verdictWrite.result = "none"
    PROVE  /\ verdictCommit = "persisting" /\ ~effectReady /\ Unheard /\ verdictWrite # NoWrite
           /\ verdictWrite.id = given /\ given # 0 /\ ~Mentioned(given)
<1>1. verdictWrite # NoWrite
  BY DEF NoWrite
<1>2. /\ verdictCommit = "persisting" /\ ~effectReady
      /\ verdictWrite.id = given /\ given # 0
  BY <1>1 DEF WriteSound
<1>3. Unheard
  BY DEF Unheard
<1>4. Known = given - 1 /\ given \in Nat /\ Known \in Nat
  BY <1>3 DEF Known, VerdictsSound
<1>5. \A i \in DOMAIN verdicts : verdicts[i] \in LinesUpTo(Known)
  BY DEF VerdictsSound
<1>6. \A i \in DOMAIN verdicts : given \notin verdicts[i].mentions
  BY <1>4, <1>5 DEF LinesUpTo
<1> QED BY <1>1, <1>2, <1>3, <1>6 DEF Mentioned

\* The transaction of the worker.
LEMMA PersistVerdictKeeps == OutboxInv /\ PersistVerdict => OutboxInv'
<1> SUFFICES ASSUME OutboxInv, PersistVerdict PROVE OutboxInv'
  OBVIOUS
<1> USE DEF OutboxInv
<1>1. /\ verdictWrite.op # 0 /\ verdictWrite.result = "none" /\ CommitVerdict(verdictWrite.id)
      /\ UNCHANGED <<problemPage, upload, retry, given, applied, refused>>
  BY DEF PersistVerdict
<1>2. /\ verdictCommit = "persisting" /\ ~effectReady /\ Unheard /\ verdictWrite # NoWrite
      /\ verdictWrite.id = given /\ given # 0 /\ ~Mentioned(given)
  BY <1>1, WorkerHasNewest
<1>3. CommitVerdict(given)
  BY <1>1, <1>2
<1>4. PICK r \in {"ok", "failed"} : verdictWrite' = [verdictWrite EXCEPT !.result = r]
  BY <1>3 DEF CommitVerdict
<1>5. /\ verdictWrite' \in VerdictWrites /\ verdictWrite'.result = r
      /\ verdictWrite'.op = verdictWrite.op /\ verdictWrite'.id = verdictWrite.id
  BY <1>4 DEF WriteSound, VerdictWrites
<1>6. /\ effectReady' = effectReady /\ verdictCommit' = verdictCommit /\ verdictOp' = verdictOp
      /\ pendingVerdict' = pendingVerdict /\ given' = given /\ active' = active
      /\ problemMode' = problemMode /\ current' = current /\ set' = set
      /\ selected' = selected /\ upload' = upload /\ applied' = applied /\ refused' = refused
  BY <1>1 DEF problemPage
<1>7. ~Unheard' /\ given \in Nat /\ given' \in Nat /\ Known' \in Nat /\ Known' >= Known
  <2>1. ~Unheard'
    BY <1>2, <1>5, <1>6 DEF Unheard
  <2> QED BY <1>2, <1>6, <2>1 DEF Known, VerdictsSound
<1>8. WriteSound'
  <2>1. /\ verdictWrite.op = given /\ verdictOp = given /\ pendingVerdict.id = given
    BY <1>2 DEF WriteSound
  <2> QED BY <1>2, <1>5, <1>6, <2>1 DEF WriteSound
<1>9. PageSound'
  BY <1>6 DEF PageSound
<1>10. WaitsOnItsProblem' /\ AcknowledgedMeansDelivered'
  BY <1>2, <1>5, <1>6 DEF WaitsOnItsProblem, AcknowledgedMeansDelivered
<1>11. VerdictCapacity \in Nat
  BY OutboxAssumption
<1>12. /\ damaged \subseteq damaged' /\ told \subseteq told'
       /\ told' \subseteq told \cup {given}
       /\ \/ verdicts' = verdicts /\ told' = told
          \/ /\ Len(verdicts) < VerdictCapacity /\ verdicts' = AppendLine(verdicts, Line(given))
             /\ damaged' = damaged \cup Swallowed(verdicts, Line(given))
          \/ /\ Len(verdicts) < VerdictCapacity /\ told' = told
             /\ \E t \in TornLine(given) \cup {Line(given)} : verdicts' = AppendLine(verdicts, t)
  BY <1>2, <1>3 DEF CommitVerdict
<1>13. /\ VerdictsSound' /\ Held(verdicts) \subseteq Held(verdicts')
       /\ \A id : IsFirst(verdicts, id) => IsFirst(verdicts', id)
  <2>1. CASE verdicts' = verdicts
    <3>1. VerdictsSound'
      BY <1>6, <1>7, <2>1, VerdictsStay
    <3> QED BY <2>1, <3>1
  <2>2. CASE verdicts' # verdicts
    <3>1. PICK t \in TornLine(given) \cup {Line(given)} : verdicts' = AppendLine(verdicts, t)
      BY <1>12, <2>2
    <3>2. Len(verdicts) < VerdictCapacity
      BY <1>12, <2>2
    <3> QED BY <1>2, <1>6, <1>7, <1>11, <3>1, <3>2, NewestAppended
  <2> QED BY <2>1, <2>2
<1>14. LostOnlyByDamage'
  <2>1. told \subseteq Held(verdicts') \cup Range(applied') \cup refused' \cup damaged'
    BY <1>6, <1>12, <1>13 DEF LostOnlyByDamage
  <2>2. CASE told' = told
    BY <2>1, <2>2 DEF LostOnlyByDamage
  <2>3. CASE told' # told
    <3>1. /\ verdicts' = AppendLine(verdicts, Line(given))
          /\ damaged' = damaged \cup Swallowed(verdicts, Line(given))
      BY <1>12, <2>3
    <3>2. given \in Held(verdicts') \cup damaged'
      BY <1>2, <3>1 DEF Swallowed, Line
    <3> QED BY <1>12, <2>1, <3>2 DEF LostOnlyByDamage
  <2> QED BY <2>2, <2>3
<1>15. UploadSound'
  BY <1>6, <1>12, <1>13 DEF UploadSound
<1> QED BY <1>8, <1>9, <1>10, <1>13, <1>14, <1>15

\* A round looks at the first record.
LEMMA PeekKeeps == OutboxInv /\ PeekVerdict => OutboxInv'
<1> SUFFICES ASSUME OutboxInv, PeekVerdict PROVE OutboxInv'
  OBVIOUS
<1> USE DEF OutboxInv
<1>1. /\ Records # {} /\ upload' = [Idle EXCEPT !.at = "submit", !.id = FirstRecord]
      /\ UNCHANGED <<problemPage, verdictWrite, verdicts, given, ghosts, damaged, outboxFaults>>
  BY DEF PeekVerdict
<1>2. /\ effectReady' = effectReady /\ verdictCommit' = verdictCommit /\ verdictOp' = verdictOp
      /\ pendingVerdict' = pendingVerdict /\ given' = given /\ active' = active
      /\ problemMode' = problemMode /\ current' = current /\ set' = set
      /\ selected' = selected /\ applied' = applied /\ refused' = refused
      /\ told' = told /\ damaged' = damaged /\ verdicts' = verdicts
      /\ verdictWrite' = verdictWrite
  BY <1>1 DEF problemPage, ghosts
<1>3. Unheard' = Unheard /\ Known' = Known
  BY <1>2 DEF Unheard, Known
<1>4. VerdictsSound'
  <2>1. Known \in Nat /\ given \in Nat
    BY DEF VerdictsSound
  <2> QED BY <1>2, <1>3, <2>1, VerdictsStay
<1>5. WriteSound' /\ PageSound'
  BY <1>2 DEF WriteSound, PageSound
<1>6. WaitsOnItsProblem' /\ AcknowledgedMeansDelivered' /\ LostOnlyByDamage'
  BY <1>2 DEF WaitsOnItsProblem, AcknowledgedMeansDelivered, LostOnlyByDamage
<1>7. Records \in SUBSET Nat /\ Len(verdicts) \in Nat /\ DOMAIN verdicts = 1..Len(verdicts)
  BY DEF Records, VerdictsSound
<1>8. PICK m \in Records : \A y \in Records : m <= y
  BY <1>1, <1>7, LeastNumber
<1>9. Min(Records) \in Records /\ \A y \in Records : Min(Records) <= y
  BY <1>8 DEF Min
<1>10. FirstRecord = verdicts[Min(Records)].holds /\ FirstRecord # 0
  BY <1>9 DEF FirstRecord, Records
<1>11. \A j \in 1..(Min(Records) - 1) : verdicts[j].holds = 0
  <2> SUFFICES ASSUME NEW j \in 1..(Min(Records) - 1), verdicts[j].holds # 0
               PROVE  FALSE
    OBVIOUS
  <2>1. Min(Records) \in 1..Len(verdicts)
    BY <1>7, <1>9 DEF Records
  <2>2. j \in 1..Len(verdicts) /\ ~(Min(Records) <= j)
    BY <1>7, <2>1
  <2>3. j \in Records
    BY <1>7, <2>2 DEF Records
  <2> QED BY <1>9, <2>2, <2>3
<1>12. IsFirst(verdicts, FirstRecord)
  BY <1>9, <1>10, <1>11 DEF IsFirst, Records
<1>13. FirstRecord \in Nat
  <2>1. FirstRecord \in 1..Known
    BY <1>12, FirstIsLeast DEF VerdictsSound
  <2> QED BY <2>1 DEF VerdictsSound
<1>14. upload' \in Uploads /\ upload'.at = "submit" /\ upload'.id = FirstRecord
  BY <1>1, <1>13 DEF Idle, Uploads
<1>15. UploadSound'
  BY <1>2, <1>12, <1>14 DEF UploadSound
<1> QED BY <1>4, <1>5, <1>6, <1>15

\* What an answer may do to the list of what the server applied.
LEMMA AppliedOnce ==
    ASSUME VerdictsSound, IsFirst(verdicts, upload.id)
    PROVE  LET more == Apply(upload.id)
           IN  /\ more \in Seq(1..Known) /\ NoneBefore(more, verdicts)
               /\ \A i \in 1..Len(more) - 1 : more[i] < more[i + 1]
               /\ Range(more) = Range(applied) \cup {upload.id}
<1> DEFINE id == upload.id
           more == Apply(id)
           n == Known
<1>1. /\ n \in Nat /\ verdicts \in Seq(LinesUpTo(n)) /\ applied \in Seq(1..n)
      /\ InOrder(verdicts) /\ NoneBefore(applied, verdicts)
      /\ \A i \in 1..Len(applied) - 1 : applied[i] < applied[i + 1]
  BY DEF VerdictsSound, DeliveredInOrder
<1>2. /\ id \in Held(verdicts) /\ id \in 1..n
      /\ \A i \in DOMAIN verdicts : verdicts[i].holds # 0 => id <= verdicts[i].holds
  BY <1>1, FirstIsLeast
<1>3. CASE id \in Range(applied)
  BY <1>1, <1>3 DEF Apply
<1>4. CASE id \notin Range(applied)
  <2> HIDE DEF n, id
  <2>1. more = Append(applied, id)
    BY <1>4 DEF Apply
  <2>2. /\ more \in Seq(1..n) /\ Len(applied) \in Nat /\ Len(more) = Len(applied) + 1
        /\ \A i \in 1..Len(applied) : more[i] = applied[i]
        /\ more[Len(applied) + 1] = id
    BY <1>1, <1>2, <2>1, AppendProperties
  <2> HIDE DEF more
  <2>3. \A k \in DOMAIN applied : applied[k] < id
    <3> SUFFICES ASSUME NEW k \in DOMAIN applied PROVE applied[k] < id
      OBVIOUS
    <3>1. PICK i \in DOMAIN verdicts : verdicts[i].holds = id /\ id # 0
      BY <1>2 DEF Held
    <3>2. applied[k] <= id
      BY <1>1, <3>1 DEF NoneBefore
    <3>3. applied[k] # id
      BY <1>4 DEF Range
    <3>4. applied[k] \in 1..n
      BY <1>1
    <3> QED BY <1>2, <3>2, <3>3, <3>4
  <2>4. NoneBefore(more, verdicts)
    <3> SUFFICES ASSUME NEW k \in DOMAIN more, NEW i \in DOMAIN verdicts, verdicts[i].holds # 0
                 PROVE  more[k] <= verdicts[i].holds
      BY DEF NoneBefore
    <3>1. k \in 1..(Len(applied) + 1) /\ DOMAIN applied = 1..Len(applied)
      BY <1>1, <2>2
    <3>2. CASE k \in 1..Len(applied)
      <4>1. applied[k] <= verdicts[i].holds
        BY <1>1, <3>1, <3>2 DEF NoneBefore
      <4> QED BY <2>2, <3>2, <4>1
    <3>3. CASE k = Len(applied) + 1
      BY <1>2, <2>2, <3>3
    <3> QED BY <2>2, <3>1, <3>2, <3>3
  <2>5. \A i \in 1..Len(more) - 1 : more[i] < more[i + 1]
    <3> SUFFICES ASSUME NEW i \in 1..Len(more) - 1 PROVE more[i] < more[i + 1]
      OBVIOUS
    <3>1. i \in 1..Len(applied) /\ DOMAIN applied = 1..Len(applied) /\ more[i] = applied[i]
      BY <1>1, <2>2
    <3>2. CASE i = Len(applied)
      BY <2>2, <2>3, <3>1, <3>2
    <3>3. CASE i # Len(applied)
      <4>0. Len(applied) \in Nat
        BY <1>1
      <4>1. i \in 1..Len(applied) - 1 /\ i + 1 \in 1..Len(applied)
        <5> DEFINE k == Len(applied)
        <5>1. k \in Nat
          BY <4>0
        <5>2. i \in 1..k /\ i # k
          BY <3>1, <3>3
        <5> HIDE DEF k
        <5>3. i \in 1..k - 1 /\ i + 1 \in 1..k
          BY <5>1, <5>2
        <5> QED BY <5>3 DEF k
      <4> QED BY <1>1, <2>2, <3>1, <4>1
    <3> QED BY <3>2, <3>3
  <2>6. Range(more) = Range(applied) \cup {id}
    <3>1. DOMAIN more = 1..(Len(applied) + 1) /\ DOMAIN applied = 1..Len(applied)
      BY <1>1, <2>2
    <3>2. Range(more) \subseteq Range(applied) \cup {id}
      <4> SUFFICES ASSUME NEW k \in DOMAIN more PROVE more[k] \in Range(applied) \cup {id}
        BY DEF Range
      <4>1. k \in 1..Len(applied) \/ k = Len(applied) + 1
        BY <2>2, <3>1
      <4> QED BY <2>2, <3>1, <4>1 DEF Range
    <3>3. Range(applied) \subseteq Range(more)
      <4> SUFFICES ASSUME NEW k \in DOMAIN applied PROVE applied[k] \in Range(more)
        BY DEF Range
      <4>1. k \in DOMAIN more /\ more[k] = applied[k]
        BY <2>2, <3>1
      <4> QED BY <4>1 DEF Range
    <3>4. id \in Range(more)
      <4>1. Len(applied) + 1 \in DOMAIN more
        BY <2>2, <3>1
      <4> QED BY <2>2, <4>1 DEF Range
    <3> QED BY <3>2, <3>3, <3>4
  <2> QED BY <2>2, <2>4, <2>5, <2>6 DEF n, id, more
<1> QED BY <1>3, <1>4

\* The answer of the server, or none.
LEMMA SubmitKeeps == OutboxInv /\ SubmitVerdict => OutboxInv'
<1> SUFFICES ASSUME OutboxInv, SubmitVerdict PROVE OutboxInv'
  OBVIOUS
<1> USE DEF OutboxInv
<1>1. PICK answer \in {"applied", "refused", "lost", "unreadable"} :
        /\ applied' \in CASE answer = "applied" -> {Apply(upload.id)}
                          [] answer = "refused" -> {applied}
                          [] answer \in {"lost", "unreadable"} -> {applied, Apply(upload.id)}
        /\ refused' = IF answer = "refused" THEN refused \cup {upload.id} ELSE refused
        /\ damaged' = IF answer = "unreadable" /\ upload.id \notin Range(applied')
                      THEN damaged \cup {upload.id} ELSE damaged
        /\ IF answer \in Terminal \cup {"applied"}
           THEN upload' = [upload EXCEPT !.at = "remove", !.answer = answer] /\ UNCHANGED retry
           ELSE upload' = Idle /\ retry' = upload.id
  BY DEF SubmitVerdict
<1>2. /\ upload.at = "submit"
      /\ UNCHANGED <<problemPage, verdictWrite, verdicts, given, told, outboxFaults>>
  BY DEF SubmitVerdict
<1>3. /\ effectReady' = effectReady /\ verdictCommit' = verdictCommit /\ verdictOp' = verdictOp
      /\ pendingVerdict' = pendingVerdict /\ given' = given /\ active' = active
      /\ problemMode' = problemMode /\ current' = current /\ set' = set
      /\ selected' = selected /\ told' = told /\ verdicts' = verdicts
      /\ verdictWrite' = verdictWrite
  BY <1>2 DEF problemPage
<1>4. Unheard' = Unheard /\ Known' = Known
  BY <1>3 DEF Unheard, Known
<1>5. WriteSound' /\ PageSound' /\ WaitsOnItsProblem'
  BY <1>3 DEF WriteSound, PageSound, WaitsOnItsProblem
<1>6. IsFirst(verdicts, upload.id) /\ upload \in Uploads
  BY <1>2 DEF UploadSound
<1> DEFINE more == Apply(upload.id)
<1>7. /\ more \in Seq(1..Known) /\ NoneBefore(more, verdicts)
      /\ \A i \in 1..Len(more) - 1 : more[i] < more[i + 1]
      /\ Range(more) = Range(applied) \cup {upload.id}
  BY <1>6, AppliedOnce
<1> HIDE DEF more
<1>8. applied' \in {applied, more} /\ (answer = "applied" => applied' = more)
  BY <1>1 DEF more
<1>9. /\ applied' \in Seq(1..Known) /\ NoneBefore(applied', verdicts)
      /\ \A i \in 1..Len(applied') - 1 : applied'[i] < applied'[i + 1]
  <2>1. /\ applied \in Seq(1..Known) /\ NoneBefore(applied, verdicts)
        /\ \A i \in 1..Len(applied) - 1 : applied[i] < applied[i + 1]
    BY DEF VerdictsSound, DeliveredInOrder
  <2>2. CASE applied' = applied
    BY <2>1, <2>2
  <2>3. CASE applied' = more
    BY <1>7, <2>3
  <2> QED BY <1>8, <2>2, <2>3
<1>10. DeliveredInOrder'
  BY <1>9 DEF DeliveredInOrder
<1>11. VerdictsSound'
  BY <1>3, <1>4, <1>9, <1>10 DEF VerdictsSound
<1>12. /\ Range(applied) \subseteq Range(applied') /\ refused \subseteq refused'
       /\ damaged \subseteq damaged'
  BY <1>1, <1>7, <1>8
<1>13. LostOnlyByDamage' /\ AcknowledgedMeansDelivered'
  BY <1>3, <1>12 DEF LostOnlyByDamage, AcknowledgedMeansDelivered
<1>14. UploadSound'
  <2>1. CASE answer \in Terminal \cup {"applied"}
    <3>1. upload' \in Uploads /\ upload'.at = "remove" /\ upload'.id = upload.id
      BY <1>1, <1>6, <2>1 DEF Uploads
    <3>2. upload.id \in Range(applied') \cup refused' \cup damaged'
      BY <1>1, <1>7, <1>8, <2>1 DEF Terminal
    <3> QED BY <1>3, <1>6, <3>1, <3>2 DEF UploadSound
  <2>2. CASE answer \notin Terminal \cup {"applied"}
    <3>1. upload' \in Uploads /\ upload'.at = "idle"
      BY <1>1, <2>2 DEF Uploads, Idle
    <3> QED BY <3>1 DEF UploadSound
  <2> QED BY <2>1, <2>2
<1> QED BY <1>5, <1>11, <1>13, <1>14

\* A journal that lost records, with what took them in the books.
LEMMA VerdictsShrink ==
    ASSUME VerdictsSound, LostOnlyByDamage, given' \in Nat, Known' \in Nat, Known' >= Known,
           verdicts' \in Seq(LinesUpTo(Known)), Len(verdicts') <= Len(verdicts),
           InOrder(verdicts'), NoneBefore(applied, verdicts'), applied' = applied,
           told' = told, refused' = refused, damaged \subseteq damaged',
           Held(verdicts) \subseteq
               Held(verdicts') \cup Range(applied) \cup refused \cup damaged'
    PROVE  VerdictsSound' /\ LostOnlyByDamage'
<1>1. LinesUpTo(Known) \subseteq LinesUpTo(Known') /\ 1..Known \subseteq 1..Known'
  BY DEF VerdictsSound, LinesUpTo
<1>2. verdicts' \in Seq(LinesUpTo(Known')) /\ applied' \in Seq(1..Known')
  BY <1>1, SeqMonotonic DEF VerdictsSound
<1>3. DeliveredInOrder'
  BY DEF VerdictsSound, DeliveredInOrder
<1>4. Len(verdicts') <= VerdictCapacity
  <2>1. Len(verdicts) <= VerdictCapacity /\ Len(verdicts) \in Nat /\ Len(verdicts') \in Nat
    BY <1>2 DEF VerdictsSound
  <2> QED BY <2>1, OutboxAssumption
<1>5. NoneBefore(applied', verdicts')
  OBVIOUS
<1>6. VerdictsSound'
  BY <1>2, <1>3, <1>4, <1>5 DEF VerdictsSound
<1>7. LostOnlyByDamage'
  BY DEF LostOnlyByDamage
<1> QED BY <1>6, <1>7

\* A journal that is lost whole is sound.
LEMMA NoLines == \A n, done : <<>> \in Seq(LinesUpTo(n)) /\ InOrder(<<>>)
                              /\ NoneBefore(done, <<>>) /\ Held(<<>>) = {} /\ Len(<<>>) = 0
  BY EmptySeq DEF InOrder, NoneBefore, Held

\* The rewrite when the upload loop is done with the first record, whole, not done or cut.
LEMMA RewriteShrinks ==
    ASSUME VerdictsSound, UploadSound, LostOnlyByDamage, upload.at = "remove",
           given' \in Nat, Known' \in Nat, Known' >= Known,
           applied' = applied, told' = told, refused' = refused,
           \/ Rewrite(Retained(upload.id))
           \/ LoseAll(Retained(upload.id))
           \/ UNCHANGED <<verdicts, damaged>>
    PROVE  VerdictsSound' /\ LostOnlyByDamage' /\ damaged \subseteq damaged'
<1> DEFINE R == Retained(upload.id)
           n == Known
<1>1. /\ n \in Nat /\ verdicts \in Seq(LinesUpTo(n)) /\ InOrder(verdicts)
      /\ NoneBefore(applied, verdicts)
  BY DEF VerdictsSound
<1>2. /\ R \in Seq(LinesUpTo(n)) /\ Len(R) <= Len(verdicts)
      /\ InOrder(R) /\ NoneBefore(applied, R) /\ Held(R) = Held(verdicts) \ {upload.id}
  BY <1>1, RetainedLines
<1>3. upload.id \in Range(applied) \cup refused \cup damaged
  BY DEF UploadSound
<1> HIDE DEF R, n
<1>4. CASE Rewrite(R)
  <2>1. verdicts' = [i \in DOMAIN R |-> [R[i] EXCEPT !.closed = TRUE]] /\ damaged' = damaged
    BY <1>4 DEF Rewrite
  <2>2. Len(R) \in Nat /\ DOMAIN R = 1..Len(R)
    BY <1>2
  <2>3. \A i \in DOMAIN R : R[i] \in LinesUpTo(n)
    BY <1>2
  <2>4. \A i \in DOMAIN R : verdicts'[i] \in LinesUpTo(n) /\ verdicts'[i].holds = R[i].holds
    BY <2>1, <2>3 DEF LinesUpTo
  <2>5. DOMAIN verdicts' = DOMAIN R
    BY <2>1
  <2>6. verdicts' \in Seq(LinesUpTo(n)) /\ Len(verdicts') = Len(R)
    <3>1. verdicts' = [i \in 1..Len(R) |-> verdicts'[i]]
      BY <2>1, <2>2
    <3>2. \A i \in 1..Len(R) : verdicts'[i] \in LinesUpTo(n)
      BY <2>2, <2>4
    <3> QED BY <2>2, <3>1, <3>2, IsASeq
  <2>7. InOrder(verdicts') /\ NoneBefore(applied, verdicts')
    BY <1>2, <2>4, <2>5 DEF InOrder, NoneBefore
  <2>8. Held(verdicts') = Held(R)
    BY <2>4, <2>5 DEF Held
  <2>9. Held(verdicts) \subseteq Held(verdicts') \cup Range(applied) \cup refused \cup damaged'
    BY <1>2, <1>3, <2>1, <2>8
  <2>10. Len(verdicts') <= Len(verdicts)
    BY <1>2, <2>6
  <2> QED BY <2>1, <2>6, <2>7, <2>9, <2>10, VerdictsShrink DEF n
<1>5. CASE LoseAll(R)
  <2>1. verdicts' = <<>> /\ damaged' = damaged \cup Held(R)
    BY <1>5 DEF LoseAll
  <2>2. Held(verdicts) \subseteq Held(verdicts') \cup Range(applied) \cup refused \cup damaged'
    BY <1>2, <1>3, <2>1
  <2>3. /\ verdicts' \in Seq(LinesUpTo(n)) /\ InOrder(verdicts')
        /\ NoneBefore(applied, verdicts') /\ Len(verdicts') = 0
    BY <2>1, NoLines
  <2>4. Len(verdicts') <= Len(verdicts)
    <3>1. Len(verdicts) \in Nat
      BY <1>1
    <3> QED BY <2>3, <3>1
  <2> QED BY <2>1, <2>2, <2>3, <2>4, VerdictsShrink DEF n
<1>6. CASE UNCHANGED <<verdicts, damaged>>
  <2>1. Len(verdicts') <= Len(verdicts)
    BY <1>1, <1>6
  <2>2. /\ verdicts' \in Seq(LinesUpTo(n)) /\ InOrder(verdicts') /\ NoneBefore(applied, verdicts')
    BY <1>1, <1>6
  <2> QED BY <1>6, <2>1, <2>2, VerdictsShrink DEF n
<1> QED BY <1>4, <1>5, <1>6 DEF R

\* The upload loop removes the record it is done with.
LEMMA RemoveKeeps == OutboxInv /\ RemoveVerdict => OutboxInv'
<1> SUFFICES ASSUME OutboxInv, RemoveVerdict PROVE OutboxInv'
  OBVIOUS
<1> USE DEF OutboxInv
<1>1. /\ upload.at = "remove" /\ upload' = Idle
      /\ \/ Rewrite(Retained(upload.id))
         \/ LoseAll(Retained(upload.id))
         \/ UNCHANGED <<verdicts, damaged>>
      /\ UNCHANGED <<problemPage, verdictWrite, given, ghosts>>
  BY DEF RemoveVerdict, RewriteFails
<1>2. /\ effectReady' = effectReady /\ verdictCommit' = verdictCommit /\ verdictOp' = verdictOp
      /\ pendingVerdict' = pendingVerdict /\ given' = given /\ active' = active
      /\ problemMode' = problemMode /\ current' = current /\ set' = set
      /\ selected' = selected /\ applied' = applied /\ refused' = refused
      /\ told' = told /\ verdictWrite' = verdictWrite
  BY <1>1 DEF problemPage, ghosts
<1>3. Unheard' = Unheard /\ Known' = Known
  BY <1>2 DEF Unheard, Known
<1>4. VerdictsSound' /\ LostOnlyByDamage' /\ damaged \subseteq damaged'
  <2>1. Known \in Nat /\ given \in Nat
    BY DEF VerdictsSound
  <2>2. given' \in Nat /\ Known' \in Nat /\ Known' >= Known
    BY <1>2, <1>3, <2>1
  <2> QED BY <1>1, <1>2, <2>2, RewriteShrinks
<1>5. WriteSound' /\ PageSound' /\ WaitsOnItsProblem'
  BY <1>2 DEF WriteSound, PageSound, WaitsOnItsProblem
<1>6. AcknowledgedMeansDelivered'
  BY <1>2, <1>4 DEF AcknowledgedMeansDelivered
<1>7. UploadSound'
  BY <1>1 DEF UploadSound, Idle, Uploads
<1> QED BY <1>4, <1>5, <1>6, <1>7

\* The program starts again, with what the power loss left.
LEMMA VerdictPowerLossKeeps == OutboxInv /\ PowerLossOfVerdicts => OutboxInv'
<1> SUFFICES ASSUME OutboxInv, PowerLossOfVerdicts PROVE OutboxInv'
  OBVIOUS
<1> USE DEF OutboxInv
<1>1. /\ FreshProblemPage /\ verdictWrite' = NoWrite /\ upload' = Idle
      /\ given' = given /\ told' = told /\ applied' = applied /\ refused' = refused
  BY DEF PowerLossOfVerdicts, ghosts
<1>2. ~Unheard' /\ Known' = given
  BY <1>1 DEF Unheard, Known, FreshProblemPage, NoWrite
<1>3. given \in Nat /\ given' \in Nat /\ Known' \in Nat /\ Known' >= Known
  BY <1>1, <1>2 DEF VerdictsSound, Known
<1>4. VerdictCapacity \in Nat
  BY OutboxAssumption
<1>5. VerdictsSound' /\ LostOnlyByDamage' /\ damaged \subseteq damaged'
  <2>1. CASE UNCHANGED <<verdicts, damaged>>
    <3>1. VerdictsSound'
      BY <1>1, <1>3, <2>1, VerdictsStay
    <3> QED BY <1>1, <2>1, <3>1 DEF LostOnlyByDamage
  <2>2. CASE /\ verdictWrite.op # 0 /\ verdictWrite.result = "none"
             /\ ~Mentioned(verdictWrite.id) /\ Len(verdicts) < VerdictCapacity
             /\ \E t \in TornLine(verdictWrite.id) : verdicts' = AppendLine(verdicts, t)
             /\ UNCHANGED damaged
    <3>1. Unheard /\ verdictWrite.id = given /\ given # 0
      BY <2>2, WorkerHasNewest
    <3>2. PICK t \in TornLine(given) \cup {Line(given)} : verdicts' = AppendLine(verdicts, t)
      BY <2>2, <3>1
    <3>3. VerdictsSound' /\ Held(verdicts) \subseteq Held(verdicts')
      BY <1>1, <1>2, <1>4, <2>2, <3>1, <3>2, NewestAppended
    <3> QED BY <1>1, <2>2, <3>3 DEF LostOnlyByDamage
  <2>3. CASE upload.at = "remove" /\ LoseAll(Retained(upload.id))
    BY <1>1, <1>3, <2>3, RewriteShrinks
  <2> QED BY <2>1, <2>2, <2>3 DEF PowerLossOfVerdicts
<1>6. WriteSound' /\ PageSound' /\ WaitsOnItsProblem' /\ AcknowledgedMeansDelivered'
  BY <1>1 DEF WriteSound, PageSound, WaitsOnItsProblem, AcknowledgedMeansDelivered,
              FreshProblemPage, NoWrite, VerdictWrites
<1>7. UploadSound'
  BY <1>1 DEF UploadSound, Idle, Uploads
<1> QED BY <1>5, <1>6, <1>7

--------------------------------------------------------------------------------
(* The steps of the page *)

\* A step of the page that leaves the journal, the server and the worker alone.
LEMMA VerdictsOfPages ==
    ASSUME OutboxInv, PageStep, given' \in Nat, Known' \in Nat, Known' >= Known
    PROVE  VerdictsSound' /\ UploadSound' /\ LostOnlyByDamage'
<1>1. /\ verdicts' = verdicts /\ upload' = upload /\ told' = told /\ applied' = applied
      /\ refused' = refused /\ damaged' = damaged
  BY DEF PageStep, ghosts
<1>2. VerdictsSound'
  BY <1>1, VerdictsStay DEF OutboxInv
<1>3. UploadSound' /\ LostOnlyByDamage'
  BY <1>1 DEF OutboxInv, UploadSound, LostOnlyByDamage
<1> QED BY <1>2, <1>3

\* The steps of the page that have nothing to do with a commit.
LEMMA BrowsingKeeps ==
    ASSUME OutboxInv,
           \/ \E s \in 1..Sets : OpenSet(s)
           \/ \E i \in 1..Problems : MoveInList(i)
           \/ OpenProblem \/ ConfirmView \/ Escape
    PROVE  OutboxInv'
<1> USE DEF OutboxInv
<1>1. /\ PageStep /\ given' = given /\ verdictCommit' = verdictCommit
      /\ pendingVerdict' = pendingVerdict /\ effectReady' = effectReady
      /\ verdictOp' = verdictOp
  BY DEF OpenSet, MoveInList, OpenProblem, ConfirmView, Escape
<1>2. /\ verdictWrite' = verdictWrite /\ told' = told /\ applied' = applied
      /\ refused' = refused /\ damaged' = damaged
  BY <1>1 DEF PageStep, ghosts
<1>3. Unheard' = Unheard /\ Known' = Known
  BY <1>1, <1>2 DEF Unheard, Known
<1>4. VerdictsSound' /\ UploadSound' /\ LostOnlyByDamage'
  <2>1. Known \in Nat /\ given \in Nat
    BY DEF VerdictsSound
  <2>2. given' \in Nat /\ Known' \in Nat /\ Known' >= Known
    BY <1>1, <1>3, <2>1
  <2> QED BY <1>1, <2>2, VerdictsOfPages
<1>5. WriteSound' /\ AcknowledgedMeansDelivered'
  BY <1>1, <1>2 DEF WriteSound, AcknowledgedMeansDelivered
<1>6. PageSound' /\ WaitsOnItsProblem'
  <2>1. CASE \E s \in 1..Sets : OpenSet(s)
    BY <1>1, <1>2, <2>1 DEF OpenSet, PageSound, WaitsOnItsProblem
  <2>2. CASE \E i \in 1..Problems : MoveInList(i)
    BY <1>1, <1>2, <2>2 DEF MoveInList, PageSound, WaitsOnItsProblem
  <2>3. CASE OpenProblem
    BY <1>1, <1>2, <2>3 DEF OpenProblem, LoadCurrentProblem, PageSound, WaitsOnItsProblem
  <2>4. CASE ConfirmView
    BY <1>1, <1>2, <2>4 DEF ConfirmView, PageSound, WaitsOnItsProblem
  <2>5. CASE Escape
    BY <1>1, <1>2, <2>5 DEF Escape, MayLeave, PageSound, WaitsOnItsProblem
  <2> QED BY <2>1, <2>2, <2>3, <2>4, <2>5
<1> QED BY <1>4, <1>5, <1>6

\* A verdict is given a name that nobody knows yet.
LEMMA GiveKeeps == OutboxInv /\ GiveVerdict => OutboxInv'
<1> SUFFICES ASSUME OutboxInv, GiveVerdict PROVE OutboxInv'
  OBVIOUS
<1> USE DEF OutboxInv
<1>1. /\ active /\ problemMode = "verdict" /\ verdictCommit # "persisting" /\ current # NoProblem
      /\ given' = given + 1
      /\ pendingVerdict' = [id |-> given + 1, problem |-> current]
      /\ effectReady' = TRUE /\ verdictCommit' = "persisting" /\ problemMode' = "view"
      /\ active' = active /\ set' = set /\ selected' = selected /\ current' = current
      /\ verdictOp' = verdictOp /\ PageStep
  BY DEF GiveVerdict
<1>2. /\ verdictWrite' = verdictWrite /\ told' = told /\ applied' = applied
      /\ refused' = refused /\ damaged' = damaged
  BY <1>1 DEF PageStep, ghosts
<1>3. verdictWrite = NoWrite
  BY <1>1 DEF WriteSound
<1>4. Known' = given /\ given \in Nat
  BY <1>1 DEF Unheard, Known, VerdictsSound
<1>5. given' \in Nat /\ Known' \in Nat /\ Known' >= Known
  BY <1>1, <1>4 DEF VerdictsSound, Known
<1>6. VerdictsSound' /\ UploadSound' /\ LostOnlyByDamage'
  BY <1>1, <1>5, VerdictsOfPages
<1>7. WriteSound'
  BY <1>1, <1>2, <1>3, <1>4 DEF WriteSound
<1>8. PageSound' /\ WaitsOnItsProblem' /\ AcknowledgedMeansDelivered'
  BY <1>1 DEF PageSound, WaitsOnItsProblem, AcknowledgedMeansDelivered
<1> QED BY <1>6, <1>7, <1>8

\* The verdict goes to the worker.
LEMMA PumpKeeps == OutboxInv /\ PumpVerdictCommit => OutboxInv'
<1> SUFFICES ASSUME OutboxInv, PumpVerdictCommit PROVE OutboxInv'
  OBVIOUS
<1> USE DEF OutboxInv
<1>1. /\ effectReady /\ effectReady' = FALSE /\ verdictOp' = pendingVerdict.id
      /\ verdictWrite' = [op |-> pendingVerdict.id, id |-> pendingVerdict.id, result |-> "none"]
      /\ active' = active /\ problemMode' = problemMode /\ set' = set /\ selected' = selected
      /\ current' = current /\ verdictCommit' = verdictCommit
      /\ pendingVerdict' = pendingVerdict /\ verdicts' = verdicts /\ upload' = upload
      /\ given' = given /\ told' = told /\ applied' = applied /\ refused' = refused
      /\ damaged' = damaged
  BY DEF PumpVerdictCommit, ghosts
<1>2. verdictCommit = "persisting" /\ pendingVerdict.id = given /\ given # 0 /\ given \in Nat
  BY <1>1 DEF WriteSound, VerdictsSound
<1>3. Unheard /\ Unheard' /\ Known' = Known
  BY <1>1, <1>2 DEF Unheard, Known
<1>4. VerdictsSound'
  <2>1. Known \in Nat
    BY DEF VerdictsSound
  <2> QED BY <1>1, <1>2, <1>3, <2>1, VerdictsStay
<1>5. UploadSound' /\ LostOnlyByDamage' /\ AcknowledgedMeansDelivered' /\ PageSound'
  BY <1>1 DEF UploadSound, LostOnlyByDamage, AcknowledgedMeansDelivered, PageSound
<1>6. WriteSound'
  BY <1>1, <1>2 DEF WriteSound, VerdictWrites
<1>7. WaitsOnItsProblem'
  BY <1>1, <1>2 DEF WaitsOnItsProblem
<1> QED BY <1>4, <1>5, <1>6, <1>7

\* The page hears of its verdict.
LEMMA TakeVerdictKeeps == OutboxInv /\ TakeVerdictResult => OutboxInv'
<1> SUFFICES ASSUME OutboxInv, TakeVerdictResult PROVE OutboxInv'
  OBVIOUS
<1> USE DEF OutboxInv
<1>1. /\ verdictWrite.result # "none" /\ verdictWrite' = NoWrite
      /\ verdicts' = verdicts /\ upload' = upload /\ given' = given /\ told' = told
      /\ applied' = applied /\ refused' = refused /\ damaged' = damaged
  BY DEF TakeVerdictResult, ghosts
<1>2. verdictWrite # NoWrite
  BY <1>1 DEF NoWrite
<1>3. /\ verdictCommit = "persisting" /\ ~effectReady /\ verdictOp = verdictWrite.op
  BY <1>2 DEF WriteSound
<1>4. /\ verdictOp' = 0 /\ active' = active /\ set' = set /\ effectReady' = effectReady
      /\ IF verdictWrite.result = "ok"
         THEN /\ pendingVerdict' = NoVerdict /\ verdictCommit' = "cloudPending"
              /\ AdvanceAfterVerdict
         ELSE /\ verdictCommit' = "failed"
              /\ UNCHANGED <<pendingVerdict, problemMode, selected, current, unlocked>>
  BY <1>3 DEF TakeVerdictResult
<1>5. ~Unheard /\ ~Unheard' /\ Known' = Known
  BY <1>1, <1>3, <1>4 DEF Unheard, Known, NoWrite
<1>6. VerdictsSound'
  <2>1. Known \in Nat /\ given \in Nat
    BY DEF VerdictsSound
  <2> QED BY <1>1, <1>5, <2>1, VerdictsStay
<1>7. UploadSound' /\ LostOnlyByDamage'
  BY <1>1 DEF UploadSound, LostOnlyByDamage
<1>8. WriteSound' /\ AcknowledgedMeansDelivered' /\ WaitsOnItsProblem'
  BY <1>1, <1>3, <1>4 DEF WriteSound, NoWrite, VerdictWrites, AcknowledgedMeansDelivered,
                          WaitsOnItsProblem
<1>9. PageSound'
  <2>1. active /\ problemMode = "view"
    BY <1>3 DEF WaitsOnItsProblem
  <2>2. CASE verdictWrite.result = "ok"
    BY <1>4, <2>1, <2>2 DEF AdvanceAfterVerdict, LoadCurrentProblem, PageSound
  <2>3. CASE verdictWrite.result # "ok"
    BY <1>4, <2>1, <2>3 DEF PageSound
  <2> QED BY <2>2, <2>3
<1> QED BY <1>6, <1>7, <1>8, <1>9

\* An empty journal acknowledges.
LEMMA RefreshKeeps == OutboxInv /\ RefreshOutboxState => OutboxInv'
<1> SUFFICES ASSUME OutboxInv, RefreshOutboxState PROVE OutboxInv'
  OBVIOUS
<1> USE DEF OutboxInv
<1>1. /\ verdictCommit # "persisting" /\ verdictWrite = NoWrite /\ Records = {}
      /\ verdictCommit' = "cloudAcknowledged"
      /\ active' = active /\ problemMode' = problemMode /\ set' = set /\ selected' = selected
      /\ current' = current /\ pendingVerdict' = pendingVerdict
      /\ effectReady' = effectReady /\ verdictOp' = verdictOp /\ given' = given /\ PageStep
  BY DEF RefreshOutboxState
<1>2. /\ verdictWrite' = verdictWrite /\ told' = told /\ applied' = applied
      /\ refused' = refused /\ damaged' = damaged
  BY <1>1 DEF PageStep, ghosts
<1>3. Unheard' = Unheard /\ Known' = Known
  BY <1>1, <1>2 DEF Unheard, Known
<1>4. VerdictsSound' /\ UploadSound' /\ LostOnlyByDamage'
  <2>1. Known \in Nat /\ given \in Nat
    BY DEF VerdictsSound
  <2>2. given' \in Nat /\ Known' \in Nat /\ Known' >= Known
    BY <1>1, <1>3, <2>1
  <2> QED BY <1>1, <2>2, VerdictsOfPages
<1>5. ~effectReady
  BY <1>1 DEF WriteSound
<1>6. WriteSound' /\ PageSound' /\ WaitsOnItsProblem'
  BY <1>1, <1>2, <1>5 DEF WriteSound, PageSound, WaitsOnItsProblem
<1>7. Held(verdicts) = {}
  BY <1>1 DEF Records, Held
<1>8. AcknowledgedMeansDelivered'
  BY <1>2, <1>7 DEF AcknowledgedMeansDelivered, LostOnlyByDamage
<1> QED BY <1>4, <1>6, <1>8

\* It holds when the program starts.
LEMMA OutboxStarts == OutboxInit => OutboxInv
<1> SUFFICES ASSUME OutboxInit PROVE OutboxInv
  OBVIOUS
<1> USE DEF OutboxInit
<1>1. Known = 0 /\ VerdictCapacity \in Nat
  BY OutboxAssumption DEF Known, Unheard, NoWrite
<1>2. VerdictsSound
  <2>1. verdicts \in Seq(LinesUpTo(Known)) /\ applied \in Seq(1..Known)
    BY EmptySeq
  <2>2. Len(verdicts) <= VerdictCapacity /\ Len(applied) = 0
    BY <1>1, EmptySeq
  <2>3. InOrder(verdicts) /\ NoneBefore(applied, verdicts)
    BY NoLines
  <2>4. DeliveredInOrder
    BY <2>2 DEF DeliveredInOrder
  <2>5. given \in Nat /\ Known \in Nat
    BY <1>1
  <2> QED BY <2>1, <2>2, <2>3, <2>4, <2>5 DEF VerdictsSound
<1>3. UploadSound
  BY DEF UploadSound, Uploads, Idle
<1>4. WriteSound
  BY DEF WriteSound, VerdictWrites, NoWrite
<1>5. PageSound /\ LostOnlyByDamage /\ AcknowledgedMeansDelivered /\ WaitsOnItsProblem
  BY DEF PageSound, LostOnlyByDamage, AcknowledgedMeansDelivered, WaitsOnItsProblem
<1> QED BY <1>2, <1>3, <1>4, <1>5 DEF OutboxInv

\* A step that leaves everything alone leaves it.
LEMMA OutboxStutters == OutboxInv /\ UNCHANGED outboxVars => OutboxInv'
<1> SUFFICES ASSUME OutboxInv, UNCHANGED outboxVars PROVE OutboxInv'
  OBVIOUS
<1>1. /\ effectReady' = effectReady /\ verdictCommit' = verdictCommit /\ verdictOp' = verdictOp
      /\ pendingVerdict' = pendingVerdict /\ given' = given /\ active' = active
      /\ problemMode' = problemMode /\ current' = current /\ set' = set
      /\ selected' = selected /\ applied' = applied /\ refused' = refused
      /\ told' = told /\ damaged' = damaged /\ verdicts' = verdicts /\ upload' = upload
      /\ verdictWrite' = verdictWrite
  BY DEF outboxVars, problemPage, ghosts
<1>2. Known' = Known /\ Known \in Nat /\ given' \in Nat
  BY <1>1 DEF Known, Unheard, OutboxInv, VerdictsSound
<1>3. VerdictsSound'
  BY <1>1, <1>2, VerdictsStay DEF OutboxInv
<1> QED BY <1>1, <1>3 DEF OutboxInv, UploadSound, WriteSound, PageSound, LostOnlyByDamage,
                          AcknowledgedMeansDelivered, WaitsOnItsProblem

\* Every recorded verdict is in the journal or was answered (or a cut rewrite, a torn line
\* or an answer nobody could read took it), the server gets verdicts in the order they were
\* given, the page waits on the problem of its verdict and claims no delivery too early:
\* for any number of sets, problems, verdicts and faults, and any capacity.
THEOREM VerdictsAreAccounted == OutboxSpec => []VerdictsAccounted
<1>1. OutboxInit => OutboxInv
  BY OutboxStarts
<1>2. OutboxInv /\ [OutboxNext]_outboxVars => OutboxInv'
  <2> SUFFICES ASSUME OutboxInv, [OutboxNext]_outboxVars PROVE OutboxInv'
    OBVIOUS
  <2>1. CASE \/ \E s \in 1..Sets : OpenSet(s)
             \/ \E i \in 1..Problems : MoveInList(i)
             \/ OpenProblem \/ ConfirmView \/ Escape
    BY <2>1, BrowsingKeeps
  <2>2. CASE GiveVerdict
    BY <2>2, GiveKeeps
  <2>3. CASE PumpVerdictCommit \/ TakeVerdictResult \/ RefreshOutboxState
    BY <2>3, PumpKeeps, TakeVerdictKeeps, RefreshKeeps
  <2>4. CASE PersistVerdict \/ PeekVerdict \/ SubmitVerdict
    BY <2>4, PersistVerdictKeeps, PeekKeeps, SubmitKeeps
  <2>5. CASE RemoveVerdict \/ PowerLossOfVerdicts
    BY <2>5, RemoveKeeps, VerdictPowerLossKeeps
  <2>6. CASE UNCHANGED outboxVars
    BY <2>6, OutboxStutters
  <2> QED BY <2>1, <2>2, <2>3, <2>4, <2>5, <2>6 DEF OutboxNext
<1>3. OutboxInv => VerdictsAccounted
  BY DEF OutboxInv, VerdictsSound, VerdictsAccounted
<1> QED BY <1>1, <1>2, <1>3, PTL DEF OutboxSpec
================================================================================
