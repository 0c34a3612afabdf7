----------------------------- MODULE OwnerTaskProofs -----------------------------
(***************************************************************************)
(* Proofs about the services of which one task owns everything and is      *)
(* called through a queue: the audio service, for any finite number of     *)
(* clients and workers, any slots, any depth of the reply queue, and the   *)
(* connectivity service, for any depths of its queues and any retry limit, *)
(* both for any number of requests, sleeps and failures.                   *)
(*                                                                         *)
(* Audio, clients.  That a reply with the id of the call was made for that *)
(* call rests on the order of the ids: replies, the command at hand, the   *)
(* queue (Line).  What the reply says is true of the session there is now  *)
(* (Answered), since only the owner of a session can end it and does so by *)
(* the call that waits, or by one it gave up (Ended).  The rollback that   *)
(* undoes a preparation is still owed or is queued behind it (Restored).   *)
(*                                                                         *)
(* Audio, resources.  Exact counts need the sets they count (Counted); a   *)
(* resource stays while it is used because it is closed by one operation   *)
(* only, and freed when its users are none (Locked); the rail stays while  *)
(* a session is there, and an operation begins only with one (Work).       *)
(*                                                                         *)
(* Connectivity.  A prepare that was promised has no rollback before it or *)
(* behind it, by the order of the ids (Ordered, Quiet); a session of the   *)
(* portal meets no station, and no sleep that was not forced (Portal,      *)
(* Spared).  The last news of the link in the event loop, then in the      *)
(* queue, is true, and a start of the station is never the last (Air,      *)
(* Posted).                                                                *)
(***************************************************************************)
EXTENDS AudioService, Connectivity, FiniteSetTheorems, SequenceTheorems, TLAPS

--------------------------------------------------------------------------------
(* The audio service *)

ClientTypes == {"begin", "end", "amp", "recover"}
PowerTypes == {"prepare", "rollback"}
Commands == [id : Nat \ {0}, type : ClientTypes \cup PowerTypes, from : Callers,
             session : Nat, gen : Nat, forced : BOOLEAN]
Answers == [id : Nat \ {0}, ok : BOOLEAN, session : Nat]
Places == {"wait", "endDrain", "endCheck", "recover", "sleepDrain", "cut"}
Kinds == {"register", "use", "close"}
Operations == [at : {"out", "counting", "io"}, kind : Kinds \cup {None}, session : Nat,
               slot : AudioSlots \cup {0}]
Resources == [owner : Nat, inflight : Nat, closing : BOOLEAN]
Preparations == [gen : Nat, forced : BOOLEAN, previous : {"idle", "active"}]
Sleeps == [at : {"awake", "prepare", "ready", "rollback"}, gen : Nat, forced : BOOLEAN]

\* The commands that are not answered yet.
Pending == {queue[i] : i \in 1..Len(queue)} \cup ({command} \ {NoCommand})

\* A caller that waits has sent the last command, the power task for its transaction.
Calls ==
    /\ caller \in Callers \cup {None} /\ sent \in Commands \cup {NoCommand}
    /\ audioRequests \in 0..MaxRequests /\ token \in [AudioClients -> Nat]
    /\ sleep \in Sleeps /\ late \subseteq Nat
    /\ caller = None <=> sent = NoCommand
    /\ caller # None => sent.from = caller /\ sent.id = audioRequests
    /\ caller = Power => sent.type \in PowerTypes /\ sleep.at = sent.type /\ sent.gen = sleep.gen
    /\ caller \in AudioClients => sent.type \in ClientTypes /\ sent.session = token[caller]

\* Ids grow from the replies over the command at hand to the end of the queue, and
\* one of them names one command.
Line ==
    /\ queue \in Seq(Commands) /\ command \in Commands \cup {NoCommand}
    /\ replies \in Seq(Answers) /\ Len(replies) <= ReplyDepth
    /\ sessions \in Nat /\ sessions + Len(queue) <= audioRequests
    /\ \A i, j \in 1..Len(queue) : i < j => queue[i].id < queue[j].id
    /\ command # NoCommand => \A i \in 1..Len(queue) : command.id < queue[i].id
    /\ \A c \in Pending : c.id <= audioRequests /\ (c.id = sent.id => c = sent)
    /\ \A k \in 1..Len(replies), c \in Pending : replies[k].id < c.id

\* The state of the service says whether there is a session, and the place of the
\* owner task what it may rely on.
Work ==
    /\ audioPc \in Places /\ state \in {"idle", "active", "quiescing"}
    /\ session \in 0..sessions /\ prepared \in Preparations
    /\ maker \in Seq(Callers) /\ Len(maker) = sessions
    /\ audioPc = "wait" <=> command = NoCommand
    /\ audioPc \in {"endDrain", "endCheck"} => command.type = "end" /\ command.session = session
    /\ audioPc = "recover" => command.type = "recover"
    /\ audioPc \in {"sleepDrain", "cut"} =>
          command.type = "prepare" /\ state # "quiescing" /\ (command.forced \/ state = "idle")
    /\ audioPc = "cut" => command.forced \/ inflight = 0
    /\ state = "idle" => session = 0
    /\ state = "active" => session # 0
    /\ state = "quiescing" =>
          /\ prepared.previous = "idle" <=> session = 0
          /\ prepared.forced \/ session = 0
    /\ lock # None => session # 0

\* The lock is held by the operation that counts; one that is counted keeps its
\* resource, and a resource that closes has one that closes it.
Locked ==
    /\ lock \in Actors \cup {None} /\ driverOp \in [Actors -> Operations]
    /\ slots \in [AudioSlots -> Resources]
    /\ \A a \in Actors : lock = a <=> driverOp[a].at = "counting"
    /\ \A a \in Actors : driverOp[a].at # "out" =>
          /\ driverOp[a].kind \in Kinds /\ driverOp[a].session # 0
          /\ driverOp[a].kind # "register" =>
                /\ driverOp[a].slot \in AudioSlots
                /\ slots[driverOp[a].slot].owner = driverOp[a].session
                /\ driverOp[a].at = "counting" => ~slots[driverOp[a].slot].closing
          /\ driverOp[a].at = "io" /\ driverOp[a].kind = "close" =>
                slots[driverOp[a].slot].closing
    /\ \A a, b \in Actors :
          /\ driverOp[a].at = "io" /\ driverOp[a].kind = "close"
          /\ driverOp[b].at = "io" /\ driverOp[b].kind = "close"
          /\ driverOp[a].slot = driverOp[b].slot
          => a = b

Users(i) == {a \in InIo : driverOp[a].slot = i /\ driverOp[a].kind = "use"}

Counted ==
    /\ inflight \in Nat /\ inflight = Cardinality(InIo)
    /\ \A i \in AudioSlots : slots[i].inflight = Cardinality(Users(i))

\* A reply to the call that waits is true.
Answered ==
    \A k \in 1..Len(replies) : replies[k].id = sent.id =>
        /\ sent.type = "begin" /\ replies[k].ok =>
              replies[k].session = session /\ session # 0 /\ maker[session] = caller
        /\ sent.type = "end" /\ replies[k].ok => replies[k].session = 0
        /\ sent.type = "end" /\ ~replies[k].ok => sent.session \in late \cup {session}

\* An End is of the client the session was made for, who waits for it or is late.
Ended ==
    \A c \in Pending : c.type = "end" =>
        /\ c.session \in 1..sessions /\ maker[c.session] = c.from
        /\ c.session \in late \/ (c.id = sent.id /\ c.session = session)

Tokens ==
    /\ \A c \in AudioClients : token[c] <= sessions
    /\ TokenIsOwn /\ TokenGoesStaleOnlyLate

\* The power task has still to undo a preparation, or its rollback is on the way
\* behind it.
Owed(gen) == gen = sleep.gen /\ sleep.at # "awake" /\ sent.type # "rollback"
Undone(gen, id) == \E c \in Pending : c.type = "rollback" /\ c.gen = gen /\ id < c.id
Healthy == ~lost /\ audioFailures = 0

Restored ==
    /\ audioFailures \in Nat
    /\ Healthy /\ state = "quiescing" => Owed(prepared.gen) \/ Undone(prepared.gen, 0)
    /\ Healthy => \A c \in Pending : c.type = "prepare" => Owed(c.gen) \/ Undone(c.gen, c.id)

AudioInv ==
    /\ Calls /\ Line /\ Work /\ Locked /\ Counted /\ ResourcesCovered /\ NoIoOnCutRail
    /\ Answered /\ Ended /\ Tokens /\ Restored

--------------------------------------------------------------------------------
(* Lemmas *)

\* The names of the callers are apart from the actors.
LEMMA Names ==
    /\ None # Power /\ None \notin Actors /\ Power \notin Actors
    /\ Callers = AudioClients \cup {Power} /\ AudioClients \subseteq Actors
    /\ None \notin Callers /\ Power \notin AudioClients
    /\ ReplyDepth \in Nat /\ MaxRequests \in Nat
BY ConstantsAssumption DEF None, Power, Callers, Actors

\* The operations under way are finitely many, as their actors are.
LEMMA ActorsFinite == IsFiniteSet(Actors)
BY ConstantsAssumption, FS_Union DEF Actors

\* The invariant gives the two properties.
LEMMA InvImplies ==
    ASSUME AudioInv
    PROVE  ResourcesSound /\ ClientsServed
<1>1. AudioTyped
  <2>1. {session, sessions} \subseteq 0..MaxRequests /\ Len(replies) <= ReplyDepth
    BY Names DEF AudioInv, Line, Work, Calls
  <2> QED BY <2>1 DEF AudioInv, AudioTyped, Work, Calls, Counted, Users
<1>2. NoUseAfterClose
  BY DEF AudioInv, NoUseAfterClose, Locked, InIo
<1>3. RollbackRestoresService
  <2> SUFFICES ASSUME sleep.at = "awake", queue = <<>>, audioPc = "wait", state = "quiescing",
                      ~lost, ~(audioFailures > 0)
               PROVE  FALSE
    BY DEF RollbackRestoresService
  <2>1. Pending = {}
    BY DEF AudioInv, Work, Pending
  <2>2. audioFailures = 0
    BY DEF AudioInv, Restored
  <2> QED BY <2>1, <2>2 DEF AudioInv, Restored, Healthy, Owed, Undone
<1> QED BY <1>1, <1>2, <1>3
        DEF AudioInv, ResourcesSound, ClientsServed, Tokens

\* A command is taken from the head of the queue.
LEMMA HeadOfLine ==
    ASSUME Line, queue # <<>>
    PROVE  /\ Head(queue) = queue[1] /\ Head(queue) \in Commands /\ Head(queue) \in Pending
           /\ Tail(queue) \in Seq(Commands) /\ Len(Tail(queue)) = Len(queue) - 1
           /\ \A i \in 1..Len(Tail(queue)) :
                 i + 1 \in 1..Len(queue) /\ Tail(queue)[i] = queue[i + 1]
           /\ 1 \in 1..Len(queue) /\ Len(queue) \in Nat
<1>1. queue \in Seq(Commands)
  BY DEF Line
<1>2. /\ Head(queue) = queue[1] /\ Tail(queue) \in Seq(Commands)
      /\ Len(Tail(queue)) = Len(queue) - 1
      /\ \A i \in 1..Len(Tail(queue)) : Tail(queue)[i] = queue[i + 1]
  BY <1>1, HeadTailProperties
<1>3. Len(queue) \in Nat /\ 1 \in 1..Len(queue)
  BY <1>1, EmptySeq
<1>4. Head(queue) \in Commands
  BY <1>1, <1>2, <1>3
<1> QED BY <1>2, <1>3, <1>4 DEF Pending

\* What is pending is a command.
LEMMA PendingCommands ==
    ASSUME Line
    PROVE  Pending \subseteq Commands
<1>1. queue \in Seq(Commands) /\ command \in Commands \cup {NoCommand}
  BY DEF Line
<1>2. \A i \in 1..Len(queue) : queue[i] \in Commands
  BY <1>1
<1> QED BY <1>1, <1>2 DEF Pending

\* What a command leaves when it is answered: the others, which are younger, and at
\* most its own reply for the call that waits.
Served(h, ok, made) ==
    /\ h \in Pending /\ h \in Commands /\ Pending' = Pending \ {h}
    /\ \A c \in Pending' : h.id < c.id
    /\ \A k \in 1..Len(replies') : replies'[k].id = sent.id =>
          h = sent /\ replies'[k].ok = ok /\ replies'[k].session = made

\* The reply to a command, if there is room for it.
LEMMA RepliesGrow ==
    ASSUME Line, NEW h \in Commands, NEW ok \in BOOLEAN, NEW made \in Nat, Reply(h, ok, made)
    PROVE  /\ replies' \in Seq(Answers) /\ Len(replies') <= ReplyDepth
           /\ \A k \in 1..Len(replies') :
                 \/ k \in 1..Len(replies) /\ replies'[k] = replies[k]
                 \/ replies'[k].id = h.id /\ replies'[k].ok = ok /\ replies'[k].session = made
<1>1. replies \in Seq(Answers) /\ Len(replies) <= ReplyDepth /\ ReplyDepth \in Nat
  BY Names DEF Line
<1>2. CASE Len(replies) < ReplyDepth
  <2> DEFINE r == [id |-> h.id, ok |-> ok, session |-> made]
  <2>1. replies' = Append(replies, r) /\ r \in Answers
    BY <1>2 DEF Reply, Answers, Commands
  <2>2. /\ replies' \in Seq(Answers) /\ Len(replies') = Len(replies) + 1
        /\ \A k \in 1..Len(replies) : replies'[k] = replies[k]
        /\ replies'[Len(replies) + 1] = r
    BY <1>1, <2>1, AppendProperties
  <2>3. Len(replies) \in Nat
    BY <1>1
  <2> QED BY <1>1, <1>2, <2>2, <2>3
<1>3. CASE ~(Len(replies) < ReplyDepth)
  BY <1>1, <1>3 DEF Reply
<1> QED BY <1>2, <1>3

\* The head of the queue is answered at once.
LEMMA HeadServed ==
    ASSUME Line, queue # <<>>, command = NoCommand, NEW ok \in BOOLEAN, NEW made \in Nat,
           queue' = Tail(queue), command' = NoCommand, Reply(Head(queue), ok, made),
           audioRequests' = audioRequests, sent' = sent, Calls,
           sessions' \in {sessions, sessions + 1}
    PROVE  Line' /\ Served(Head(queue), ok, made)
<1> DEFINE h == Head(queue)
<1>1. /\ h = queue[1] /\ h \in Commands /\ h \in Pending
      /\ queue' \in Seq(Commands) /\ Len(queue') = Len(queue) - 1
      /\ \A i \in 1..Len(queue') : i + 1 \in 1..Len(queue) /\ queue'[i] = queue[i + 1]
      /\ 1 \in 1..Len(queue) /\ Len(queue) \in Nat
  BY HeadOfLine
<1>2. /\ replies' \in Seq(Answers) /\ Len(replies') <= ReplyDepth
      /\ \A k \in 1..Len(replies') :
            \/ k \in 1..Len(replies) /\ replies'[k] = replies[k]
            \/ replies'[k].id = h.id /\ replies'[k].ok = ok /\ replies'[k].session = made
  BY <1>1, RepliesGrow
<1>3. \A i \in 1..Len(queue) : queue[i] \in Commands
  BY DEF Line
<1>4. Pending = {queue[i] : i \in 1..Len(queue)}
  BY DEF Pending
<1>5. Pending' = {queue'[i] : i \in 1..Len(queue')}
  BY DEF Pending
<1>6. \A i \in 1..Len(queue) : i # 1 => i - 1 \in 1..Len(queue') /\ queue'[i - 1] = queue[i]
  BY <1>1
<1>7. \A c \in Pending' : c \in Pending /\ h.id < c.id /\ c \in Commands
  <2> SUFFICES ASSUME NEW i \in 1..Len(queue')
               PROVE  queue'[i] \in Pending /\ h.id < queue'[i].id /\ queue'[i] \in Commands
    BY <1>5
  <2>1. i + 1 \in 1..Len(queue) /\ queue'[i] = queue[i + 1] /\ 1 < i + 1
    BY <1>1
  <2> QED BY <1>1, <1>3, <1>4, <2>1 DEF Line
<1>8. Pending' = Pending \ {h}
  <2>1. \A c \in Pending : c # h => c \in Pending'
    BY <1>1, <1>4, <1>5, <1>6
  <2>2. \A c \in Pending' : c # h
    BY <1>1, <1>7 DEF Commands
  <2> QED BY <1>7, <2>1, <2>2
<1>9. Line'
  <2>1. sessions' \in Nat /\ sessions' + Len(queue') <= audioRequests'
    BY <1>1 DEF Line, Calls
  <2>2. ASSUME NEW i \in 1..Len(queue'), NEW j \in 1..Len(queue'), i < j
        PROVE  queue'[i].id < queue'[j].id
    <3>1. i + 1 \in 1..Len(queue) /\ j + 1 \in 1..Len(queue) /\ i + 1 < j + 1
      BY <1>1, <2>2
    <3>2. queue'[i] = queue[i + 1] /\ queue'[j] = queue[j + 1]
      BY <1>1
    <3> QED BY <3>1, <3>2 DEF Line
  <2>3. \A c \in Pending' : c.id <= audioRequests' /\ (c.id = sent'.id => c = sent')
    BY <1>7 DEF Line
  <2>4. \A k \in 1..Len(replies'), c \in Pending' : replies'[k].id < c.id
    BY <1>2, <1>7 DEF Line
  <2> QED BY <1>1, <1>2, <2>1, <2>2, <2>3, <2>4 DEF Line
<1>10. ASSUME NEW k \in 1..Len(replies'), replies'[k].id = sent.id
       PROVE  h = sent /\ replies'[k].ok = ok /\ replies'[k].session = made
  <2>1. CASE k \in 1..Len(replies) /\ replies'[k] = replies[k]
    <3>1. sent.id < h.id
      BY <1>1, <1>10, <2>1 DEF Line
    <3>2. replies[k] \in Answers
      BY <2>1 DEF Line
    <3>3. h.id <= audioRequests /\ replies[k].id # 0
      BY <1>1, <3>2 DEF Line, Answers
    <3>4. sent.id = audioRequests
      BY <1>10, <2>1, <3>3 DEF Calls, NoCommand
    <3> QED BY <1>1, <3>1, <3>3, <3>4 DEF Commands, Calls
  <2>2. CASE replies'[k].id = h.id /\ replies'[k].ok = ok /\ replies'[k].session = made
    BY <1>1, <1>10, <2>2 DEF Line
  <2> QED BY <1>2, <2>1, <2>2
<1> QED BY <1>1, <1>7, <1>8, <1>9, <1>10 DEF Served

\* The command at hand is answered.
LEMMA CommandServed ==
    ASSUME Line, Calls, command # NoCommand, NEW ok \in BOOLEAN, NEW made \in Nat,
           queue' = queue, command' = NoCommand, Reply(command, ok, made),
           audioRequests' = audioRequests, sent' = sent, sessions' = sessions
    PROVE  Line' /\ Served(command, ok, made)
<1> DEFINE h == command
<1>1. h \in Commands /\ h \in Pending /\ h.id <= audioRequests
  BY DEF Line, Pending
<1>2. /\ replies' \in Seq(Answers) /\ Len(replies') <= ReplyDepth
      /\ \A k \in 1..Len(replies') :
            \/ k \in 1..Len(replies) /\ replies'[k] = replies[k]
            \/ replies'[k].id = h.id /\ replies'[k].ok = ok /\ replies'[k].session = made
  BY <1>1, RepliesGrow
<1>3. Pending = {queue[i] : i \in 1..Len(queue)} \cup {h}
  BY DEF Pending
<1>4. Pending' = {queue[i] : i \in 1..Len(queue)}
  BY DEF Pending
<1>5. \A c \in Pending' : c \in Pending /\ h.id < c.id
  BY <1>3, <1>4 DEF Line
<1>6. Pending' = Pending \ {h}
  BY <1>1, <1>3, <1>4, <1>5 DEF Commands
<1>7. Line'
  <2>1. \A c \in Pending' : c.id <= audioRequests' /\ (c.id = sent'.id => c = sent')
    BY <1>5 DEF Line
  <2>2. \A k \in 1..Len(replies'), c \in Pending' : replies'[k].id < c.id
    BY <1>2, <1>5 DEF Line
  <2> QED BY <1>2, <2>1, <2>2 DEF Line
<1>8. ASSUME NEW k \in 1..Len(replies'), replies'[k].id = sent.id
      PROVE  h = sent /\ replies'[k].ok = ok /\ replies'[k].session = made
  <2>1. CASE k \in 1..Len(replies) /\ replies'[k] = replies[k]
    <3>1. replies[k] \in Answers
      BY <2>1 DEF Line
    <3>2. sent.id < h.id /\ replies[k].id # 0
      BY <1>1, <1>8, <2>1, <3>1 DEF Line, Answers
    <3>3. sent.id = audioRequests
      BY <1>8, <2>1, <3>2 DEF Calls, NoCommand
    <3> QED BY <1>1, <3>2, <3>3 DEF Commands, Calls
  <2>2. CASE replies'[k].id = h.id /\ replies'[k].ok = ok /\ replies'[k].session = made
    BY <1>1, <1>8, <2>2 DEF Line
  <2> QED BY <1>2, <2>1, <2>2
<1> QED BY <1>1, <1>5, <1>6, <1>7, <1>8 DEF Served

\* The head of the queue becomes the command at hand.
LEMMA HeadTaken ==
    ASSUME Line, queue # <<>>, command = NoCommand, queue' = Tail(queue),
           command' = Head(queue), replies' = replies,
           audioRequests' = audioRequests, sent' = sent, sessions' = sessions,
           audioRequests \in Nat
    PROVE  Line' /\ Pending' = Pending /\ Head(queue) \in Commands /\ Head(queue) \in Pending
           /\ command' # NoCommand
<1> DEFINE h == Head(queue)
<1>1. /\ h = queue[1] /\ h \in Commands /\ h \in Pending
      /\ queue' \in Seq(Commands) /\ Len(queue') = Len(queue) - 1
      /\ \A i \in 1..Len(queue') : i + 1 \in 1..Len(queue) /\ queue'[i] = queue[i + 1]
      /\ 1 \in 1..Len(queue) /\ Len(queue) \in Nat
  BY HeadOfLine
<1>2. h # NoCommand
  BY <1>1 DEF Commands, NoCommand
<1>3. Pending = {queue[i] : i \in 1..Len(queue)}
  BY DEF Pending
<1>4. Pending' = {queue'[i] : i \in 1..Len(queue')} \cup {h}
  BY <1>2 DEF Pending
<1>5. \A i \in 1..Len(queue) : i # 1 => i - 1 \in 1..Len(queue') /\ queue'[i - 1] = queue[i]
  BY <1>1
<1>6. Pending' = Pending
  <2>1. \A c \in Pending' : c \in Pending
    BY <1>1, <1>3, <1>4
  <2>2. \A c \in Pending : c \in Pending'
    BY <1>1, <1>3, <1>4, <1>5
  <2> QED BY <2>1, <2>2
<1>7. \A i, j \in 1..Len(queue') : i < j => queue'[i].id < queue'[j].id
  BY <1>1 DEF Line
<1>8. \A i \in 1..Len(queue') : h.id < queue'[i].id
  BY <1>1 DEF Line
<1>9. sessions + Len(queue') <= audioRequests
  BY <1>1 DEF Line
<1> QED BY <1>1, <1>2, <1>6, <1>7, <1>8, <1>9 DEF Line

--------------------------------------------------------------------------------
(* The owner task *)

\* An answer that makes no session and ends none leaves the clients' view true.
LEMMA ServedKeeps ==
    ASSUME AudioInv, NEW h, NEW ok \in BOOLEAN, NEW made, Served(h, ok, made),
           ok => h.type \notin {"begin", "end"},
           UNCHANGED <<caller, sent, token, late, session, sessions, maker>>
    PROVE  Answered' /\ Ended' /\ Tokens'
<1>1. \A c \in Pending' : c \in Pending
  BY DEF Served
<1>2. Ended'
  BY <1>1 DEF AudioInv, Ended
<1>3. Tokens'
  BY DEF AudioInv, Tokens, TokenIsOwn, TokenGoesStaleOnlyLate
<1>4. ASSUME NEW k \in 1..Len(replies'), replies'[k].id = sent.id
      PROVE  /\ ~(sent.type = "begin" /\ replies'[k].ok)
             /\ ~(sent.type = "end" /\ replies'[k].ok)
             /\ sent.type = "end" => sent.session \in late \cup {session}
  <2>1. h = sent /\ replies'[k].ok = ok /\ h \in Pending
    BY <1>4 DEF Served
  <2>2. sent.type = "end" => sent.session \in late \cup {session}
    BY <2>1 DEF AudioInv, Ended
  <2> QED BY <2>1, <2>2
<1>5. Answered'
  BY <1>4 DEF Answered
<1> QED BY <1>2, <1>3, <1>5

\* An answer that prepares nothing, and takes no rollback of what is prepared, leaves
\* every preparation its rollback.
LEMMA ServedRestores ==
    ASSUME AudioInv, NEW h, NEW ok, NEW made, Served(h, ok, made),
           UNCHANGED <<sent, sleep, lost>>,
           audioFailures' \in Nat, audioFailures <= audioFailures',
           state' = "quiescing" =>
               /\ state = "quiescing" /\ prepared' = prepared
               /\ h.type = "rollback" /\ audioFailures' = 0 => h.gen # prepared.gen
    PROVE  Restored'
<1>1. Healthy' => Healthy
  BY DEF Healthy, AudioInv, Restored
<1>2. \A gen : Owed(gen) => Owed(gen)'
  BY DEF Owed
<1>3. \A c \in Pending : c # h => c \in Pending'
  BY DEF Served
<1>4. ASSUME Healthy', state' = "quiescing"
      PROVE  Owed(prepared.gen)' \/ Undone(prepared.gen, 0)'
  <2>1. /\ Healthy /\ state = "quiescing" /\ prepared' = prepared
        /\ h.type = "rollback" => h.gen # prepared.gen
    BY <1>1, <1>4 DEF Healthy
  <2> DEFINE gen == prepared.gen
  <2>2. CASE Owed(gen)
    BY <1>2, <2>1, <2>2 DEF Owed
  <2>3. CASE Undone(gen, 0)
    <3>1. PICK c \in Pending : c.type = "rollback" /\ c.gen = gen /\ 0 < c.id
      BY <2>3 DEF Undone
    <3>2. c \in Pending'
      BY <1>3, <2>1, <3>1
    <3> QED BY <2>1, <3>1, <3>2 DEF Undone
  <2> QED BY <2>1, <2>2, <2>3 DEF AudioInv, Restored
<1>5. ASSUME Healthy', NEW p \in Pending', p.type = "prepare"
      PROVE  Owed(p.gen)' \/ Undone(p.gen, p.id)'
  <2>1. Healthy /\ p \in Pending /\ h.id < p.id /\ p \in Commands
    BY <1>1, <1>5, PendingCommands DEF Served, AudioInv
  <2> DEFINE gen == p.gen
  <2>2. CASE Owed(gen)
    BY <2>2 DEF Owed
  <2>3. CASE Undone(gen, p.id)
    <3>1. PICK c \in Pending : c.type = "rollback" /\ c.gen = gen /\ p.id < c.id
      BY <2>3 DEF Undone
    <3>2. c # h
      BY <2>1, <3>1 DEF Served, Commands
    <3> QED BY <1>3, <3>1, <3>2 DEF Undone
  <2> QED BY <1>5, <2>1, <2>2, <2>3 DEF AudioInv, Restored
<1> QED BY <1>4, <1>5 DEF Restored

\* What the owner leaves alone.
LEMMA OthersKept ==
    ASSUME AudioInv, UNCHANGED Others
    PROVE  Calls' /\ Locked' /\ Counted'
<1> USE DEF AudioInv, Others
<1>1. Calls'
  BY DEF Calls
<1>2. Locked'
  BY DEF Locked
<1>3. Counted'
  BY DEF Counted, InIo, Users
<1> QED BY <1>1, <1>2, <1>3

\* A command that is refused, or served without a change of sessions.
LEMMA AnswerKeeps ==
    ASSUME AudioInv, NEW h, NEW ok \in BOOLEAN, NEW made \in Nat, UNCHANGED Others,
           \/ queue # <<>> /\ audioPc = "wait" /\ queue' = Tail(queue) /\ h = Head(queue)
           \/ queue' = queue /\ audioPc # "wait" /\ h = command,
           Answer(h, ok, made), ok => h.type \notin {"begin", "end"},
           UNCHANGED <<session, sessions, maker>>
    PROVE  Calls' /\ Line' /\ Locked' /\ Counted' /\ Answered' /\ Ended' /\ Tokens'
           /\ Served(h, ok, made)
<1>1. Calls' /\ Locked' /\ Counted'
  BY OthersKept
<1>2. /\ caller' = caller /\ sent' = sent /\ audioRequests' = audioRequests /\ token' = token
      /\ late' = late /\ command' = NoCommand /\ Reply(h, ok, made)
  BY DEF Others, Answer
<1>3. Line' /\ Served(h, ok, made)
  <2>1. Line /\ Calls /\ (audioPc = "wait" <=> command = NoCommand)
    BY DEF AudioInv, Work
  <2>2. CASE queue # <<>> /\ audioPc = "wait" /\ queue' = Tail(queue) /\ h = Head(queue)
    BY <1>2, <2>1, <2>2, HeadServed
  <2>3. CASE queue' = queue /\ audioPc # "wait" /\ h = command
    BY <1>2, <2>1, <2>3, CommandServed
  <2> QED BY <2>2, <2>3
<1>4. Answered' /\ Ended' /\ Tokens'
  BY <1>2, <1>3, ServedKeeps
<1> QED BY <1>1, <1>3, <1>4

\* An answer that changes neither state nor session.
LEMMA AnswerOnly ==
    ASSUME AudioInv, NEW h, NEW ok \in BOOLEAN, NEW made \in Nat, UNCHANGED Others,
           \/ queue # <<>> /\ audioPc = "wait" /\ queue' = Tail(queue) /\ h = Head(queue)
           \/ queue' = queue /\ audioPc # "wait" /\ h = command,
           Answer(h, ok, made), ok => h.type \notin {"begin", "end"},
           UNCHANGED <<state, session, sessions, audioLease, prepared, maker>>,
           audioFailures' \in {audioFailures, audioFailures + 1},
           state = "quiescing" /\ h.type = "rollback" /\ audioFailures' = 0 =>
               h.gen # prepared.gen
    PROVE  AudioInv'
<1>1. /\ Calls' /\ Line' /\ Locked' /\ Counted' /\ Answered' /\ Ended' /\ Tokens'
      /\ Served(h, ok, made)
  BY AnswerKeeps
<1>2. audioFailures' \in Nat /\ audioFailures <= audioFailures'
  BY DEF AudioInv, Restored
<1>3. Restored'
  <2>1. UNCHANGED <<sent, sleep, lost>>
    BY DEF Others
  <2> QED BY <1>1, <1>2, <2>1, ServedRestores
<1>4. Work' /\ ResourcesCovered' /\ NoIoOnCutRail'
  <2>1. UNCHANGED <<lock, driverOp, inflight, slots>> /\ audioPc' = "wait" /\ command' = NoCommand
    BY DEF Others, Answer
  <2>2. Work'
    BY <2>1 DEF AudioInv, Work, Places
  <2>3. ResourcesCovered' /\ NoIoOnCutRail'
    BY <2>1 DEF AudioInv, ResourcesCovered, NoIoOnCutRail, InIo
  <2> QED BY <2>2, <2>3
<1> QED BY <1>1, <1>3, <1>4 DEF AudioInv

\* A command is taken to be worked on.
LEMMA TakenKeeps ==
    ASSUME AudioInv, queue # <<>>, audioPc = "wait", queue' = Tail(queue),
           command' = Head(queue), replies' = replies, UNCHANGED Others,
           UNCHANGED <<state, session, sessions, audioLease, prepared, maker>>,
           audioFailures' = audioFailures,
           \/ audioPc' = "endDrain" /\ Head(queue).type = "end" /\ Head(queue).session = session
           \/ audioPc' = "recover" /\ Head(queue).type = "recover"
           \/ /\ audioPc' = "sleepDrain" /\ Head(queue).type = "prepare" /\ state # "quiescing"
              /\ Head(queue).forced \/ state = "idle"
    PROVE  AudioInv'
<1>1. Calls' /\ Locked' /\ Counted'
  BY OthersKept
<1>2. UNCHANGED <<caller, sent, audioRequests, token, lock, driverOp, inflight, slots, sleep,
                  late, lost>>
  BY DEF Others
<1>3. Line' /\ Pending' = Pending /\ command' # NoCommand
  BY <1>2, HeadTaken DEF AudioInv, Work, Calls
<1>4. Work'
  BY <1>2, <1>3 DEF AudioInv, Work, Places
<1>5. ResourcesCovered' /\ NoIoOnCutRail'
  BY <1>2 DEF AudioInv, ResourcesCovered, NoIoOnCutRail, InIo
<1>6. Answered' /\ Ended' /\ Tokens'
  BY <1>2, <1>3 DEF AudioInv, Answered, Ended, Tokens, TokenIsOwn, TokenGoesStaleOnlyLate
<1>7. Restored'
  BY <1>2, <1>3 DEF AudioInv, Restored, Healthy, Owed, Undone
<1> QED BY <1>1, <1>3, <1>4, <1>5, <1>6, <1>7 DEF AudioInv

\* A session is opened for the one who asked, in a service that has none.
LEMMA HandleBeginKeeps ==
    ASSUME AudioInv, HandleBegin
    PROVE  AudioInv'
<1> DEFINE h == Head(queue)
           new == sessions + 1
<1>1. /\ audioPc = "wait" /\ queue # <<>> /\ h.type = "begin" /\ queue' = Tail(queue)
      /\ UNCHANGED Others /\ prepared' = prepared /\ audioFailures' = audioFailures
  BY DEF HandleBegin, Take, railVars
<1>2. CASE ~(state = "idle" /\ GateOpen)
  <2>1. Answer(h, FALSE, 0) /\ UNCHANGED <<state, session, sessions, audioLease, maker>>
    BY <1>2 DEF HandleBegin, activityVars
  <2> QED BY <1>1, <2>1, AnswerOnly
<1>3. CASE state = "idle" /\ GateOpen
  <2>1. /\ sessions' = new /\ session' = new /\ state' = "active" /\ audioLease' = TRUE
        /\ maker' = Append(maker, h.from) /\ Answer(h, TRUE, new)
    BY <1>3 DEF HandleBegin
  <2>2. /\ UNCHANGED <<caller, sent, audioRequests, token, lock, driverOp, inflight, slots, sleep,
                       late, lost>>
        /\ audioPc' = "wait" /\ command' = NoCommand /\ Reply(h, TRUE, new)
    BY <1>1, <2>1 DEF Others, Answer
  <2>3. Calls' /\ Locked' /\ Counted'
    BY <1>1, OthersKept
  <2>4. Line' /\ Served(h, TRUE, new)
    <3>1. new \in Nat /\ command = NoCommand
      BY <1>1 DEF AudioInv, Line, Work
    <3> QED BY <1>1, <2>1, <2>2, <3>1, HeadServed DEF AudioInv
  <2>5. /\ maker \in Seq(Callers) /\ Len(maker) = sessions /\ sessions \in Nat /\ session = 0
        /\ h.from \in Callers /\ h \in Pending
    <3>1. h \in Commands /\ h \in Pending
      BY <1>1, HeadOfLine DEF AudioInv
    <3> QED BY <1>3, <3>1 DEF AudioInv, Work, Line, Commands
  <2>6. /\ maker' \in Seq(Callers) /\ Len(maker') = new /\ maker'[new] = h.from
        /\ \A i \in 1..sessions : maker'[i] = maker[i]
    BY <2>1, <2>5, AppendProperties
  <2>7. Work'
    <3>1. session' \in 0..sessions' /\ session' # 0
      BY <2>1, <2>5
    <3>2. audioPc' \in Places /\ prepared' \in Preparations
      BY <1>1, <2>2 DEF AudioInv, Work, Places
    <3> QED BY <2>1, <2>2, <2>6, <3>1, <3>2 DEF Work
  <2>8. ResourcesCovered' /\ NoIoOnCutRail'
    BY <2>1, <2>2, <2>5 DEF AudioInv, ResourcesCovered, NoIoOnCutRail
  <2>9. Ended'
    <3>1. \A c \in Pending' : c \in Pending
      BY <2>4 DEF Served
    <3>2. ASSUME NEW c \in Pending', c.type = "end"
          PROVE  /\ c.session \in 1..sessions' /\ maker'[c.session] = c.from
                 /\ c.session \in late
      <4>1. /\ c.session \in 1..sessions /\ maker[c.session] = c.from
            /\ c.session \in late \/ c.session = session
        BY <3>1, <3>2 DEF AudioInv, Ended
      <4> QED BY <2>1, <2>5, <2>6, <4>1
    <3> QED BY <2>2, <3>2 DEF Ended
  <2>10. Tokens'
    <3>1. \A c \in AudioClients : token[c] \in Nat
      BY DEF AudioInv, Calls
    <3> QED BY <2>1, <2>2, <2>5, <2>6, <3>1
            DEF AudioInv, Tokens, TokenIsOwn, TokenGoesStaleOnlyLate
  <2>11. Answered'
    <3>1. ASSUME NEW k \in 1..Len(replies'), replies'[k].id = sent.id
          PROVE  /\ replies'[k].session = new /\ caller = h.from /\ sent.type = "begin"
      <4>1. h = sent /\ replies'[k].session = new
        BY <2>4, <3>1 DEF Served
      <4>2. sent # NoCommand
        BY <1>1, <4>1 DEF NoCommand, None
      <4> QED BY <1>1, <4>1, <4>2 DEF AudioInv, Calls
    <3>2. new # 0
      BY <2>5
    <3> QED BY <2>1, <2>2, <2>6, <3>1, <3>2 DEF Answered
  <2>12. Restored'
    <3>1. audioFailures' \in Nat /\ audioFailures <= audioFailures' /\ state' # "quiescing"
      BY <1>1, <2>1 DEF AudioInv, Restored
    <3> QED BY <2>2, <2>4, <3>1, ServedRestores
  <2> QED BY <2>3, <2>4, <2>7, <2>8, <2>9, <2>10, <2>11, <2>12 DEF AudioInv
<1> QED BY <1>2, <1>3

\* An End that names the session begins its drain.
LEMMA HandleEndKeeps ==
    ASSUME AudioInv, HandleEnd
    PROVE  AudioInv'
<1> DEFINE h == Head(queue)
<1>1. /\ audioPc = "wait" /\ queue # <<>> /\ h.type = "end" /\ queue' = Tail(queue)
      /\ UNCHANGED Others /\ UNCHANGED <<state, session, sessions, audioLease, prepared, maker>>
      /\ audioFailures' = audioFailures
  BY DEF HandleEnd, Take, railVars
<1>2. CASE h.session = session
  <2>1. audioPc' = "endDrain" /\ command' = h /\ replies' = replies
    BY <1>2 DEF HandleEnd
  <2> QED BY <1>1, <1>2, <2>1, TakenKeeps
<1>3. CASE h.session # session
  <2>1. Answer(h, FALSE, 0)
    BY <1>3 DEF HandleEnd
  <2> QED BY <1>1, <2>1, AnswerOnly
<1> QED BY <1>2, <1>3

\* The drain is over, and the owner goes on with the command at hand.
LEMMA DrainedKeeps ==
    ASSUME AudioInv, EndDrained \/ SleepDrained
    PROVE  AudioInv'
<1>1. /\ UNCHANGED <<queue, replies, command, state, session, sessions, audioLease, prepared,
                     maker, audioFailures>>
      /\ UNCHANGED Others
      /\ \/ audioPc = "endDrain" /\ audioPc' = "endCheck"
         \/ /\ audioPc = "sleepDrain" /\ audioPc' = "cut"
            /\ inflight = 0 \/ command.forced
  BY DEF EndDrained, SleepDrained, activityVars, railVars
<1>2. Calls' /\ Locked' /\ Counted'
  BY <1>1, OthersKept
<1>3. UNCHANGED <<caller, sent, audioRequests, token, lock, driverOp, inflight, slots, sleep,
                  late, lost>>
  BY <1>1 DEF Others
<1>4. Pending' = Pending
  BY <1>1 DEF Pending
<1>5. Line'
  BY <1>1, <1>3, <1>4 DEF AudioInv, Line
<1>6. Work'
  BY <1>1, <1>3 DEF AudioInv, Work, Places
<1>7. ResourcesCovered' /\ NoIoOnCutRail'
  BY <1>1, <1>3 DEF AudioInv, ResourcesCovered, NoIoOnCutRail, InIo
<1>8. Answered' /\ Ended' /\ Tokens'
  BY <1>1, <1>3, <1>4 DEF AudioInv, Answered, Ended, Tokens, TokenIsOwn, TokenGoesStaleOnlyLate
<1>9. Restored'
  BY <1>1, <1>3, <1>4 DEF AudioInv, Restored, Healthy, Owed, Undone
<1> QED BY <1>2, <1>5, <1>6, <1>7, <1>8, <1>9 DEF AudioInv

\* An End that is refused leaves the session, and its client still holds it.
LEMMA EndTimesOutKeeps ==
    ASSUME AudioInv, EndTimesOut
    PROVE  AudioInv'
<1>1. /\ audioPc # "wait" /\ queue' = queue /\ Answer(command, FALSE, 0) /\ UNCHANGED Others
      /\ UNCHANGED <<state, session, sessions, audioLease, prepared, maker>>
      /\ audioFailures' = audioFailures /\ command.type = "end"
  BY DEF EndTimesOut, EndDenied, AudioInv, Work
<1> QED BY <1>1, AnswerOnly

\* The session ends when nothing is registered for it: what its client holds is stale
\* from now on, and the client waits for this answer or was late.
LEMMA EndActivityKeeps ==
    ASSUME AudioInv, EndActivity
    PROVE  AudioInv'
<1> DEFINE h == command
<1>1. /\ audioPc = "endCheck" /\ lock = None /\ queue' = queue /\ UNCHANGED Others
      /\ prepared' = prepared /\ maker' = maker
      /\ h.type = "end" /\ h.session = session /\ h # NoCommand
  BY DEF EndActivity, AudioInv, Work
<1>2. CASE EndDenied /\ audioFailures' \in {audioFailures, audioFailures + 1}
  <2>1. Answer(h, FALSE, 0) /\ UNCHANGED <<state, session, sessions, audioLease>>
    BY <1>2 DEF EndDenied
  <2> QED BY <1>1, <1>2, <2>1, AnswerOnly
<1>3. CASE /\ ~HasRegisteredResources(session) /\ audioFailures' = audioFailures
           /\ session' = 0 /\ state' = "idle" /\ audioLease' = FALSE
           /\ Answer(h, TRUE, 0) /\ sessions' = sessions
  <2>1. /\ UNCHANGED <<caller, sent, audioRequests, token, lock, driverOp, inflight, slots, sleep,
                       late, lost>>
        /\ audioPc' = "wait" /\ command' = NoCommand /\ Reply(h, TRUE, 0)
    BY <1>1, <1>3 DEF Others, Answer
  <2>2. Calls' /\ Locked' /\ Counted'
    BY <1>1, OthersKept
  <2>3. Line' /\ Served(h, TRUE, 0)
    BY <1>1, <1>3, <2>1, CommandServed DEF AudioInv
  <2>4. Work'
    BY <1>1, <1>3, <2>1, <2>3 DEF AudioInv, Work, Places, Line
  <2>5. ResourcesCovered' /\ NoIoOnCutRail'
    BY <1>3, <2>1 DEF AudioInv, ResourcesCovered, NoIoOnCutRail, HasRegisteredResources
  <2>6. /\ h.session \in 1..sessions /\ maker[session] = h.from
        /\ session \in late \/ h = sent
    BY <1>1, <2>3 DEF AudioInv, Ended, Served, Line
  <2>7. Ended'
    <3>1. \A c \in Pending' : c \in Pending /\ h.id < c.id
      BY <2>3 DEF Served
    <3>2. ASSUME NEW c \in Pending', c.type = "end"
          PROVE  c.session \in late
      <4>1. c.session \in late \/ (c.id = sent.id /\ c.session = session)
        BY <3>1, <3>2 DEF AudioInv, Ended
      <4>2. CASE c.id = sent.id /\ c.session = session /\ session \notin late
        <5>1. h = sent /\ h.id < c.id /\ h.id \in Nat
          BY <2>3, <2>6, <3>1, <4>2 DEF Served, Commands
        <5> QED BY <4>2, <5>1
      <4> QED BY <4>1, <4>2
    <3> QED BY <1>1, <1>3, <2>1, <3>1, <3>2 DEF AudioInv, Ended
  <2>8. Tokens'
    <3>1. ASSUME NEW c \in AudioClients, token[c] = session, session # 0, session \notin late
          PROVE  caller = c /\ sent.type = "end"
      <4>1. h = sent /\ maker[session] = c
        BY <2>6, <3>1 DEF AudioInv, Tokens, TokenIsOwn
      <4>2. sent.from = caller
        BY <1>1, <4>1 DEF AudioInv, Calls
      <4> QED BY <1>1, <2>6, <4>1, <4>2
    <3>2. ASSUME NEW c \in AudioClients, token[c] # 0
          PROVE  token[c] \in late \/ (caller = c /\ sent.type = "end")
      BY <3>1, <3>2 DEF AudioInv, Tokens, TokenGoesStaleOnlyLate
    <3> QED BY <1>1, <1>3, <2>1, <3>2 DEF AudioInv, Tokens, TokenIsOwn, TokenGoesStaleOnlyLate
  <2>9. Answered'
    <3>1. ASSUME NEW k \in 1..Len(replies'), replies'[k].id = sent.id
          PROVE  sent.type = "end" /\ replies'[k].ok = TRUE /\ replies'[k].session = 0
      BY <1>1, <2>3, <3>1 DEF Served
    <3> QED BY <2>1, <3>1 DEF Answered
  <2>10. Restored'
    <3>1. audioFailures' \in Nat /\ audioFailures <= audioFailures' /\ state' # "quiescing"
      BY <1>3 DEF AudioInv, Restored
    <3> QED BY <2>1, <2>3, <3>1, ServedRestores
  <2> QED BY <2>2, <2>3, <2>4, <2>5, <2>7, <2>8, <2>9, <2>10 DEF AudioInv
<1> QED BY <1>2, <1>3 DEF EndActivity, MayFail

\* The amplifier is not in the invariant; the command is answered.
LEMMA HandleAmplifierKeeps ==
    ASSUME AudioInv, HandleAmplifier
    PROVE  AudioInv'
<1> DEFINE h == Head(queue)
<1>1. /\ audioPc = "wait" /\ queue # <<>> /\ h.type = "amp" /\ queue' = Tail(queue)
      /\ UNCHANGED Others /\ UNCHANGED <<state, session, sessions, audioLease, prepared, maker>>
      /\ audioFailures' \in {audioFailures, audioFailures + 1}
  BY DEF HandleAmplifier, Take, activityVars, MayFail
<1>2. PICK ok \in BOOLEAN : Answer(h, ok, 0)
  BY DEF HandleAmplifier
<1> QED BY <1>1, <1>2, AnswerOnly

\* A recovery is refused, or taken to be finished by RecoverCodec.
LEMMA HandleRecoverKeeps ==
    ASSUME AudioInv, HandleRecover
    PROVE  AudioInv'
<1> DEFINE h == Head(queue)
<1>1. /\ audioPc = "wait" /\ queue # <<>> /\ h.type = "recover" /\ queue' = Tail(queue)
      /\ UNCHANGED Others /\ UNCHANGED <<state, session, sessions, audioLease, prepared, maker>>
  BY DEF HandleRecover, Take, activityVars
<1>2. CASE /\ audioPc' = "recover" /\ command' = h /\ replies' = replies
           /\ audioFailures' = audioFailures
  BY <1>1, <1>2, TakenKeeps
<1>3. CASE Answer(h, FALSE, 0) /\ audioFailures' \in {audioFailures, audioFailures + 1}
  BY <1>1, <1>3, AnswerOnly
<1> QED BY <1>2, <1>3 DEF HandleRecover, MayFail

\* The codec is not in the invariant; the command is answered.
LEMMA RecoverCodecKeeps ==
    ASSUME AudioInv, RecoverCodec
    PROVE  AudioInv'
<1>1. /\ audioPc # "wait" /\ queue' = queue /\ command.type = "recover"
      /\ UNCHANGED Others /\ UNCHANGED <<state, session, sessions, audioLease, prepared, maker>>
      /\ audioFailures' \in {audioFailures, audioFailures + 1}
  BY DEF RecoverCodec, activityVars, MayFail, AudioInv, Work
<1>2. PICK ok \in BOOLEAN : Answer(command, ok, 0)
  BY DEF RecoverCodec
<1> QED BY <1>1, <1>2, AnswerOnly

\* A preparation of a service that quiesces already is answered, another is begun.
LEMMA HandlePrepareKeeps ==
    ASSUME AudioInv, HandlePrepare
    PROVE  AudioInv'
<1> DEFINE h == Head(queue)
<1>1. /\ audioPc = "wait" /\ queue # <<>> /\ h.type = "prepare" /\ queue' = Tail(queue)
      /\ UNCHANGED Others /\ UNCHANGED <<state, session, sessions, audioLease, prepared, maker>>
      /\ audioFailures' = audioFailures
  BY DEF HandlePrepare, Take, railVars
<1>2. CASE Answer(h, prepared.gen = h.gen, 0)
  <2>1. PICK ok \in BOOLEAN : Answer(h, ok, 0)
    BY <1>2
  <2> QED BY <1>1, <2>1, AnswerOnly
<1>3. CASE Answer(h, FALSE, 0)
  BY <1>1, <1>3, AnswerOnly
<1>4. CASE /\ state # "quiescing" /\ (h.forced \/ state = "idle")
           /\ audioPc' = "sleepDrain" /\ command' = h /\ replies' = replies
  BY <1>1, <1>4, TakenKeeps
<1> QED BY <1>2, <1>3, <1>4 DEF HandlePrepare

\* A preparation that is refused leaves a service that is not quiescing.
LEMMA SleepDrainTimesOutKeeps ==
    ASSUME AudioInv, SleepDrainTimesOut
    PROVE  AudioInv'
<1>1. /\ audioPc # "wait" /\ queue' = queue /\ Answer(command, FALSE, 0) /\ UNCHANGED Others
      /\ UNCHANGED <<state, session, sessions, audioLease, prepared, maker>>
      /\ audioFailures' = audioFailures /\ command.type = "prepare"
  BY DEF SleepDrainTimesOut, PrepareFails, AudioInv, Work, railVars
<1> QED BY <1>1, AnswerOnly

\* The rail is cut with nothing under way, unless it is an emergency, and whoever asked
\* has the rollback to send.
LEMMA PrepareForSleepKeeps ==
    ASSUME AudioInv, PrepareForSleep
    PROVE  AudioInv'
<1> DEFINE h == command
<1>1. /\ audioPc = "cut" /\ queue' = queue /\ UNCHANGED Others /\ maker' = maker
      /\ h.type = "prepare" /\ h # NoCommand /\ h \in Commands /\ state # "quiescing"
      /\ h.forced \/ (state = "idle" /\ inflight = 0 /\ session = 0)
  BY DEF PrepareForSleep, AudioInv, Work, Line
<1>2. CASE /\ PrepareFails /\ prepared' = prepared
           /\ audioFailures' \in {audioFailures, audioFailures + 1}
  <2>1. Answer(h, FALSE, 0) /\ UNCHANGED <<state, session, sessions, audioLease>>
    BY <1>2 DEF PrepareFails
  <2> QED BY <1>1, <1>2, <2>1, AnswerOnly
<1>3. CASE /\ state' = "quiescing" /\ audioFailures' = audioFailures
           /\ prepared' = [gen |-> h.gen, forced |-> h.forced, previous |-> state]
           /\ Answer(h, TRUE, 0) /\ UNCHANGED <<session, sessions, accept, audioLease>>
  <2>1. /\ UNCHANGED <<caller, sent, audioRequests, token, lock, driverOp, inflight, slots, sleep,
                       late, lost>>
        /\ audioPc' = "wait" /\ command' = NoCommand
    BY <1>1, <1>3 DEF Others, Answer
  <2>2. /\ Calls' /\ Line' /\ Locked' /\ Counted' /\ Answered' /\ Ended' /\ Tokens'
        /\ Served(h, TRUE, 0)
    BY <1>1, <1>3, AnswerKeeps
  <2>3. /\ state \in {"idle", "active"} /\ (state = "idle" <=> session = 0)
        /\ prepared' \in Preparations
    BY <1>1, <1>3 DEF AudioInv, Work, Preparations, Commands
  <2>4. Work'
    BY <1>1, <1>3, <2>1, <2>3 DEF AudioInv, Work, Places
  <2>5. ResourcesCovered'
    BY <1>3, <2>1 DEF AudioInv, ResourcesCovered
  <2>6. NoIoOnCutRail'
    <3>1. ASSUME ~h.forced
          PROVE  InIo = {}
      <4>1. IsFiniteSet(InIo) /\ Cardinality(InIo) = 0
        BY <1>1, <3>1, ActorsFinite, FS_Subset DEF AudioInv, Counted, InIo
      <4> QED BY <4>1, FS_EmptySet
    <3> QED BY <1>3, <2>1, <3>1 DEF NoIoOnCutRail, InIo
  <2>7. Restored'
    <3>1. \A c \in Pending' : c \in Pending /\ h.id < c.id
      BY <2>2 DEF Served
    <3>2. \A c \in Pending : c # h => c \in Pending'
      BY <2>2 DEF Served
    <3>3. h \in Pending /\ h.id \in Nat
      BY <2>2 DEF Served, Commands
    <3>4. ASSUME Healthy, NEW p \in Pending, p.type = "prepare"
          PROVE  \/ Owed(p.gen)'
                 \/ \E c \in Pending' : c.type = "rollback" /\ c.gen = p.gen /\ p.id < c.id
      <4>1. CASE Owed(p.gen)
        <5> DEFINE gen == p.gen
        <5> QED BY <2>1, <4>1 DEF Owed
      <4>2. CASE Undone(p.gen, p.id)
        BY <1>1, <3>2, <4>2 DEF Undone
      <4> QED BY <3>4, <4>1, <4>2 DEF AudioInv, Restored
    <3>5. Healthy' => Healthy
      BY <1>3, <2>1 DEF Healthy
    <3>6. Healthy' => Owed(prepared.gen)' \/ Undone(prepared.gen, 0)'
      <4>1. SUFFICES ASSUME Healthy'
                     PROVE  Owed(prepared.gen)' \/ Undone(prepared.gen, 0)'
        OBVIOUS
      <4>2. PICK p \in Pending : p = h
        BY <3>3
      <4>3. prepared'.gen = p.gen
        BY <1>3, <4>2
      <4>4. CASE Owed(p.gen)'
        BY <4>3, <4>4 DEF Owed
      <4>5. CASE \E c \in Pending' : c.type = "rollback" /\ c.gen = p.gen /\ p.id < c.id
        <5>1. PICK c \in Pending' : c.type = "rollback" /\ c.gen = p.gen /\ p.id < c.id
          BY <4>5
        <5>2. 0 < c.id
          BY <2>2, <3>1, <3>3, <4>2, <5>1, PendingCommands DEF AudioInv, Commands
        <5> QED BY <4>3, <5>1, <5>2 DEF Undone
      <4>6. Healthy /\ p.type = "prepare"
        BY <1>1, <3>5, <4>1, <4>2
      <4> QED BY <3>4, <4>4, <4>5, <4>6
    <3>7. \A p \in Pending' : Healthy' /\ p.type = "prepare" =>
              Owed(p.gen)' \/ Undone(p.gen, p.id)'
      BY <3>1, <3>4, <3>5 DEF Undone
    <3> QED BY <1>3, <3>6, <3>7 DEF AudioInv, Restored
  <2> QED BY <2>2, <2>4, <2>5, <2>6, <2>7 DEF AudioInv
<1> QED BY <1>2, <1>3 DEF PrepareForSleep, MayFail

\* The rollback of what was prepared gives the service back.
LEMMA HandleRollbackKeeps ==
    ASSUME AudioInv, HandleRollback
    PROVE  AudioInv'
<1> DEFINE h == Head(queue)
<1>1. /\ audioPc = "wait" /\ queue # <<>> /\ h.type = "rollback" /\ queue' = Tail(queue)
      /\ UNCHANGED Others /\ UNCHANGED <<session, sessions, audioLease, maker>>
  BY DEF HandleRollback, Take
<1>2. CASE state # "quiescing"
  <2>1. /\ Answer(h, TRUE, 0) /\ state' = state /\ prepared' = prepared
        /\ audioFailures' = audioFailures
    BY <1>2 DEF HandleRollback, railVars
  <2> QED BY <1>1, <1>2, <2>1, AnswerOnly
<1>3. CASE state = "quiescing" /\ prepared.gen # h.gen
  <2>1. /\ Answer(h, FALSE, 0) /\ state' = state /\ prepared' = prepared
        /\ audioFailures' = audioFailures
    BY <1>3 DEF HandleRollback, railVars
  <2> QED BY <1>1, <1>3, <2>1, AnswerOnly
<1>4. CASE state = "quiescing" /\ prepared.gen = h.gen
  <2>1. PICK ok \in BOOLEAN :
           /\ audioFailures' = IF ok THEN audioFailures ELSE audioFailures + 1
           /\ Answer(h, ok, 0)
           /\ IF ok THEN prepared' = NotPrepared /\ state' = prepared.previous
              ELSE state' = state /\ prepared' = prepared
    BY <1>4 DEF HandleRollback, MayFail
  <2>2. CASE ~ok
    <3>1. audioFailures' = audioFailures + 1 /\ audioFailures' # 0
      BY <2>1, <2>2 DEF AudioInv, Restored
    <3> QED BY <1>1, <2>1, <2>2, <3>1, AnswerOnly
  <2>3. CASE ok
    <3>1. /\ UNCHANGED <<caller, sent, audioRequests, token, lock, driverOp, inflight, slots,
                         sleep, late, lost>>
          /\ audioPc' = "wait" /\ command' = NoCommand /\ state' \in {"idle", "active"}
          /\ state' = prepared.previous /\ prepared' = NotPrepared
          /\ audioFailures' = audioFailures
      BY <1>1, <2>1, <2>3 DEF Others, Answer, AudioInv, Work, Preparations
    <3>2. /\ Calls' /\ Line' /\ Locked' /\ Counted' /\ Answered' /\ Ended' /\ Tokens'
          /\ Served(h, ok, 0)
      BY <1>1, <2>1, AnswerKeeps
    <3>3. Work'
      <4>1. prepared' \in Preparations
        BY <3>1 DEF NotPrepared, Preparations
      <4>2. state' = "idle" <=> session = 0
        BY <1>4, <3>1 DEF AudioInv, Work
      <4> QED BY <1>1, <3>1, <4>1, <4>2 DEF AudioInv, Work, Places
    <3>4. ResourcesCovered' /\ NoIoOnCutRail'
      BY <1>1, <3>1 DEF AudioInv, ResourcesCovered, NoIoOnCutRail
    <3>5. Restored'
      <4>1. audioFailures' \in Nat /\ audioFailures <= audioFailures' /\ state' # "quiescing"
        BY <3>1 DEF AudioInv, Restored
      <4> QED BY <3>1, <3>2, <4>1, ServedRestores
    <3> QED BY <3>2, <3>3, <3>4, <3>5 DEF AudioInv
  <2> QED BY <2>2, <2>3
<1> QED BY <1>2, <1>3, <1>4

\* The thirteen actions of the owner task.
LEMMA OwnerKeeps ==
    ASSUME AudioInv, Owner
    PROVE  AudioInv'
BY HandleBeginKeeps, HandleEndKeeps, DrainedKeeps, EndTimesOutKeeps, EndActivityKeeps,
   HandleAmplifierKeeps, HandleRecoverKeeps, RecoverCodecKeeps, HandlePrepareKeeps,
   SleepDrainTimesOutKeeps, PrepareForSleepKeeps, HandleRollbackKeeps DEF Owner

--------------------------------------------------------------------------------
(* Callers and the power task *)

\* What callers leave alone.
LEMMA OwnerSideKept ==
    ASSUME AudioInv, UNCHANGED <<audioPc, command, state, session, sessions, audioLease, prepared,
                                 maker, lock, driverOp, inflight, slots>>
    PROVE  Work' /\ Locked' /\ Counted' /\ ResourcesCovered' /\ NoIoOnCutRail'
<1> USE DEF AudioInv
<1>1. Work'
  BY DEF Work
<1>2. Locked'
  BY DEF Locked
<1>3. Counted'
  BY DEF Counted, InIo, Users
<1>4. ResourcesCovered' /\ NoIoOnCutRail'
  BY DEF ResourcesCovered, NoIoOnCutRail, InIo
<1> QED BY <1>1, <1>2, <1>3, <1>4

\* A command is sent: an End for the session its client holds, a rollback behind every
\* preparation of its transaction.
LEMMA SendKeeps ==
    ASSUME AudioInv, NEW p \in Callers, NEW type, NEW s, Send(p, type, s),
           UNCHANGED <<token, sleep>>,
           \/ p \in AudioClients /\ type \in ClientTypes /\ s = token[p]
              /\ (type = "end" => s # 0)
           \/ p = Power /\ type \in PowerTypes /\ sleep.at = type /\ s = 0
    PROVE  AudioInv'
<1> DEFINE n == [id |-> audioRequests + 1, type |-> type, from |-> p, session |-> s,
                 gen |-> IF p = Power THEN sleep.gen ELSE 0,
                 forced |-> p = Power /\ sleep.forced]
<1>1. /\ caller = None /\ audioRequests < MaxRequests /\ audioRequests' = audioRequests + 1
      /\ caller' = p /\ queue' = Append(queue, sent') /\ replies' = <<>>
      /\ UNCHANGED <<audioPc, command, state, session, sessions, audioLease, prepared, maker,
                     lock, driverOp, inflight, slots, late, lost, audioFailures>>
  BY DEF Send, ownerVars, activityVars, railVars, operationVars, clientHistory
<1>2. sent' = n
  BY <1>1 DEF Send
<1>3. /\ sent = NoCommand /\ audioRequests \in Nat /\ p # None /\ token \in [AudioClients -> Nat]
      /\ sleep \in Sleeps
  BY <1>1, Names DEF AudioInv, Calls
<1>4. sent' \in Commands
  <2>1. s \in Nat /\ sleep.gen \in Nat /\ sleep.forced \in BOOLEAN
    BY <1>3 DEF Sleeps
  <2> QED BY <1>2, <1>3, <2>1 DEF Commands
<1>5. /\ sent'.id = audioRequests + 1 /\ sent'.type = type /\ sent'.from = p
      /\ sent'.session = s /\ (p = Power => sent'.gen = sleep.gen)
  BY <1>2
<1>6. Calls'
  <2>1. sent' # NoCommand
    BY <1>3, <1>5 DEF NoCommand
  <2> QED BY <1>1, <1>3, <1>4, <1>5, <2>1, Names DEF AudioInv, Calls, ClientTypes, PowerTypes
<1>7. Work' /\ Locked' /\ Counted' /\ ResourcesCovered' /\ NoIoOnCutRail'
  BY <1>1, OwnerSideKept
<1>8. /\ queue' \in Seq(Commands) /\ Len(queue') = Len(queue) + 1 /\ Len(queue) \in Nat
      /\ \A i \in 1..Len(queue) : queue'[i] = queue[i]
      /\ queue'[Len(queue) + 1] = sent'
  BY <1>1, <1>4, AppendProperties DEF AudioInv, Line
<1>9. /\ Pending' = Pending \cup {sent'}
      /\ \A c \in Pending : c.id <= audioRequests /\ c \in Commands
  <2>1. \A c \in Pending' : c \in Pending \cup {sent'}
    BY <1>1, <1>8 DEF Pending
  <2>2. \A c \in Pending \cup {sent'} : c \in Pending'
    BY <1>1, <1>8 DEF Pending
  <2> QED BY <2>1, <2>2, PendingCommands DEF AudioInv, Line
<1>10. Line'
  <2>1. \A c \in Pending : c.id \in Nat /\ c.id < sent'.id
    BY <1>3, <1>5, <1>9 DEF Commands
  <2>2. \A i, j \in 1..Len(queue') : i < j => queue'[i].id < queue'[j].id
    <3>1. ASSUME NEW i \in 1..Len(queue'), NEW j \in 1..Len(queue'), i < j
          PROVE  queue'[i].id < queue'[j].id
      <4>1. i \in 1..Len(queue) /\ queue'[i] = queue[i] /\ queue[i] \in Pending
        BY <1>8, <3>1 DEF Pending
      <4>2. CASE j = Len(queue) + 1
        BY <1>8, <2>1, <4>1, <4>2
      <4>3. CASE j # Len(queue) + 1
        <5>1. j \in 1..Len(queue) /\ queue'[j] = queue[j]
          BY <1>8, <4>3
        <5> QED BY <3>1, <4>1, <5>1 DEF AudioInv, Line
      <4> QED BY <4>2, <4>3
    <3> QED BY <3>1
  <2>3. command # NoCommand => \A i \in 1..Len(queue') : command.id < queue'[i].id
    <3>1. ASSUME command # NoCommand, NEW i \in 1..Len(queue')
          PROVE  command.id < queue'[i].id
      <4>1. command \in Pending
        BY <3>1 DEF Pending
      <4>2. CASE i = Len(queue) + 1
        BY <1>8, <2>1, <4>1, <4>2
      <4>3. CASE i # Len(queue) + 1
        <5>1. i \in 1..Len(queue) /\ queue'[i] = queue[i]
          BY <1>8, <4>3
        <5> QED BY <3>1, <5>1 DEF AudioInv, Line
      <4> QED BY <4>2, <4>3
    <3> QED BY <3>1
  <2>4. \A c \in Pending' : c.id <= audioRequests' /\ (c.id = sent'.id => c = sent')
    BY <1>1, <1>3, <1>5, <1>9 DEF Commands
  <2>5. replies' \in Seq(Answers) /\ Len(replies') = 0
    BY <1>1
  <2> QED BY <1>1, <1>3, <1>8, <2>2, <2>3, <2>4, <2>5, Names DEF AudioInv, Line
<1>11. Answered'
  BY <1>1 DEF Answered
<1>12. Ended'
  <2>1. ASSUME NEW c \in Pending, c.type = "end"
        PROVE  c.session \in 1..sessions /\ maker[c.session] = c.from /\ c.session \in late
    BY <1>3, <1>9, <2>1 DEF AudioInv, Ended, NoCommand, Commands
  <2>2. ASSUME type = "end"
        PROVE  /\ s \in 1..sessions /\ maker[s] = p /\ (s \in late \/ s = session)
    <3>1. p \in AudioClients /\ s = token[p] /\ s # 0
      BY <2>2 DEF PowerTypes
    <3>2. s <= sessions /\ maker[s] = p /\ s \in Nat
      BY <1>3, <3>1 DEF AudioInv, Tokens, TokenIsOwn
    <3>3. s \in late \/ s = session
      BY <1>1, <3>1, Names DEF AudioInv, Tokens, TokenGoesStaleOnlyLate
    <3> QED BY <3>1, <3>2, <3>3 DEF AudioInv, Line
  <2> QED BY <1>1, <1>5, <1>9, <2>1, <2>2 DEF Ended
<1>13. Tokens'
  BY <1>1, Names DEF AudioInv, Tokens, TokenIsOwn, TokenGoesStaleOnlyLate
<1>14. Restored'
  <2>1. ASSUME NEW gen, NEW id \in Nat, id <= audioRequests, Owed(gen)
        PROVE  Owed(gen)' \/ Undone(gen, id)'
    <3>1. CASE type # "rollback"
      BY <1>5, <2>1, <3>1 DEF Owed
    <3>2. CASE type = "rollback"
      <4>1. sent'.type = "rollback" /\ sent'.gen = gen /\ id < sent'.id
        BY <1>3, <1>5, <2>1, <3>2 DEF Owed, ClientTypes
      <4> QED BY <1>9, <4>1 DEF Undone
    <3> QED BY <3>1, <3>2
  <2>2. ASSUME NEW gen, NEW id, Undone(gen, id)
        PROVE  Undone(gen, id)'
    BY <1>9, <2>2 DEF Undone
  <2>3. Healthy' => Healthy
    BY <1>1 DEF Healthy
  <2>4. ASSUME Healthy', state' = "quiescing"
        PROVE  Owed(prepared.gen)' \/ Undone(prepared.gen, 0)'
    <3>1. PICK gen : gen = prepared.gen
      OBVIOUS
    <3>2. Owed(gen) \/ Undone(gen, 0)
      BY <1>1, <2>3, <2>4, <3>1 DEF AudioInv, Restored
    <3>3. Owed(gen)' \/ Undone(gen, 0)'
      BY <1>3, <2>1, <2>2, <3>2
    <3> QED BY <1>1, <3>1, <3>3 DEF Owed, Undone
  <2>5. ASSUME Healthy', NEW c \in Pending', c.type = "prepare"
        PROVE  Owed(c.gen)' \/ Undone(c.gen, c.id)'
    <3>1. CASE c \in Pending
      <4>1. c.id \in Nat /\ c.id <= audioRequests
        BY <1>9, <3>1 DEF Commands
      <4> QED BY <2>1, <2>2, <2>3, <2>5, <3>1, <4>1 DEF AudioInv, Restored
    <3>2. CASE c = sent'
      BY <1>5, <2>5, <3>2 DEF Owed, ClientTypes
    <3> QED BY <1>9, <3>1, <3>2
  <2> QED BY <1>1, <2>4, <2>5 DEF AudioInv, Restored
<1> QED BY <1>6, <1>7, <1>10, <1>11, <1>12, <1>13, <1>14 DEF AudioInv

\* A call gets an id above all others, and empties the queue of replies.
LEMMA CallKeeps ==
    ASSUME AudioInv, (\E c \in AudioClients : ClientCall(c)) \/ PowerCall
    PROVE  AudioInv'
<1>1. CASE \E c \in AudioClients : ClientCall(c)
  <2>1. PICK c \in AudioClients : ClientCall(c)
    BY <1>1
  <2>2. UNCHANGED <<token, sleep>> /\ c \in Callers
    BY <2>1, Names DEF ClientCall
  <2>3. CASE token[c] = 0 /\ Send(c, "begin", 0)
    BY <2>2, <2>3, SendKeeps DEF ClientTypes
  <2>4. CASE token[c] # 0 /\ \E type \in {"end", "amp", "recover"} : Send(c, type, token[c])
    BY <2>2, <2>4, SendKeeps DEF ClientTypes
  <2> QED BY <2>1, <2>3, <2>4 DEF ClientCall
<1>2. CASE PowerCall
  <2>1. UNCHANGED <<token, sleep>> /\ Power \in Callers
    BY <1>2, Names DEF PowerCall
  <2> QED BY <1>2, <2>1, SendKeeps DEF PowerCall, PowerTypes
<1> QED BY <1>1, <1>2

\* A call that ends takes what its own reply says, or nothing.
LEMMA ConcludeKeeps ==
    ASSUME AudioInv, caller # None, NEW ok \in BOOLEAN, NEW made \in Nat, Conclude(ok, made),
           replies' \in Seq(Answers), Len(replies') <= ReplyDepth,
           \A k \in 1..Len(replies') : \E m \in 1..Len(replies) : replies'[k] = replies[m],
           late' \subseteq Nat, late \subseteq late',
           ok /\ sent.type = "begin" => made = session /\ session # 0 /\ maker[session] = caller,
           ok /\ sent.type = "end" => made = 0,
           ~ok /\ sent.type = "end" => sent.session \in late' \cup {session},
           \A c \in Pending : c.type = "end" /\ c.id = sent.id => c.session \in late'
    PROVE  AudioInv'
<1>1. /\ caller' = None /\ sent' = NoCommand
      /\ token' = IF ~ok \/ sent.type \notin {"begin", "end"} THEN token
                  ELSE [token EXCEPT ![caller] = made]
      /\ sleep' = IF caller # Power THEN sleep
                  ELSE [sleep EXCEPT !.at = IF sent.type = "rollback" THEN "awake"
                                            ELSE IF ok THEN "ready" ELSE "rollback"]
      /\ UNCHANGED <<queue, audioRequests, audioPc, command, state, session, sessions, audioLease,
                     prepared, maker, lock, driverOp, inflight, slots, lost, audioFailures>>
  BY DEF Conclude, ownerVars, activityVars, railVars, operationVars
<1>2. /\ sent \in Commands /\ caller \in Callers /\ token \in [AudioClients -> Nat]
      /\ sleep \in Sleeps
      /\ sent.type \in {"begin", "end"} => caller \in AudioClients
  BY Names DEF AudioInv, Calls, PowerTypes
<1>3. token' \in [AudioClients -> Nat]
      /\ \A c \in AudioClients :
            token'[c] = IF ok /\ sent.type \in {"begin", "end"} /\ c = caller THEN made
                        ELSE token[c]
  <2>1. CASE ~ok \/ sent.type \notin {"begin", "end"}
    BY <1>1, <1>2, <2>1
  <2>2. CASE ok /\ sent.type \in {"begin", "end"}
    BY <1>1, <1>2, <2>2
  <2> QED BY <2>1, <2>2
<1>4. /\ sleep' \in Sleeps /\ sleep'.gen = sleep.gen
      /\ caller # Power => sleep' = sleep
      /\ caller = Power /\ sent.type # "rollback" => sleep'.at # "awake"
  BY <1>1, <1>2 DEF Sleeps
<1>5. Calls'
  BY <1>1, <1>3, <1>4, Names DEF AudioInv, Calls
<1>6. Work' /\ Locked' /\ Counted' /\ ResourcesCovered' /\ NoIoOnCutRail'
  BY <1>1, OwnerSideKept
<1>7. Pending' = Pending /\ \A c \in Pending : c.id # 0
  BY <1>1, PendingCommands DEF Pending, AudioInv, Commands
<1>8. Line'
  <2>1. \A c \in Pending' : c.id <= audioRequests' /\ (c.id = sent'.id => c = sent')
    BY <1>1, <1>7 DEF AudioInv, Line, NoCommand
  <2>2. \A k \in 1..Len(replies'), c \in Pending' : replies'[k].id < c.id
    BY <1>7 DEF AudioInv, Line
  <2> QED BY <1>1, <2>1, <2>2 DEF AudioInv, Line
<1>9. Answered'
  <2>1. \A k \in 1..Len(replies') : replies'[k] \in Answers
    OBVIOUS
  <2> QED BY <1>1, <2>1 DEF Answered, Answers, NoCommand
<1>10. Ended'
  <2>1. ASSUME NEW c \in Pending, c.type = "end"
        PROVE  c.session \in 1..sessions /\ maker[c.session] = c.from /\ c.session \in late'
    BY <2>1 DEF AudioInv, Ended
  <2> QED BY <1>1, <1>7, <2>1 DEF Ended
<1>11. Tokens'
  <2>1. ASSUME NEW c \in AudioClients
        PROVE  /\ token'[c] <= sessions
               /\ token'[c] # 0 => maker[token'[c]] = c
               /\ token'[c] \notin {0, session} => token'[c] \in late'
    <3>1. CASE token'[c] = made /\ c = caller /\ ok /\ sent.type \in {"begin", "end"}
      <4>1. session <= sessions /\ 0 <= sessions
        BY DEF AudioInv, Work, Line
      <4> QED BY <3>1, <4>1
    <3>2. CASE token'[c] = token[c] /\ (c = caller /\ sent.type = "end" => ~ok)
      <4>1. c = caller /\ sent.type = "end" => token[c] \in late' \cup {session}
        BY <3>2 DEF AudioInv, Calls
      <4> QED BY <3>2, <4>1 DEF AudioInv, Tokens, TokenIsOwn, TokenGoesStaleOnlyLate
    <3> QED BY <1>3, <3>1, <3>2
  <2> QED BY <1>1, <2>1 DEF Tokens, TokenIsOwn, TokenGoesStaleOnlyLate
<1>12. Restored'
  <2>1. \A gen : Owed(gen) => Owed(gen)'
    <3>1. caller = Power => sent.type \in PowerTypes /\ sleep.at = sent.type
      BY DEF AudioInv, Calls
    <3> QED BY <1>1, <1>4, <3>1 DEF Owed, NoCommand, None
  <2>2. \A gen, id : Undone(gen, id) => Undone(gen, id)'
    BY <1>7 DEF Undone
  <2>3. Healthy' = Healthy
    BY <1>1 DEF Healthy
  <2>4. ASSUME Healthy, state = "quiescing"
        PROVE  Owed(prepared.gen)' \/ Undone(prepared.gen, 0)'
    <3>1. PICK gen : gen = prepared.gen
      OBVIOUS
    <3>2. Owed(gen)' \/ Undone(gen, 0)'
      BY <2>1, <2>2, <2>4, <3>1 DEF AudioInv, Restored
    <3> QED BY <1>1, <3>1, <3>2 DEF Owed, Undone
  <2>5. ASSUME Healthy, NEW c \in Pending, c.type = "prepare"
        PROVE  Owed(c.gen)' \/ Undone(c.gen, c.id)'
    BY <2>1, <2>2, <2>5 DEF AudioInv, Restored
  <2> QED BY <1>1, <1>7, <2>3, <2>4, <2>5 DEF AudioInv, Restored
<1> QED BY <1>5, <1>6, <1>8, <1>9, <1>10, <1>11, <1>12 DEF AudioInv

\* The reply that has the id of the call was made for it, when nothing was behind it.
LEMMA TakeReplyKeeps ==
    ASSUME AudioInv, TakeReply
    PROVE  AudioInv'
<1> DEFINE r == Head(replies)
<1>1. caller # None /\ replies # <<>> /\ replies' = Tail(replies) /\ late' = late
  BY DEF TakeReply
<1>2. /\ r = replies[1] /\ replies' \in Seq(Answers) /\ Len(replies') = Len(replies) - 1
      /\ \A k \in 1..Len(replies') : replies'[k] = replies[k + 1]
      /\ Len(replies) \in Nat /\ 1 \in 1..Len(replies) /\ r \in Answers
  <2>1. replies \in Seq(Answers)
    BY DEF AudioInv, Line
  <2>2. Len(replies) \in Nat /\ 1 \in 1..Len(replies)
    BY <1>1, <2>1, EmptySeq
  <2> QED BY <1>1, <2>1, <2>2, HeadTailProperties
<1>3. /\ \A k \in 1..Len(replies') : \E m \in 1..Len(replies) : replies'[k] = replies[m]
      /\ Len(replies') <= ReplyDepth
  <2>1. \A k \in 1..Len(replies') : k + 1 \in 1..Len(replies)
    BY <1>2
  <2>2. Len(replies) <= ReplyDepth /\ ReplyDepth \in Nat
    BY Names DEF AudioInv, Line
  <2> QED BY <1>2, <2>1, <2>2
<1>4. CASE r.id = sent.id
  <2>1. Conclude(r.ok, r.session) /\ r.ok \in BOOLEAN /\ r.session \in Nat
    BY <1>2, <1>4 DEF TakeReply, Matches, Answers
  <2>2. /\ sent.type = "begin" /\ r.ok =>
              r.session = session /\ session # 0 /\ maker[session] = caller
        /\ sent.type = "end" /\ r.ok => r.session = 0
        /\ sent.type = "end" /\ ~r.ok => sent.session \in late \cup {session}
    BY <1>2, <1>4 DEF AudioInv, Answered
  <2>3. \A c \in Pending : c.id # sent.id
    <3>1. \A c \in Pending : r.id < c.id
      BY <1>2 DEF AudioInv, Line
    <3>2. r.id \in Nat
      BY <1>2 DEF Answers
    <3> QED BY <1>4, <3>1, <3>2
  <2>4. late \subseteq Nat
    BY DEF AudioInv, Calls
  <2> QED BY <1>1, <1>2, <1>3, <2>1, <2>2, <2>3, <2>4, ConcludeKeeps
<1>5. CASE r.id # sent.id
  <2>1. UNCHANGED <<queue, caller, sent, audioRequests, token, audioPc, command, state, session,
                    sessions, audioLease, prepared, maker, lock, driverOp, inflight, slots, sleep,
                    lost, audioFailures>>
    BY <1>5 DEF TakeReply, Matches, ownerVars, activityVars, railVars, operationVars
  <2>2. Calls'
    BY <1>1, <2>1 DEF AudioInv, Calls
  <2>3. Work' /\ Locked' /\ Counted' /\ ResourcesCovered' /\ NoIoOnCutRail'
    BY <2>1, OwnerSideKept
  <2>4. Pending' = Pending
    BY <2>1 DEF Pending
  <2>5. Line'
    BY <1>2, <1>3, <2>1, <2>4 DEF AudioInv, Line
  <2>6. Answered'
    BY <1>1, <1>3, <2>1 DEF AudioInv, Answered
  <2>7. Ended' /\ Tokens'
    BY <1>1, <2>1, <2>4 DEF AudioInv, Ended, Tokens, TokenIsOwn, TokenGoesStaleOnlyLate
  <2>8. Restored'
    BY <2>1, <2>4 DEF AudioInv, Restored, Healthy, Owed, Undone
  <2> QED BY <2>2, <2>3, <2>5, <2>6, <2>7, <2>8 DEF AudioInv
<1> QED BY <1>4, <1>5

\* A call that is given up: an End counts as late.
LEMMA GiveUpKeeps ==
    ASSUME AudioInv, GiveUp
    PROVE  AudioInv'
<1>1. /\ caller # None /\ Conclude(FALSE, 0) /\ replies' = replies
      /\ late' = IF sent.type = "end" THEN late \cup {sent.session} ELSE late
  BY DEF GiveUp
<1>2. sent \in Commands /\ late \subseteq Nat
  BY <1>1 DEF AudioInv, Calls
<1>3. late' \subseteq Nat /\ late \subseteq late'
  BY <1>1, <1>2 DEF Commands
<1>4. sent.type = "end" => sent.session \in late'
  BY <1>1
<1>5. \A c \in Pending : c.type = "end" /\ c.id = sent.id => c.session \in late'
  BY <1>4 DEF AudioInv, Line
<1>6. replies' \in Seq(Answers) /\ Len(replies') <= ReplyDepth
      /\ \A k \in 1..Len(replies') : \E m \in 1..Len(replies) : replies'[k] = replies[m]
  BY <1>1 DEF AudioInv, Line
<1> QED BY <1>1, <1>3, <1>4, <1>5, <1>6, ConcludeKeeps

\* The power task moves its transaction on while it has no call under way.
LEMMA SleepKeeps ==
    ASSUME AudioInv, BeginSleep \/ AbortSleep \/ LoseRollback
    PROVE  AudioInv'
<1>1. /\ UNCHANGED <<queue, replies, caller, sent, audioRequests, token, audioPc, command, state,
                     session, sessions, audioLease, prepared, lock, driverOp, inflight, slots,
                     maker, late, audioFailures>>
      /\ sleep' \in Sleeps /\ caller # Power
      /\ \/ sleep.at = "awake" /\ lost' = lost
         \/ sleep'.at # "awake" /\ sleep'.gen = sleep.gen /\ lost' = lost
         \/ lost' = TRUE
  <2>1. sleep \in Sleeps /\ (caller = Power => sleep.at \in PowerTypes)
    BY DEF AudioInv, Calls
  <2>2. CASE BeginSleep
    BY <2>1, <2>2 DEF BeginSleep, Sleeps, PowerTypes, callVars, ownerVars, activityVars, railVars,
                      operationVars, clientHistory
  <2>3. CASE AbortSleep
    BY <2>1, <2>3 DEF AbortSleep, Sleeps, PowerTypes, callVars, ownerVars, activityVars, railVars,
                      operationVars, clientHistory
  <2>4. CASE LoseRollback
    BY <2>1, <2>4, Names DEF LoseRollback, Sleeps, callVars, ownerVars, activityVars, railVars,
                             operationVars
  <2> QED BY <2>2, <2>3, <2>4
<1>2. Calls'
  BY <1>1 DEF AudioInv, Calls
<1>3. Work' /\ Locked' /\ Counted' /\ ResourcesCovered' /\ NoIoOnCutRail'
  BY <1>1, OwnerSideKept
<1>4. Pending' = Pending
  BY <1>1 DEF Pending
<1>5. Line' /\ Answered' /\ Ended'
  BY <1>1, <1>4 DEF AudioInv, Line, Answered, Ended
<1>6. Tokens'
  BY <1>1 DEF AudioInv, Tokens, TokenIsOwn, TokenGoesStaleOnlyLate
<1>7. Restored'
  <2>1. Healthy' => Healthy /\ \A gen : Owed(gen) => gen = sleep'.gen /\ sleep'.at # "awake"
                                                     /\ sent'.type # "rollback"
    BY <1>1 DEF Healthy, Owed
  <2> QED BY <1>1, <1>4, <2>1 DEF AudioInv, Restored, Owed, Undone
<1> QED BY <1>2, <1>3, <1>5, <1>6, <1>7 DEF AudioInv

\* The actions of the callers and of the power task.
LEMMA CallersKeep ==
    ASSUME AudioInv, Caller \/ BeginSleep \/ AbortSleep
    PROVE  AudioInv'
BY CallKeeps, TakeReplyKeeps, GiveUpKeeps, SleepKeeps DEF Caller

--------------------------------------------------------------------------------
(* Driver operations *)

\* What driver operations leave alone.
LEMMA CallSideKept ==
    ASSUME AudioInv, UNCHANGED OwnerIdleVars,
           audioFailures' \in {audioFailures, audioFailures + 1},
           lock' # None => session # 0,
           audioPc = "cut" => command.forced \/ inflight' = 0
    PROVE  Calls' /\ Line' /\ Work' /\ Answered' /\ Ended' /\ Tokens' /\ Restored'
<1>1. UNCHANGED <<queue, replies, caller, sent, audioRequests, token, audioPc, command, state,
                  session, sessions, audioLease, prepared, sleep, maker, late, lost>>
  BY DEF OwnerIdleVars, callVars, ownerVars, activityVars, railVars
<1>2. Calls'
  BY <1>1 DEF AudioInv, Calls
<1>3. Pending' = Pending
  BY <1>1 DEF Pending
<1>4. Line' /\ Answered' /\ Ended'
  BY <1>1, <1>3 DEF AudioInv, Line, Answered, Ended
<1>5. Work'
  BY <1>1 DEF AudioInv, Work
<1>6. Tokens'
  BY <1>1 DEF AudioInv, Tokens, TokenIsOwn, TokenGoesStaleOnlyLate
<1>7. Restored'
  <2>1. audioFailures' \in Nat /\ (Healthy' => Healthy)
    BY <1>1 DEF AudioInv, Restored, Healthy
  <2> QED BY <1>1, <1>3, <2>1 DEF AudioInv, Restored, Owed, Undone
<1> QED BY <1>2, <1>4, <1>5, <1>6, <1>7

\* An operation passes its check inside the lock, for the session that is active.
LEMMA CheckKeeps ==
    ASSUME AudioInv, NEW a \in Actors, NEW c \in AudioClients, NEW kind \in Kinds,
           NEW i \in AudioSlots \cup {0}, Check(a, c, kind, i)
    PROVE  AudioInv'
<1> DEFINE new == [at |-> "counting", kind |-> kind, session |-> token[c], slot |-> i]
<1>1. /\ driverOp[a] = NoOp /\ lock = None /\ token[c] # 0 /\ token[c] = session
      /\ Eligible(kind, token[c], i) /\ lock' = a
      /\ driverOp' = [driverOp EXCEPT ![a] = new]
      /\ UNCHANGED OwnerIdleVars /\ UNCHANGED <<inflight, slots, audioFailures>>
  BY DEF Check, Admitted
<1>2. new \in Operations
  BY DEF AudioInv, Calls, Operations
<1>3. /\ driverOp' \in [Actors -> Operations] /\ driverOp'[a] = new
      /\ \A b \in Actors : b # a => driverOp'[b] = driverOp[b]
      /\ \A b \in Actors : driverOp[b].at # "counting"
      /\ driverOp[a].at = "out"
  BY <1>1, <1>2, Names DEF AudioInv, Locked, NoOp
<1>4. Calls' /\ Line' /\ Work' /\ Answered' /\ Ended' /\ Tokens' /\ Restored'
  <2>1. audioPc = "cut" => command.forced \/ inflight' = 0
    BY <1>1 DEF AudioInv, Work
  <2> QED BY <1>1, <2>1, CallSideKept
<1>5. kind # "register" => i \in AudioSlots /\ slots[i].owner = token[c] /\ ~slots[i].closing
  BY <1>1 DEF Eligible
<1>6. Locked'
  <2>1. lock' \in Actors \cup {None} /\ slots' \in [AudioSlots -> Resources]
    BY <1>1 DEF AudioInv, Locked
  <2>2. \A b \in Actors : lock' = b <=> driverOp'[b].at = "counting"
    BY <1>1, <1>3
  <2>3. ASSUME NEW b \in Actors, driverOp'[b].at # "out"
        PROVE  /\ driverOp'[b].kind \in Kinds /\ driverOp'[b].session # 0
               /\ driverOp'[b].kind # "register" =>
                     /\ driverOp'[b].slot \in AudioSlots
                     /\ slots[driverOp'[b].slot].owner = driverOp'[b].session
                     /\ driverOp'[b].at = "counting" => ~slots[driverOp'[b].slot].closing
               /\ driverOp'[b].at = "io" /\ driverOp'[b].kind = "close" =>
                     slots[driverOp'[b].slot].closing
    BY <1>1, <1>3, <1>5, <2>3 DEF AudioInv, Locked
  <2>4. \A b, d \in Actors :
            /\ driverOp'[b].at = "io" /\ driverOp'[b].kind = "close"
            /\ driverOp'[d].at = "io" /\ driverOp'[d].kind = "close"
            /\ driverOp'[b].slot = driverOp'[d].slot
            => b = d
    BY <1>3 DEF AudioInv, Locked
  <2> QED BY <1>1, <1>3, <2>1, <2>2, <2>3, <2>4 DEF Locked
<1>7. InIo' = InIo /\ \A j \in AudioSlots : Users(j)' = Users(j)
  BY <1>3 DEF InIo, Users
<1>8. Counted' /\ NoIoOnCutRail' /\ ResourcesCovered'
  BY <1>1, <1>7 DEF AudioInv, Counted, NoIoOnCutRail, ResourcesCovered, OwnerIdleVars,
                    activityVars, railVars
<1> QED BY <1>4, <1>6, <1>8 DEF AudioInv

\* A client registers or closes, or a worker uses.
LEMMA StartKeeps ==
    ASSUME AudioInv, Start
    PROVE  AudioInv'
<1>1. CASE \E c \in AudioClients, kind \in {"register", "close"}, i \in AudioSlots \cup {0} :
               caller # c /\ Check(c, c, kind, i)
  <2>1. PICK c \in AudioClients, kind \in {"register", "close"}, i \in AudioSlots \cup {0} :
             Check(c, c, kind, i)
    BY <1>1
  <2>2. kind \in Kinds /\ c \in Actors
    BY Names DEF Kinds
  <2> QED BY <2>1, <2>2, CheckKeeps
<1>2. CASE \E w \in Workers, c \in AudioClients, i \in AudioSlots : Check(w, c, "use", i)
  <2>1. PICK w \in Workers, c \in AudioClients, i \in AudioSlots : Check(w, c, "use", i)
    BY <1>2
  <2>2. "use" \in Kinds /\ w \in Actors /\ i \in AudioSlots \cup {0}
    BY DEF Kinds, Actors
  <2> QED BY <2>1, <2>2, CheckKeeps
<1> QED BY <1>1, <1>2 DEF Start

\* The users of a slot and the operations under way are finitely many.
LEMMA OperationsFinite ==
    /\ IsFiniteSet(InIo) /\ Cardinality(InIo) \in Nat
    /\ \A i : IsFiniteSet(Users(i)) /\ Cardinality(Users(i)) \in Nat
<1>1. InIo \subseteq Actors /\ \A i : Users(i) \subseteq Actors
  BY DEF InIo, Users
<1>2. \A s \in SUBSET Actors : IsFiniteSet(s) /\ Cardinality(s) \in Nat
  BY ActorsFinite, FS_Subset, FS_CardinalityType
<1> QED BY <1>1, <1>2

\* An operation is counted, with its mark on the slot, before it leaves the lock.
LEMMA EnterKeeps ==
    ASSUME AudioInv, NEW a \in Actors, Enter(a)
    PROVE  AudioInv'
<1>1. PICK op \in Operations : op = driverOp[a]
  BY DEF AudioInv, Locked
<1>2. /\ op.at = "counting" /\ lock = a /\ session # 0
      /\ op.kind \in Kinds /\ op.session # 0
      /\ op.kind # "register" =>
            op.slot \in AudioSlots /\ slots[op.slot].owner = op.session /\ ~slots[op.slot].closing
  <2>1. op.at = "counting" /\ lock = a
    BY <1>1 DEF Enter, AudioInv, Locked
  <2> QED BY <1>1, <2>1, Names DEF AudioInv, Locked, Work
<1>3. /\ driverOp' = [driverOp EXCEPT ![a].at = "io"] /\ lock' = None
      /\ inflight' = inflight + 1
      /\ slots' = CASE op.kind = "use" -> [slots EXCEPT ![op.slot].inflight = @ + 1]
                    [] op.kind = "close" -> [slots EXCEPT ![op.slot].closing = TRUE]
                    [] OTHER -> slots
      /\ UNCHANGED OwnerIdleVars /\ audioFailures' = audioFailures
  BY <1>1 DEF Enter
<1>4. /\ driverOp' \in [Actors -> Operations]
      /\ driverOp'[a] = [op EXCEPT !.at = "io"]
      /\ \A b \in Actors : b # a => driverOp'[b] = driverOp[b] /\ driverOp[b].at # "counting"
  <2>1. driverOp \in [Actors -> Operations] /\ [op EXCEPT !.at = "io"] \in Operations
    BY DEF AudioInv, Locked, Operations
  <2> QED BY <1>1, <1>2, <1>3, <2>1 DEF AudioInv, Locked
<1>5. driverOp'[a].at = "io" /\ driverOp'[a].kind = op.kind /\ driverOp'[a].session = op.session
      /\ driverOp'[a].slot = op.slot
  BY <1>4 DEF Operations
<1>6. /\ slots' \in [AudioSlots -> Resources]
      /\ \A i \in AudioSlots :
            /\ slots'[i].owner = slots[i].owner
            /\ slots'[i].inflight =
                  IF op.kind = "use" /\ i = op.slot THEN slots[i].inflight + 1
                  ELSE slots[i].inflight
            /\ slots'[i].closing = (slots[i].closing \/ (op.kind = "close" /\ i = op.slot))
  <2>1. slots \in [AudioSlots -> Resources]
    BY DEF AudioInv, Locked
  <2>2. CASE op.kind = "use"
    <3>1. slots' = [slots EXCEPT ![op.slot].inflight = @ + 1]
      BY <1>3, <2>2
    <3> QED BY <1>2, <2>1, <2>2, <3>1 DEF Resources
  <2>3. CASE op.kind = "close"
    <3>1. slots' = [slots EXCEPT ![op.slot].closing = TRUE]
      BY <1>3, <2>3
    <3> QED BY <1>2, <2>1, <2>3, <3>1 DEF Resources
  <2>4. CASE op.kind = "register"
    <3>1. slots' = slots
      BY <1>3, <2>4
    <3> QED BY <2>1, <2>4, <3>1 DEF Resources
  <2> QED BY <1>2, <2>2, <2>3, <2>4 DEF Kinds
<1>7. /\ InIo' = InIo \cup {a} /\ a \notin InIo
      /\ \A i \in AudioSlots :
            Users(i)' = IF op.kind = "use" /\ i = op.slot THEN Users(i) \cup {a} ELSE Users(i)
      /\ \A i : a \notin Users(i)
  <2>1. InIo' = InIo \cup {a} /\ a \notin InIo
    BY <1>1, <1>2, <1>4, <1>5 DEF InIo
  <2>2. ASSUME NEW i \in AudioSlots
        PROVE  Users(i)' = IF op.kind = "use" /\ i = op.slot THEN Users(i) \cup {a} ELSE Users(i)
    BY <1>4, <1>5, <2>1 DEF Users, InIo
  <2> QED BY <2>1, <2>2 DEF Users
<1>8. Counted'
  <2>1. Cardinality(InIo') = Cardinality(InIo) + 1
    BY <1>7, OperationsFinite, FS_AddElement
  <2>2. \A i : Cardinality(Users(i) \cup {a}) = Cardinality(Users(i)) + 1
    BY <1>7, OperationsFinite, FS_AddElement
  <2>3. \A i \in AudioSlots : slots'[i].inflight = Cardinality(Users(i)')
    BY <1>6, <1>7, <2>2 DEF AudioInv, Counted
  <2> QED BY <1>3, <2>1, <2>3 DEF AudioInv, Counted
<1>9. Calls' /\ Line' /\ Work' /\ Answered' /\ Ended' /\ Tokens' /\ Restored'
  <2>1. audioPc = "cut" => command.forced
    BY <1>2 DEF AudioInv, Work
  <2> QED BY <1>3, <2>1, CallSideKept
<1>10. ResourcesCovered' /\ NoIoOnCutRail'
  <2>1. UNCHANGED <<state, session, audioLease, prepared>>
    BY <1>3 DEF OwnerIdleVars, activityVars, railVars
  <2>2. state = "quiescing" => prepared.forced
    BY <1>2 DEF AudioInv, Work
  <2> QED BY <1>6, <2>1, <2>2 DEF AudioInv, ResourcesCovered, NoIoOnCutRail
<1>11. Locked'
  <2>1. \A b \in Actors : lock' = b <=> driverOp'[b].at = "counting"
    BY <1>3, <1>4, <1>5, Names
  <2>2. ASSUME NEW b \in Actors, driverOp'[b].at # "out"
        PROVE  /\ driverOp'[b].kind \in Kinds /\ driverOp'[b].session # 0
               /\ driverOp'[b].kind # "register" =>
                     /\ driverOp'[b].slot \in AudioSlots
                     /\ slots'[driverOp'[b].slot].owner = driverOp'[b].session
                     /\ driverOp'[b].at = "counting" => ~slots'[driverOp'[b].slot].closing
               /\ driverOp'[b].at = "io" /\ driverOp'[b].kind = "close" =>
                     slots'[driverOp'[b].slot].closing
    <3>1. CASE b = a
      BY <1>2, <1>5, <1>6, <3>1
    <3>2. CASE b # a
      <4>1. driverOp'[b] = driverOp[b] /\ driverOp[b].at \notin {"out", "counting"}
        BY <1>4, <2>2, <3>2
      <4>2. /\ driverOp[b].kind \in Kinds /\ driverOp[b].session # 0
            /\ driverOp[b].kind # "register" =>
                  /\ driverOp[b].slot \in AudioSlots
                  /\ slots[driverOp[b].slot].owner = driverOp[b].session
            /\ driverOp[b].at = "io" /\ driverOp[b].kind = "close" =>
                  driverOp[b].slot \in AudioSlots /\ slots[driverOp[b].slot].closing
        BY <4>1 DEF AudioInv, Locked
      <4> QED BY <1>6, <4>1, <4>2
    <3> QED BY <3>1, <3>2
  <2>3. ASSUME NEW b \in Actors, NEW d \in Actors,
               driverOp'[b].at = "io", driverOp'[b].kind = "close",
               driverOp'[d].at = "io", driverOp'[d].kind = "close",
               driverOp'[b].slot = driverOp'[d].slot
        PROVE  b = d
    <3>1. CASE b # a /\ d # a
      BY <1>4, <2>3, <3>1 DEF AudioInv, Locked
    <3>2. ASSUME NEW e \in Actors, e # a, op.kind = "close",
                 driverOp'[e].at = "io", driverOp'[e].kind = "close", driverOp'[e].slot = op.slot
          PROVE  FALSE
      BY <1>2, <1>4, <3>2 DEF AudioInv, Locked
    <3> QED BY <1>5, <2>3, <3>1, <3>2
  <2>4. lock' \in Actors \cup {None} /\ driverOp' \in [Actors -> Operations]
        /\ slots' \in [AudioSlots -> Resources]
    BY <1>3, <1>4, <1>6
  <2> QED BY <2>1, <2>2, <2>3, <2>4 DEF Locked
<1> QED BY <1>8, <1>9, <1>10, <1>11 DEF AudioInv

\* An operation that leaves is counted off; the slots it leaves have the owners and
\* the marks the other operations rely on.
LEMMA LeaveKeeps ==
    ASSUME AudioInv, NEW a \in Actors, driverOp[a].at = "io", lock = None, Leave(a),
           UNCHANGED OwnerIdleVars, audioFailures' \in {audioFailures, audioFailures + 1},
           slots' \in [AudioSlots -> Resources],
           \A i \in AudioSlots : slots'[i].owner \in {0, session},
           \A i \in AudioSlots : slots'[i].inflight = Cardinality(Users(i) \ {a}),
           \A b \in Actors : b # a /\ driverOp[b].at = "io" /\ driverOp[b].kind # "register" =>
               /\ slots'[driverOp[b].slot].owner = slots[driverOp[b].slot].owner
               /\ driverOp[b].kind = "close" => slots'[driverOp[b].slot].closing
    PROVE  AudioInv'
<1>1. driverOp' = [driverOp EXCEPT ![a] = NoOp] /\ inflight' = inflight - 1 /\ lock' = lock
  BY DEF Leave
<1>2. /\ driverOp' \in [Actors -> Operations] /\ driverOp'[a] = NoOp
      /\ \A b \in Actors : b # a => driverOp'[b] = driverOp[b]
      /\ \A b \in Actors : driverOp[b].at \in {"out", "io"}
  <2>1. driverOp \in [Actors -> Operations] /\ NoOp \in Operations
    BY DEF AudioInv, Locked, Operations, NoOp
  <2>2. \A b \in Actors : driverOp[b].at # "counting"
    BY Names DEF AudioInv, Locked
  <2>3. \A b \in Actors : driverOp[b].at \in {"out", "counting", "io"}
    BY <2>1 DEF Operations
  <2> QED BY <1>1, <2>1, <2>2, <2>3
<1>3. InIo' = InIo \ {a} /\ a \in InIo /\ \A i \in AudioSlots : Users(i)' = Users(i) \ {a}
  <2>1. InIo' = InIo \ {a} /\ a \in InIo
    BY <1>2 DEF InIo, NoOp
  <2>2. ASSUME NEW i \in AudioSlots
        PROVE  Users(i)' = Users(i) \ {a}
    BY <1>2, <2>1 DEF Users, InIo
  <2> QED BY <2>1, <2>2
<1>4. Counted'
  <2>1. Cardinality(InIo') = Cardinality(InIo) - 1 /\ Cardinality(InIo') \in Nat
    <3>1. Cardinality(InIo \ {a}) = Cardinality(InIo) - 1
      BY <1>3, OperationsFinite, FS_RemoveElement
    <3>2. Cardinality(InIo \ {a}) \in Nat
      BY OperationsFinite, FS_RemoveElement, FS_CardinalityType
    <3> QED BY <1>3, <3>1, <3>2
  <2>2. \A i \in AudioSlots : slots'[i].inflight = Cardinality(Users(i)')
    BY <1>3
  <2> QED BY <1>1, <2>1, <2>2 DEF AudioInv, Counted
<1>5. Calls' /\ Line' /\ Work' /\ Answered' /\ Ended' /\ Tokens' /\ Restored'
  <2>1. audioPc = "cut" => command.forced
    <3>1. inflight # 0
      BY <1>3, OperationsFinite, FS_EmptySet DEF AudioInv, Counted
    <3> QED BY <3>1 DEF AudioInv, Work
  <2>2. lock' = None
    BY <1>1
  <2> QED BY <2>1, <2>2, CallSideKept
<1>6. ResourcesCovered' /\ NoIoOnCutRail'
  <2>1. UNCHANGED <<state, session, audioLease, prepared>>
    BY DEF OwnerIdleVars, activityVars, railVars
  <2> QED BY <1>3, <2>1 DEF AudioInv, ResourcesCovered, NoIoOnCutRail
<1>7. Locked'
  <2>1. \A b \in Actors : lock' = b <=> driverOp'[b].at = "counting"
    BY <1>1, <1>2, Names DEF NoOp
  <2>2. ASSUME NEW b \in Actors, driverOp'[b].at # "out"
        PROVE  /\ driverOp'[b].kind \in Kinds /\ driverOp'[b].session # 0
               /\ driverOp'[b].kind # "register" =>
                     /\ driverOp'[b].slot \in AudioSlots
                     /\ slots'[driverOp'[b].slot].owner = driverOp'[b].session
                     /\ driverOp'[b].at = "counting" => ~slots'[driverOp'[b].slot].closing
               /\ driverOp'[b].at = "io" /\ driverOp'[b].kind = "close" =>
                     slots'[driverOp'[b].slot].closing
    <3>1. b # a /\ driverOp'[b] = driverOp[b] /\ driverOp[b].at = "io"
      BY <1>2, <2>2 DEF NoOp
    <3>2. /\ driverOp[b].kind \in Kinds /\ driverOp[b].session # 0
          /\ driverOp[b].kind # "register" =>
                /\ driverOp[b].slot \in AudioSlots
                /\ slots[driverOp[b].slot].owner = driverOp[b].session
      BY <3>1 DEF AudioInv, Locked
    <3> QED BY <3>1, <3>2
  <2>3. \A b, d \in Actors :
            /\ driverOp'[b].at = "io" /\ driverOp'[b].kind = "close"
            /\ driverOp'[d].at = "io" /\ driverOp'[d].kind = "close"
            /\ driverOp'[b].slot = driverOp'[d].slot
            => b = d
    BY <1>2 DEF AudioInv, Locked, NoOp
  <2>4. lock' \in Actors \cup {None}
    BY <1>1
  <2> QED BY <1>2, <2>1, <2>2, <2>3, <2>4 DEF Locked
<1> QED BY <1>4, <1>5, <1>6, <1>7 DEF AudioInv

\* What the invariant says of an operation under way and of its slot.
LEMMA UnderWay ==
    ASSUME AudioInv, NEW a \in Actors, driverOp[a].at = "io"
    PROVE  /\ driverOp[a].kind # "register" => driverOp[a].slot \in AudioSlots
           /\ slots \in [AudioSlots -> Resources]
           /\ \A i \in AudioSlots : slots[i].owner \in {0, session}
           /\ \A i \in AudioSlots : slots[i].inflight = Cardinality(Users(i))
           /\ driverOp[a].kind # "use" => \A i : Users(i) \ {a} = Users(i)
           /\ \A b \in Actors : driverOp[b].at = "io" /\ driverOp[b].kind # "register" =>
                 /\ driverOp[b].slot \in AudioSlots /\ slots[driverOp[b].slot].owner # 0
                 /\ driverOp[b].kind = "close" => slots[driverOp[b].slot].closing
                 /\ driverOp[b].kind = "use" => b \in Users(driverOp[b].slot)
                 /\ driverOp[a].kind = "close" /\ driverOp[b].slot = driverOp[a].slot =>
                       b = a \/ driverOp[b].kind = "use"
<1>1. /\ driverOp[a].kind # "register" => driverOp[a].slot \in AudioSlots
      /\ slots \in [AudioSlots -> Resources]
  BY DEF AudioInv, Locked
<1>2. /\ \A i \in AudioSlots : slots[i].owner \in {0, session}
      /\ \A i \in AudioSlots : slots[i].inflight = Cardinality(Users(i))
  BY DEF AudioInv, ResourcesCovered, Counted
<1>3. driverOp[a].kind # "use" => \A i : Users(i) \ {a} = Users(i)
  BY DEF Users
<1>4. ASSUME NEW b \in Actors, driverOp[b].at = "io", driverOp[b].kind # "register"
      PROVE  /\ driverOp[b].slot \in AudioSlots /\ slots[driverOp[b].slot].owner # 0
             /\ driverOp[b].kind = "close" => slots[driverOp[b].slot].closing
             /\ driverOp[b].kind = "use" => b \in Users(driverOp[b].slot)
             /\ driverOp[a].kind = "close" /\ driverOp[b].slot = driverOp[a].slot =>
                   b = a \/ driverOp[b].kind = "use"
  <2>1. /\ driverOp[b].slot \in AudioSlots /\ slots[driverOp[b].slot].owner # 0
        /\ driverOp[b].kind = "close" => slots[driverOp[b].slot].closing
        /\ driverOp[b].kind \in Kinds
    BY <1>4 DEF AudioInv, Locked
  <2>2. driverOp[b].kind = "use" => b \in Users(driverOp[b].slot)
    BY <1>4 DEF Users, InIo
  <2>3. driverOp[a].kind = "close" /\ driverOp[b].kind = "close"
            /\ driverOp[b].slot = driverOp[a].slot => b = a
    BY <1>4 DEF AudioInv, Locked
  <2> QED BY <1>4, <2>1, <2>2, <2>3 DEF Kinds
<1> QED BY <1>1, <1>2, <1>3, <1>4

\* An operation on a resource leaves it: its count goes down by one.
LEMMA UseKeeps ==
    ASSUME AudioInv, NEW a \in Actors, Use(a)
    PROVE  AudioInv'
<1> DEFINE slot == driverOp[a].slot
<1>1. /\ driverOp[a].at = "io" /\ driverOp[a].kind = "use" /\ lock = None /\ Leave(a)
      /\ slots' = [slots EXCEPT ![slot].inflight = @ - 1]
      /\ UNCHANGED OwnerIdleVars /\ audioFailures' = audioFailures
  BY DEF Use
<1>2. slot \in AudioSlots /\ slots \in [AudioSlots -> Resources] /\ a \in Users(slot)
      /\ slots[slot].inflight = Cardinality(Users(slot))
  BY <1>1, UnderWay
<1>3. Cardinality(Users(slot) \ {a}) = slots[slot].inflight - 1
      /\ Cardinality(Users(slot) \ {a}) \in Nat
  <2>1. IsFiniteSet(Users(slot) \ {a})
        /\ Cardinality(Users(slot) \ {a}) = Cardinality(Users(slot)) - 1
    BY <1>2, OperationsFinite, FS_RemoveElement
  <2> QED BY <1>2, <2>1, FS_CardinalityType
<1>4. /\ slots' \in [AudioSlots -> Resources]
      /\ \A i \in AudioSlots :
            /\ slots'[i].owner = slots[i].owner /\ slots'[i].closing = slots[i].closing
            /\ slots'[i].inflight =
                  IF i = slot THEN slots[i].inflight - 1 ELSE slots[i].inflight
  BY <1>1, <1>2, <1>3 DEF Resources
<1>5. \A i \in AudioSlots : i # slot => Users(i) \ {a} = Users(i)
  BY DEF Users
<1>6. \A i \in AudioSlots : slots'[i].inflight = Cardinality(Users(i) \ {a})
  <2>1. \A i \in AudioSlots : slots[i].inflight = Cardinality(Users(i))
    BY <1>1, UnderWay
  <2>2. \A i \in AudioSlots : i # slot => slots'[i].inflight = Cardinality(Users(i) \ {a})
    BY <1>4, <1>5, <2>1
  <2>3. slots'[slot].inflight = Cardinality(Users(slot) \ {a})
    BY <1>2, <1>3, <1>4
  <2> QED BY <2>2, <2>3
<1>7. \A i \in AudioSlots : slots'[i].owner \in {0, session}
  BY <1>1, <1>4, UnderWay
<1>8. \A b \in Actors : b # a /\ driverOp[b].at = "io" /\ driverOp[b].kind # "register" =>
          /\ slots'[driverOp[b].slot].owner = slots[driverOp[b].slot].owner
          /\ driverOp[b].kind = "close" => slots'[driverOp[b].slot].closing
  BY <1>1, <1>4, UnderWay
<1> QED BY <1>1, <1>4, <1>6, <1>7, <1>8, LeaveKeeps

\* A new resource gets a slot no operation is on, for the session that is active.
LEMMA RegisterResourceKeeps ==
    ASSUME AudioInv, NEW a \in Actors, RegisterResource(a)
    PROVE  AudioInv'
<1> DEFINE free == {i \in AudioSlots : slots[i] = Empty}
<1>1. /\ driverOp[a].at = "io" /\ driverOp[a].kind = "register" /\ lock = None /\ Leave(a)
      /\ UNCHANGED OwnerIdleVars /\ audioFailures' = audioFailures
  BY DEF RegisterResource
<1>2. /\ slots \in [AudioSlots -> Resources] /\ session \in Nat
      /\ \A i \in AudioSlots : slots[i].inflight = Cardinality(Users(i) \ {a})
  <2>1. session \in Nat
    BY DEF AudioInv, Work, Line
  <2> QED BY <1>1, <2>1, UnderWay
<1>3. CASE slots' = slots
  <2>1. \A i \in AudioSlots : slots'[i].owner \in {0, session}
    BY <1>1, <1>3, UnderWay
  <2>2. \A b \in Actors : b # a /\ driverOp[b].at = "io" /\ driverOp[b].kind # "register" =>
            /\ slots'[driverOp[b].slot].owner = slots[driverOp[b].slot].owner
            /\ driverOp[b].kind = "close" => slots'[driverOp[b].slot].closing
    BY <1>1, <1>3, UnderWay
  <2> QED BY <1>1, <1>2, <1>3, <2>1, <2>2, LeaveKeeps
<1>4. CASE Admitted(driverOp[a].session) /\ free # {}
           /\ slots' = [slots EXCEPT ![CHOOSE i \in free : TRUE].owner = driverOp[a].session]
  <2>1. PICK j \in free : j = CHOOSE i \in free : TRUE
    BY <1>4
  <2>2. j \in AudioSlots /\ slots[j] = Empty /\ driverOp[a].session = session
    BY <1>4, <2>1 DEF Admitted
  <2>3. slots' = [slots EXCEPT ![j].owner = session]
    BY <1>4, <2>1, <2>2
  <2>4. /\ slots' \in [AudioSlots -> Resources]
        /\ \A i \in AudioSlots :
              /\ slots'[i].owner = IF i = j THEN session ELSE slots[i].owner
              /\ slots'[i].closing = slots[i].closing /\ slots'[i].inflight = slots[i].inflight
    BY <1>2, <2>2, <2>3 DEF Resources
  <2>5. \A i \in AudioSlots : slots'[i].owner \in {0, session}
    BY <1>1, <2>4, UnderWay
  <2>6. ASSUME NEW b \in Actors, driverOp[b].at = "io", driverOp[b].kind # "register"
        PROVE  /\ slots'[driverOp[b].slot].owner = slots[driverOp[b].slot].owner
               /\ driverOp[b].kind = "close" => slots'[driverOp[b].slot].closing
    <3>1. driverOp[b].slot \in AudioSlots /\ slots[driverOp[b].slot].owner # 0
          /\ (driverOp[b].kind = "close" => slots[driverOp[b].slot].closing)
      BY <1>1, <2>6, UnderWay
    <3>2. driverOp[b].slot # j
      BY <2>2, <3>1 DEF Empty
    <3> QED BY <2>4, <3>1, <3>2
  <2>7. \A i \in AudioSlots : slots'[i].inflight = Cardinality(Users(i) \ {a})
    BY <1>2, <2>4
  <2> QED BY <1>1, <2>4, <2>5, <2>6, <2>7, LeaveKeeps
<1> QED BY <1>3, <1>4 DEF RegisterResource

\* A slot that is freed has drained, and no other operation closes it.
LEMMA CloseResourceKeeps ==
    ASSUME AudioInv, NEW a \in Actors, CloseResource(a)
    PROVE  AudioInv'
<1>1. PICK ok \in BOOLEAN :
          /\ ok => slots[driverOp[a].slot].inflight = 0
          /\ IF slots[driverOp[a].slot].inflight = 0 THEN MayFail(ok) ELSE UNCHANGED audioFailures
          /\ slots' = IF ok THEN [slots EXCEPT ![driverOp[a].slot] = Empty]
                      ELSE [slots EXCEPT ![driverOp[a].slot].closing = FALSE]
  BY DEF CloseResource
<1> DEFINE slot == driverOp[a].slot
<1>0. /\ driverOp[a].at = "io" /\ driverOp[a].kind = "close" /\ lock = None /\ Leave(a)
      /\ UNCHANGED OwnerIdleVars /\ audioFailures' \in {audioFailures, audioFailures + 1}
  BY <1>1 DEF CloseResource, MayFail
<1>2. /\ slot \in AudioSlots /\ slots \in [AudioSlots -> Resources]
      /\ \A i \in AudioSlots : slots[i].inflight = Cardinality(Users(i) \ {a})
      /\ \A i \in AudioSlots : slots[i].owner \in {0, session}
  BY <1>0, UnderWay
<1>3. /\ slots' \in [AudioSlots -> Resources]
      /\ \A i \in AudioSlots :
            /\ slots'[i].owner \in {0, slots[i].owner}
            /\ slots'[i].inflight = slots[i].inflight
            /\ i # slot => slots'[i] = slots[i]
            /\ ~ok => slots'[i].owner = slots[i].owner
  <2>1. Empty \in Resources /\ Empty.owner = 0 /\ Empty.inflight = 0
    BY DEF Empty, Resources
  <2> QED BY <1>1, <1>2, <2>1 DEF Resources
<1>4. ASSUME NEW b \in Actors, b # a, driverOp[b].at = "io", driverOp[b].kind # "register"
      PROVE  /\ slots'[driverOp[b].slot].owner = slots[driverOp[b].slot].owner
             /\ driverOp[b].kind = "close" => slots'[driverOp[b].slot].closing
  <2>1. /\ driverOp[b].slot \in AudioSlots
        /\ driverOp[b].kind = "close" => slots[driverOp[b].slot].closing
        /\ driverOp[b].kind = "use" => b \in Users(driverOp[b].slot)
        /\ driverOp[b].slot = slot => driverOp[b].kind = "use"
    BY <1>0, <1>4, UnderWay
  <2>2. ok /\ driverOp[b].slot = slot => FALSE
    <3> SUFFICES ASSUME ok, driverOp[b].slot = slot
                 PROVE  FALSE
      OBVIOUS
    <3>1. b \in Users(slot) /\ Cardinality(Users(slot)) = 0
      <4>1. Cardinality(Users(slot)) = slots[slot].inflight
        BY <1>0, <1>2, UnderWay
      <4> QED BY <1>1, <2>1, <4>1
    <3> QED BY <3>1, OperationsFinite, FS_EmptySet
  <2> QED BY <1>3, <2>1, <2>2
<1>5. /\ \A i \in AudioSlots : slots'[i].owner \in {0, session}
      /\ \A i \in AudioSlots : slots'[i].inflight = Cardinality(Users(i) \ {a})
  BY <1>2, <1>3
<1> QED BY <1>0, <1>3, <1>4, <1>5, LeaveKeeps

\* The actions of the driver operations.
LEMMA DriverKeeps ==
    ASSUME AudioInv, Driver
    PROVE  AudioInv'
BY StartKeeps, EnterKeeps, UseKeeps, RegisterResourceKeeps, CloseResourceKeeps DEF Driver

--------------------------------------------------------------------------------
(* The theorems *)

\* Nothing is pending, held or under way at boot.
LEMMA InitSound == AudioInit => AudioInv
<1> SUFFICES ASSUME AudioInit PROVE AudioInv
  OBVIOUS
<1> USE DEF AudioInit
<1>1. Calls
  BY Names, ConstantsAssumption DEF Calls, Sleeps, NoCommand
<1>2. Pending = {}
  BY DEF Pending
<1>3. Line
  BY <1>2, Names DEF Line
<1>4. Work
  BY Names DEF Work, Places, Preparations, NotPrepared, NoCommand
<1>5. Locked
  <2>1. NoOp \in Operations /\ Empty \in Resources
    BY DEF NoOp, Operations, Empty, Resources
  <2> QED BY <2>1, Names DEF Locked, NoOp
<1>6. Counted
  <2>1. InIo = {} /\ \A i : Users(i) = {}
    BY DEF InIo, Users, NoOp
  <2> QED BY <2>1, FS_EmptySet DEF Counted, Empty
<1>7. ResourcesCovered /\ NoIoOnCutRail
  BY DEF ResourcesCovered, NoIoOnCutRail, Empty
<1>8. Answered /\ Ended /\ Tokens /\ Restored
  BY <1>2 DEF Answered, Ended, Tokens, TokenIsOwn, TokenGoesStaleOnlyLate, Restored
<1> QED BY <1>1, <1>3, <1>4, <1>5, <1>6, <1>7, <1>8 DEF AudioInv

\* Every state of the service satisfies the invariant.
THEOREM AudioInvariance == AudioSpec => []AudioInv
<1>1. AudioInv /\ [AudioNext]_audioVars => AudioInv'
  <2> SUFFICES ASSUME AudioInv, [AudioNext]_audioVars
               PROVE  AudioInv'
    OBVIOUS
  <2>1. CASE Caller \/ BeginSleep \/ AbortSleep
    BY <2>1, CallersKeep
  <2>2. CASE Owner
    BY <2>2, OwnerKeeps
  <2>3. CASE Driver
    BY <2>3, DriverKeeps
  <2>4. CASE UNCHANGED audioVars
    <3>1. UNCHANGED <<queue, replies, caller, sent, audioRequests, token, audioPc, command, state,
                      session, sessions, audioLease, prepared, maker, lock, driverOp, inflight,
                      slots, sleep, late, lost, audioFailures>>
      BY <2>4 DEF audioVars, callVars, ownerVars, activityVars, railVars, operationVars,
                  clientHistory
    <3>2. Pending' = Pending
      BY <3>1 DEF Pending
    <3>3. Calls' /\ Line' /\ Answered' /\ Ended'
      BY <3>1, <3>2 DEF AudioInv, Calls, Line, Answered, Ended
    <3>4. Work' /\ Locked' /\ Counted' /\ ResourcesCovered' /\ NoIoOnCutRail'
      BY <3>1, OwnerSideKept
    <3>5. Tokens' /\ Restored'
      BY <3>1, <3>2 DEF AudioInv, Tokens, TokenIsOwn, TokenGoesStaleOnlyLate, Restored, Healthy,
                        Owed, Undone
    <3> QED BY <3>3, <3>4, <3>5 DEF AudioInv
  <2> QED BY <2>1, <2>2, <2>3, <2>4 DEF AudioNext
<1> QED BY <1>1, InitSound, PTL DEF AudioSpec

\* The audio task drains exactly the operations that are under way; none of them is
\* on a resource that was removed or that has gone to another session, resources
\* have a session and a lease, and an idle sleep cuts the rail under no operation,
\* for any number of clients, workers and slots (DriverOperation, RegisterResource,
\* CloseResource, EndActivity, PrepareForSleep).
THEOREM ResourcesAreSound == AudioSpec => []ResourcesSound
<1>1. AudioInv => ResourcesSound
  BY InvImplies
<1> QED BY <1>1, AudioInvariance, PTL

\* A client is told of its own session only and loses it silently only when its End
\* was late, and a sleep that is given up gives the service back unless something
\* failed (Call, BeginAudioActivity, EndAudioActivity, RollbackSleep).
THEOREM ClientsAreServed == AudioSpec => []ClientsServed
<1>1. AudioInv => ClientsServed
  BY InvImplies
<1> QED BY <1>1, AudioInvariance, PTL

--------------------------------------------------------------------------------
(* The connectivity service *)

CallTypes == {"start", "prepare", "rollback"}
News == {"gotip", "lost"}
Posts == News \cup {"started", "provisioned"}
NetCommands == [type : CallTypes, id : Nat \ {0}] \cup [type : Posts, id : {0}]
NetAnswers == [id : Nat \ {0}, ok : BOOLEAN]
NetStates == {"off", "provisioning", "connecting", "online", "backoff", "quiescing"}
Wifis == [initialized : BOOLEAN, connected : BOOLEAN, quiescing : BOOLEAN, resume : BOOLEAN]
Radios == {"down", "started", "joining", "joined"}
Sessions == [at : {"idle", "opening", "open", "told", "ending"}, active : BOOLEAN, lease : BOOLEAN,
             saved : BOOLEAN, exit : BOOLEAN, cancel : BOOLEAN, stopped : BOOLEAN]
NetSleeps == [at : {"up", "prepare", "ready", "rollback", "off"}, forced : BOOLEAN]

NetTyped ==
    /\ netQueue \in Seq(NetCommands) /\ netReplies \in Seq(NetAnswers)
    /\ netCaller \in {NoCaller, "client", "power"} /\ {netSent, netRequests, netPc} \subseteq Nat
    /\ netState \in NetStates /\ {online, netLease, timer, resume, known} \subseteq BOOLEAN
    /\ wifi \in Wifis /\ radio \in Radios /\ events \in Seq(News \cup {"started"})
    /\ prov \in Sessions /\ netSleep \in NetSleeps /\ netFailures \in Nat
    /\ {dropped, unanswered, strayed} \subseteq BOOLEAN

\* Ids grow from the replies over the request at hand to the end of the queue; the
\* one that is waited for names a call for the state of the transaction.
InCall ==
    /\ netCaller = NoCaller <=> netSent = 0
    /\ netCaller # NoCaller => netSent = netRequests
    /\ netCaller = "power" => netSleep.at \in {"prepare", "rollback"}
    /\ netPc <= netRequests
    /\ netPc # 0 /\ netPc = netSent => netCaller = "power" /\ netSleep.at = "prepare"
QueueInOrder ==
    /\ \A i \in 1..Len(netQueue) :
          /\ netQueue[i].id <= netRequests
          /\ netQueue[i].id # 0 /\ netQueue[i].id = netSent =>
                netQueue[i].type = IF netCaller = "power" THEN netSleep.at ELSE "start"
          /\ netQueue[i].id # 0 => netPc < netQueue[i].id
    /\ \A i, j \in 1..Len(netQueue) :
          i < j /\ netQueue[j].id # 0 => netQueue[i].id < netQueue[j].id
RepliesInOrder ==
    /\ \A k \in 1..Len(netReplies) :
          netReplies[k].id <= netRequests /\ (netPc # 0 => netReplies[k].id < netPc)
    /\ \A k \in 1..Len(netReplies), i \in 1..Len(netQueue) :
          netQueue[i].id # 0 => netReplies[k].id < netQueue[i].id
Ordered == InCall /\ QueueInOrder /\ RepliesInOrder

\* The answer to the call that waits is there.
Told(ok) == \E k \in 1..Len(netReplies) : netReplies[k].id = netSent /\ netReplies[k].ok = ok
Promised ==
    netSleep.at = "ready" \/ (netCaller = "power" /\ netSleep.at = "prepare" /\ Told(TRUE))

\* A service that has promised to be quiet is, and no rollback is on its way to it; one
\* that is quiescing after the transaction was not answered.
Quiet ==
    /\ Promised =>
        /\ netState = "quiescing" /\ ~online /\ ~netLease /\ ~timer
        /\ radio = "down" /\ prov.at \notin {"opening", "open"}
        /\ netPc = 0 /\ ~Queued("rollback")
    /\ netCaller = "power" /\ netSleep.at = "rollback" /\ Told(TRUE) => netState # "quiescing"
    /\ netPc # 0 => netState = "quiescing" /\ ~netLease /\ ~timer
    /\ netState = "quiescing" /\ netSleep.at = "up" => unanswered

\* A session of the portal comes before there is a station, and what it leads to is in
\* the queue or was dropped.
Portal ==
    /\ prov.active <=> prov.at # "idle"
    /\ prov.lease <=> prov.active
    /\ prov.stopped => prov.at = "idle"
    /\ prov.at = "told" => prov.saved
    /\ prov.at \in {"opening", "open", "told"} =>
          /\ ~wifi.initialized /\ netState \notin {"connecting", "backoff"}
          /\ ~Queued("provisioned")
          /\ netState \in {"provisioning", "quiescing"} \/ strayed
    /\ netState = "quiescing" /\ prov.active => resume
    /\ netState = "provisioning" => netLease \/ strayed
    /\ netState = "provisioning" /\ prov.at \in {"ending", "idle"} /\ outcome = "connected" =>
          Queued("provisioned") \/ dropped \/ strayed

\* No session meets a transaction that did not force its way, and one that it stopped is
\* not waited for by a rollback.
Spared ==
    /\ netSleep.at \in {"prepare", "ready"} /\ ~netSleep.forced => ~prov.lease
    /\ resume => netSleep.forced /\ netSleep.at \in {"prepare", "off"} /\ ~Queued("rollback")

\* There is no station without credentials, and nothing from a station there is not.
Station ==
    /\ wifi.quiescing => netState = "quiescing"
    /\ ~wifi.initialized =>
          /\ radio = "down" /\ ~wifi.connected /\ events = <<>>
          /\ ~Queued("started") /\ ~Queued("gotip") /\ ~Queued("lost")
    /\ wifi.initialized => known
    /\ netState \in {"connecting", "backoff"} => known
    /\ prov.saved => known
    /\ Queued("provisioned") => known

\* Who waits has a timer, who has a timer or a lease waits.
Armed ==
    /\ netState \in {"connecting", "backoff"} => timer
    /\ LeaseMatchesState /\ TimerMatchesState

\* News of the link in a sequence: whether there is any, the last of it, and that
\* every start of the station has some behind it.
NewsIn(s) == \E i \in 1..Len(s) : s[i] \in News
LastIs(s, x) == \E i \in 1..Len(s) : s[i] = x /\ \A j \in (i + 1)..Len(s) : s[j] \notin News
Followed(s) == \A i \in 1..Len(s) : s[i] = "started" => \E j \in (i + 1)..Len(s) : s[j] \in News

Joined == radio = "joined"
Types == [i \in 1..Len(netQueue) |-> netQueue[i].type]

\* The last news that wifi_manager has not heard is true of the link; when it has heard
\* all, it knows the link.
Air ==
    /\ LastIs(events, "gotip") => Joined
    /\ LastIs(events, "lost") => ~Joined
    /\ ~NewsIn(events) => (wifi.connected <=> Joined)
    /\ Joined => Followed(events)

\* The same of the service, as long as none was dropped: the last news in the queue is
\* true of the link, and when there is none g_online is.
OnlineFits ==
    /\ online => Joined
    /\ Joined => online \/ netState = "quiescing"
    /\ netState \in {"connecting", "backoff"} => ~online
Posted ==
    ~dropped /\ ~NewsIn(events) =>
        /\ LastIs(Types, "gotip") => Joined
        /\ LastIs(Types, "lost") => ~Joined
        /\ Joined => Followed(Types)
        /\ ~NewsIn(Types) => OnlineFits

NetInv ==
    NetTyped /\ Ordered /\ Quiet /\ Portal /\ Spared /\ Station /\ Armed /\ Air /\ Posted

--------------------------------------------------------------------------------
(* Sequences of news *)

\* What is left when the first element is taken.
LEMMA NewsLeft ==
    ASSUME NEW S, NEW s \in Seq(S), s # <<>>, NEW t, t = Tail(s)
    PROVE  /\ NewsIn(t) => NewsIn(s)
           /\ NewsIn(s) /\ Head(s) \notin News => NewsIn(t)
           /\ \A x \in News : LastIs(t, x) => LastIs(s, x)
           /\ Head(s) \in News /\ ~NewsIn(t) => LastIs(s, Head(s))
           /\ Followed(s) => Followed(t)
           /\ Followed(s) /\ Head(s) = "started" => NewsIn(t)
<1>1. /\ Len(s) \in Nat /\ Len(s) >= 1 /\ Len(t) = Len(s) - 1 /\ Head(s) = s[1]
      /\ \A i \in 1..Len(t) : t[i] = s[i + 1] /\ i + 1 \in 1..Len(s)
  <2>1. Len(s) \in Nat /\ Len(s) >= 1
    BY EmptySeq
  <2> QED BY <2>1, HeadTailProperties
<1>2. \A i \in 1..Len(s) : i # 1 => i - 1 \in 1..Len(t) /\ t[i - 1] = s[i]
  BY <1>1
<1>3. NewsIn(t) => NewsIn(s)
  BY <1>1 DEF NewsIn
<1>4. NewsIn(s) /\ Head(s) \notin News => NewsIn(t)
  BY <1>1, <1>2 DEF NewsIn
<1>5. ASSUME NEW x \in News, LastIs(t, x)
      PROVE  LastIs(s, x)
  <2>1. PICK i \in 1..Len(t) : t[i] = x /\ \A j \in (i + 1)..Len(t) : t[j] \notin News
    BY <1>5 DEF LastIs
  <2>2. \A j \in (i + 2)..Len(s) : j - 1 \in (i + 1)..Len(t) /\ t[j - 1] = s[j]
    BY <1>1, <1>2
  <2>3. i + 1 \in 1..Len(s) /\ s[i + 1] = x /\ \A j \in ((i + 1) + 1)..Len(s) : s[j] \notin News
    BY <1>1, <2>1, <2>2
  <2> QED BY <2>3 DEF LastIs
<1>6. ASSUME Head(s) \in News, ~NewsIn(t)
      PROVE  LastIs(s, Head(s))
  <2>1. ASSUME NEW j \in (1 + 1)..Len(s)
        PROVE  s[j] \notin News
    <3>1. j - 1 \in 1..Len(t) /\ t[j - 1] = s[j]
      BY <1>1, <1>2
    <3> QED BY <1>6, <3>1 DEF NewsIn
  <2>2. 1 \in 1..Len(s) /\ s[1] = Head(s)
    BY <1>1
  <2> QED BY <2>1, <2>2 DEF LastIs
<1>7. ASSUME Followed(s), NEW i \in 1..Len(s), s[i] = "started"
      PROVE  \E j \in i..Len(t) : t[j] \in News
  <2>1. PICK j \in (i + 1)..Len(s) : s[j] \in News
    BY <1>7 DEF Followed
  <2>2. j - 1 \in i..Len(t) /\ t[j - 1] = s[j]
    BY <1>1, <1>2
  <2> QED BY <2>1, <2>2
<1>8. Followed(s) => Followed(t)
  <2> SUFFICES ASSUME Followed(s), NEW i \in 1..Len(t), t[i] = "started"
               PROVE  \E j \in (i + 1)..Len(t) : t[j] \in News
    BY DEF Followed
  <2>1. i + 1 \in 1..Len(s) /\ s[i + 1] = "started"
    BY <1>1
  <2> QED BY <1>7, <2>1
<1>9. Followed(s) /\ Head(s) = "started" => NewsIn(t)
  BY <1>1, <1>7 DEF NewsIn
<1> QED BY <1>3, <1>4, <1>5, <1>6, <1>8, <1>9

\* What is there when one more has come.
LEMMA NewsAdded ==
    ASSUME NEW S, NEW s \in Seq(S), NEW y \in S, NEW t, t = Append(s, y)
    PROVE  /\ NewsIn(t) => NewsIn(s) \/ y \in News
           /\ NewsIn(s) => NewsIn(t)
           /\ y \in News => NewsIn(t)
           /\ y \notin News => \A x \in News : LastIs(t, x) => LastIs(s, x)
           /\ \A x \in News : LastIs(t, x) /\ y \in News => x = y
           /\ Followed(s) /\ y # "started" => Followed(t)
           /\ y \in News => Followed(t)
<1>1. /\ Len(s) \in Nat /\ Len(t) = Len(s) + 1 /\ t[Len(s) + 1] = y
      /\ \A i \in 1..Len(s) : t[i] = s[i]
  BY AppendProperties
<1>2. \A i \in 1..Len(t) : i = Len(s) + 1 \/ i \in 1..Len(s)
  BY <1>1
<1>3. NewsIn(t) <=> NewsIn(s) \/ y \in News
  <2>1. Len(s) + 1 \in 1..Len(t) /\ \A i \in 1..Len(s) : i \in 1..Len(t)
    BY <1>1
  <2> QED BY <1>1, <1>2, <2>1 DEF NewsIn
<1>4. ASSUME y \notin News, NEW x \in News, LastIs(t, x)
      PROVE  LastIs(s, x)
  <2>1. PICK i \in 1..Len(t) : t[i] = x /\ \A j \in (i + 1)..Len(t) : t[j] \notin News
    BY <1>4 DEF LastIs
  <2>2. i \in 1..Len(s) /\ s[i] = x
    BY <1>1, <1>2, <1>4, <2>1
  <2>3. \A j \in (i + 1)..Len(s) : j \in (i + 1)..Len(t) /\ s[j] = t[j]
    BY <1>1
  <2> QED BY <2>1, <2>2, <2>3 DEF LastIs
<1>5. ASSUME y \in News, NEW x \in News, LastIs(t, x)
      PROVE  x = y
  <2>1. PICK i \in 1..Len(t) : t[i] = x /\ \A j \in (i + 1)..Len(t) : t[j] \notin News
    BY <1>5 DEF LastIs
  <2>2. i < Len(s) + 1 => Len(s) + 1 \in (i + 1)..Len(t)
    BY <1>1
  <2> QED BY <1>1, <1>2, <1>5, <2>1, <2>2
<1>6. ASSUME Followed(s), y # "started"
      PROVE  Followed(t)
  <2> SUFFICES ASSUME NEW i \in 1..Len(t), t[i] = "started"
               PROVE  \E j \in (i + 1)..Len(t) : t[j] \in News
    BY DEF Followed
  <2>1. i \in 1..Len(s) /\ s[i] = "started"
    BY <1>1, <1>2, <1>6
  <2>2. PICK j \in (i + 1)..Len(s) : s[j] \in News
    BY <1>6, <2>1 DEF Followed
  <2>3. j \in (i + 1)..Len(t) /\ t[j] = s[j]
    BY <1>1
  <2> QED BY <2>2, <2>3
<1>7. y \in News => Followed(t)
  <2> SUFFICES ASSUME y \in News, NEW i \in 1..Len(t), t[i] = "started"
               PROVE  \E j \in (i + 1)..Len(t) : t[j] \in News
    BY DEF Followed
  <2>1. i # Len(s) + 1
    BY <1>1 DEF News
  <2>2. Len(s) + 1 \in (i + 1)..Len(t)
    BY <1>1, <1>2, <2>1
  <2> QED BY <1>1, <2>2
<1> QED BY <1>3, <1>4, <1>5, <1>6, <1>7

--------------------------------------------------------------------------------
(* The queue and the replies *)

\* What the queue holds once its first command is taken.
LEMMA QueueTaken ==
    ASSUME netQueue \in Seq(NetCommands), netQueue # <<>>, netQueue' = Tail(netQueue)
    PROVE  /\ netQueue' \in Seq(NetCommands) /\ Head(netQueue) \in NetCommands
           /\ Len(netQueue) \in Nat /\ Len(netQueue) >= 1 /\ Head(netQueue) = netQueue[1]
           /\ Len(netQueue') = Len(netQueue) - 1
           /\ \A i \in 1..Len(netQueue') :
                 i + 1 \in 1..Len(netQueue) /\ netQueue'[i] = netQueue[i + 1]
           /\ \A t : Queued(t)' => Queued(t)
           /\ \A t : Queued(t) /\ t # Head(netQueue).type => Queued(t)'
           /\ Queued(Head(netQueue).type)
           /\ Types \in Seq(CallTypes \cup Posts) /\ Types # <<>> /\ Types' = Tail(Types)
           /\ Head(Types) = Head(netQueue).type
<1>1. /\ netQueue' \in Seq(NetCommands) /\ Head(netQueue) \in NetCommands
      /\ Len(netQueue) \in Nat /\ Len(netQueue) >= 1 /\ Head(netQueue) = netQueue[1]
      /\ Len(netQueue') = Len(netQueue) - 1
      /\ \A i \in 1..Len(netQueue') :
            i + 1 \in 1..Len(netQueue) /\ netQueue'[i] = netQueue[i + 1]
  <2>1. Len(netQueue) \in Nat /\ Len(netQueue) >= 1
    BY EmptySeq
  <2> QED BY <2>1, HeadTailProperties
<1>2. /\ \A i \in 1..Len(netQueue) : netQueue[i] \in NetCommands
      /\ DOMAIN netQueue = 1..Len(netQueue) /\ DOMAIN netQueue' = 1..Len(netQueue')
  BY <1>1, ElementOfSeq, LenProperties
<1>3. \A t : Queued(t)' => Queued(t)
  BY <1>1, <1>2 DEF Queued
<1>4. ASSUME NEW t, Queued(t), t # Head(netQueue).type
      PROVE  Queued(t)'
  <2>1. PICK i \in 1..Len(netQueue) : netQueue[i].type = t
    BY <1>2, <1>4 DEF Queued
  <2>2. i # 1
    BY <1>1, <1>4, <2>1
  <2>3. i - 1 \in 1..Len(netQueue') /\ netQueue'[i - 1] = netQueue[i]
    BY <1>1, <2>2
  <2> QED BY <1>2, <2>1, <2>3 DEF Queued
<1>5. Queued(Head(netQueue).type)
  BY <1>1, <1>2 DEF Queued
<1>6. \A c \in NetCommands : c.type \in CallTypes \cup Posts
  BY DEF NetCommands
<1>7. /\ Types \in Seq(CallTypes \cup Posts) /\ Len(Types) = Len(netQueue)
      /\ \A i \in 1..Len(netQueue) : Types[i] = netQueue[i].type
  BY <1>1, <1>2, <1>6 DEF Types
<1>8. Types # <<>> /\ Head(Types) = Head(netQueue).type
  BY <1>1, <1>7, EmptySeq, HeadTailProperties
<1>9. /\ Tail(Types) \in Seq(CallTypes \cup Posts) /\ Len(Tail(Types)) = Len(netQueue')
      /\ \A i \in 1..Len(netQueue') : Tail(Types)[i] = netQueue'[i].type
  BY <1>1, <1>7, <1>8, HeadTailProperties
<1>10. \A i \in 1..Len(netQueue') : netQueue'[i] \in NetCommands
  BY <1>1, <1>2
<1>11. /\ Types' \in Seq(CallTypes \cup Posts) /\ Len(Types') = Len(netQueue')
       /\ \A i \in 1..Len(netQueue') : Types'[i] = netQueue'[i].type
  BY <1>1, <1>6, <1>10 DEF Types
<1>12. Types' = Tail(Types)
  <2> DEFINE s == Types'
             r == Tail(Types)
             S == CallTypes \cup Posts
  <2>1. s \in Seq(S) /\ r \in Seq(S) /\ Len(s) = Len(r) /\ \A i \in 1..Len(s) : s[i] = r[i]
    BY <1>9, <1>11
  <2> HIDE DEF s, r, S
  <2>2. s = r
    BY <2>1, SeqEqual
  <2> QED BY <2>2 DEF s, r
<1> QED BY <1>1, <1>3, <1>4, <1>5, <1>7, <1>8, <1>12

\* What it holds once a command is added.
LEMMA QueueAdded ==
    ASSUME netQueue \in Seq(NetCommands), NEW c \in NetCommands, netQueue' = Append(netQueue, c)
    PROVE  /\ netQueue' \in Seq(NetCommands)
           /\ Len(netQueue) \in Nat /\ Len(netQueue') = Len(netQueue) + 1
           /\ netQueue'[Len(netQueue) + 1] = c
           /\ \A i \in 1..Len(netQueue) : netQueue'[i] = netQueue[i]
           /\ \A t : Queued(t)' <=> Queued(t) \/ t = c.type
           /\ c.type \in CallTypes \cup Posts
           /\ Types \in Seq(CallTypes \cup Posts) /\ Types' = Append(Types, c.type)
<1>1. /\ netQueue' \in Seq(NetCommands)
      /\ Len(netQueue) \in Nat /\ Len(netQueue') = Len(netQueue) + 1
      /\ netQueue'[Len(netQueue) + 1] = c
      /\ \A i \in 1..Len(netQueue) : netQueue'[i] = netQueue[i]
  BY AppendProperties, LenProperties
<1>2. /\ \A i \in 1..Len(netQueue) : netQueue[i] \in NetCommands
      /\ DOMAIN netQueue = 1..Len(netQueue) /\ DOMAIN netQueue' = 1..Len(netQueue')
  BY <1>1, ElementOfSeq, LenProperties
<1>3. \A i \in 1..Len(netQueue') : i = Len(netQueue) + 1 \/ i \in 1..Len(netQueue)
  BY <1>1
<1>4. /\ Len(netQueue) + 1 \in 1..Len(netQueue')
      /\ \A i \in 1..Len(netQueue) : i \in 1..Len(netQueue')
  BY <1>1
<1>5. \A t : Queued(t)' <=> Queued(t) \/ t = c.type
  BY <1>1, <1>2, <1>3, <1>4 DEF Queued
<1>6. \A d \in NetCommands : d.type \in CallTypes \cup Posts
  BY DEF NetCommands
<1>7. /\ Types \in Seq(CallTypes \cup Posts) /\ Len(Types) = Len(netQueue)
      /\ \A i \in 1..Len(netQueue) : Types[i] = netQueue[i].type
  BY <1>1, <1>2, <1>6 DEF Types
<1>8. /\ Append(Types, c.type) \in Seq(CallTypes \cup Posts)
      /\ Len(Append(Types, c.type)) = Len(netQueue')
      /\ \A i \in 1..Len(netQueue') : Append(Types, c.type)[i] = netQueue'[i].type
  BY <1>1, <1>3, <1>6, <1>7, AppendProperties
<1>9. \A i \in 1..Len(netQueue') : netQueue'[i] \in NetCommands
  BY <1>1, <1>2, <1>3
<1>10. /\ Types' \in Seq(CallTypes \cup Posts) /\ Len(Types') = Len(netQueue')
       /\ \A i \in 1..Len(netQueue') : Types'[i] = netQueue'[i].type
  BY <1>1, <1>6, <1>9 DEF Types
<1>11. Types' = Append(Types, c.type)
  <2>1. \A i \in 1..Len(Types') : Types'[i] = Append(Types, c.type)[i]
    BY <1>8, <1>10
  <2>2. Len(Types') = Len(Append(Types, c.type))
    BY <1>8, <1>10
  <2> QED BY <1>8, <1>10, <2>1, <2>2, SeqEqual
<1> QED BY <1>1, <1>5, <1>6, <1>7, <1>11

\* A reply is added or finds the queue full.
LEMMA NetReplied ==
    ASSUME netReplies \in Seq(NetAnswers), NEW id \in Nat, NEW ok \in BOOLEAN, NetReply(id, ok)
    PROVE  /\ netReplies' \in Seq(NetAnswers)
           /\ \A k \in 1..Len(netReplies') :
                 \/ id # 0 /\ netReplies'[k] = [id |-> id, ok |-> ok]
                 \/ k \in 1..Len(netReplies) /\ netReplies'[k] = netReplies[k]
           /\ netSent' = netSent =>
                 \A b : Told(b)' => Told(b) \/ (id # 0 /\ id = netSent /\ b = ok)
<1>1. CASE netReplies' = netReplies
  BY <1>1 DEF Told
<1>2. CASE id # 0 /\ netReplies' = Append(netReplies, [id |-> id, ok |-> ok])
  <2>1. [id |-> id, ok |-> ok] \in NetAnswers
    BY <1>2 DEF NetAnswers
  <2>2. /\ netReplies' \in Seq(NetAnswers) /\ Len(netReplies) \in Nat
        /\ Len(netReplies') = Len(netReplies) + 1
        /\ netReplies'[Len(netReplies) + 1] = [id |-> id, ok |-> ok]
        /\ \A k \in 1..Len(netReplies) : netReplies'[k] = netReplies[k]
    BY <1>2, <2>1, AppendProperties, LenProperties
  <2>3. \A k \in 1..Len(netReplies') : k = Len(netReplies) + 1 \/ k \in 1..Len(netReplies)
    BY <2>2
  <2> QED BY <1>2, <2>2, <2>3 DEF Told
<1> QED BY <1>1, <1>2 DEF NetReply

\* A reply is taken.
LEMMA ReplyTaken ==
    ASSUME netReplies \in Seq(NetAnswers), netReplies # <<>>, netReplies' = Tail(netReplies)
    PROVE  /\ netReplies' \in Seq(NetAnswers) /\ Head(netReplies) \in NetAnswers
           /\ \A k \in 1..Len(netReplies') : \E j \in 1..Len(netReplies) :
                 netReplies'[k] = netReplies[j]
           /\ \E j \in 1..Len(netReplies) : Head(netReplies) = netReplies[j]
           /\ netSent' = netSent => \A b : Told(b)' => Told(b)
<1>1. /\ netReplies' \in Seq(NetAnswers) /\ Head(netReplies) \in NetAnswers
      /\ Len(netReplies) \in Nat /\ Len(netReplies) >= 1 /\ Head(netReplies) = netReplies[1]
      /\ \A i \in 1..Len(netReplies') :
            i + 1 \in 1..Len(netReplies) /\ netReplies'[i] = netReplies[i + 1]
  <2>1. Len(netReplies) \in Nat /\ Len(netReplies) >= 1
    BY EmptySeq
  <2> QED BY <2>1, HeadTailProperties
<1>2. 1 \in 1..Len(netReplies)
  BY <1>1
<1> QED BY <1>1, <1>2 DEF Told

--------------------------------------------------------------------------------
(* Order *)

\* What the order needs of the types.
LEMMA IdsAreNumbers ==
    ASSUME NetTyped
    PROVE  /\ netSent \in Nat /\ netRequests \in Nat /\ netPc \in Nat
           /\ \A i \in 1..Len(netQueue) : netQueue[i] \in NetCommands /\ netQueue[i].id \in Nat
           /\ \A k \in 1..Len(netReplies) : netReplies[k].id \in Nat \ {0}
<1>1. \A c \in NetCommands : c.id \in Nat
  BY DEF NetCommands
<1>2. \A a \in NetAnswers : a.id \in Nat \ {0}
  BY DEF NetAnswers
<1>3. netQueue \in Seq(NetCommands) /\ netReplies \in Seq(NetAnswers)
  BY DEF NetTyped
<1>4. \A i \in 1..Len(netQueue) : netQueue[i] \in NetCommands
  BY <1>3, ElementOfSeq
<1>5. \A k \in 1..Len(netReplies) : netReplies[k] \in NetAnswers
  BY <1>3, ElementOfSeq
<1> QED BY <1>1, <1>2, <1>4, <1>5 DEF NetTyped

\* A call takes the next id, and what was answered before is drained.
LEMMA OrderedCalled ==
    ASSUME NetTyped, Ordered, NEW who \in {"client", "power"}, NEW type \in CallTypes,
           Call(who, type), type = IF who = "power" THEN netSleep.at ELSE "start"
    PROVE  Ordered' /\ \A b : ~Told(b)'
<1> DEFINE c == [type |-> type, id |-> netRequests + 1]
<1>1. /\ netCaller = NoCaller /\ netRequests' = netRequests + 1 /\ netCaller' = who
      /\ netSent' = netRequests + 1 /\ netQueue' = Append(netQueue, c) /\ netReplies' = <<>>
      /\ netPc' = netPc /\ netSleep' = netSleep
  BY DEF Call, sleepVars
<1>2. /\ netSent \in Nat /\ netRequests \in Nat /\ netPc \in Nat
      /\ \A i \in 1..Len(netQueue) : netQueue[i].id \in Nat
  BY IdsAreNumbers
<1>3. c \in NetCommands
  BY <1>2 DEF NetCommands
<1>4. /\ Len(netQueue) \in Nat /\ Len(netQueue') = Len(netQueue) + 1
      /\ netQueue'[Len(netQueue) + 1] = c
      /\ \A i \in 1..Len(netQueue) : netQueue'[i] = netQueue[i]
  <2> HIDE DEF c
  <2> QED BY <1>1, <1>3, QueueAdded DEF NetTyped
<1>5. \A i \in 1..Len(netQueue') : i = Len(netQueue) + 1 \/ i \in 1..Len(netQueue)
  BY <1>4
<1>6. Len(netReplies') = 0
  BY <1>1, EmptySeq
<1>7. InCall'
  <2>1. netSleep.at # "start"
    BY DEF NetTyped, NetSleeps
  <2> QED BY <1>1, <1>2, <2>1 DEF Ordered, InCall, NoCaller, CallTypes
<1>8. \A i \in 1..Len(netQueue) : netQueue[i].id <= netRequests
  BY DEF Ordered, QueueInOrder
<1>9. QueueInOrder'
  <2>1. ASSUME NEW i \in 1..Len(netQueue')
        PROVE  /\ netQueue'[i].id <= netRequests'
               /\ netQueue'[i].id # 0 /\ netQueue'[i].id = netSent' =>
                     netQueue'[i].type = IF netCaller' = "power" THEN netSleep.at' ELSE "start"
               /\ netQueue'[i].id # 0 => netPc' < netQueue'[i].id
    <3>1. CASE i = Len(netQueue) + 1
      BY <1>1, <1>2, <1>4, <3>1 DEF Ordered, InCall
    <3>2. CASE i \in 1..Len(netQueue)
      BY <1>1, <1>2, <1>4, <1>8, <3>2 DEF Ordered, QueueInOrder
    <3> QED BY <1>5, <3>1, <3>2
  <2>2. ASSUME NEW i \in 1..Len(netQueue'), NEW j \in 1..Len(netQueue'),
               i < j, netQueue'[j].id # 0
        PROVE  netQueue'[i].id < netQueue'[j].id
    <3>1. i \in 1..Len(netQueue)
      BY <1>4, <1>5, <2>2
    <3>2. CASE j = Len(netQueue) + 1
      BY <1>2, <1>4, <1>8, <3>1, <3>2
    <3>3. CASE j \in 1..Len(netQueue)
      BY <1>4, <2>2, <3>1, <3>3 DEF Ordered, QueueInOrder
    <3> QED BY <1>5, <3>2, <3>3
  <2> QED BY <2>1, <2>2 DEF QueueInOrder
<1>10. RepliesInOrder' /\ \A b : ~Told(b)'
  BY <1>6 DEF RepliesInOrder, Told
<1> QED BY <1>7, <1>9, <1>10 DEF Ordered

\* A posted command has no id and is behind nothing that has.
LEMMA OrderedPosted ==
    ASSUME NetTyped, Ordered, NEW type \in Posts,
           netQueue' = Append(netQueue, [type |-> type, id |-> 0]),
           UNCHANGED <<netReplies, netCaller, netSent, netRequests, netPc, netSleep>>
    PROVE  Ordered'
<1> DEFINE c == [type |-> type, id |-> 0]
<1>1. c \in NetCommands
  BY DEF NetCommands
<1>2. /\ Len(netQueue) \in Nat /\ Len(netQueue') = Len(netQueue) + 1
      /\ netQueue'[Len(netQueue) + 1] = c
      /\ \A i \in 1..Len(netQueue) : netQueue'[i] = netQueue[i]
  <2>1. netQueue' = Append(netQueue, c)
    OBVIOUS
  <2> HIDE DEF c
  <2> QED BY <1>1, <2>1, QueueAdded DEF NetTyped
<1>3. \A i \in 1..Len(netQueue') : i = Len(netQueue) + 1 \/ i \in 1..Len(netQueue)
  BY <1>2
<1>4. netRequests \in Nat /\ netQueue'[Len(netQueue) + 1].id = 0
  BY <1>2, IdsAreNumbers
<1>5. InCall'
  BY DEF Ordered, InCall
<1>6. QueueInOrder'
  <2>1. ASSUME NEW i \in 1..Len(netQueue')
        PROVE  /\ netQueue'[i].id <= netRequests'
               /\ netQueue'[i].id # 0 /\ netQueue'[i].id = netSent' =>
                     netQueue'[i].type = IF netCaller' = "power" THEN netSleep.at' ELSE "start"
               /\ netQueue'[i].id # 0 => netPc' < netQueue'[i].id
    <3>1. CASE i = Len(netQueue) + 1
      BY <1>4, <3>1
    <3>2. CASE i \in 1..Len(netQueue)
      BY <1>2, <3>2 DEF Ordered, QueueInOrder
    <3> QED BY <1>3, <3>1, <3>2
  <2>2. ASSUME NEW i \in 1..Len(netQueue'), NEW j \in 1..Len(netQueue'),
               i < j, netQueue'[j].id # 0
        PROVE  netQueue'[i].id < netQueue'[j].id
    <3>1. i \in 1..Len(netQueue) /\ j \in 1..Len(netQueue)
      BY <1>2, <1>3, <1>4, <2>2
    <3> QED BY <1>2, <2>2, <3>1 DEF Ordered, QueueInOrder
  <2> QED BY <2>1, <2>2 DEF QueueInOrder
<1>7. RepliesInOrder'
  BY <1>2, <1>3, <1>4 DEF Ordered, RepliesInOrder
<1> QED BY <1>5, <1>6, <1>7 DEF Ordered

\* The owner takes a command, and answers it or has it at hand.
LEMMA OrderedTaken ==
    ASSUME NetTyped, Ordered, netPc = 0, netQueue # <<>>, netQueue' = Tail(netQueue),
           UNCHANGED <<netCaller, netSent, netRequests, netSleep>>,
           \/ netPc' = 0 /\ \/ UNCHANGED netReplies
                            \/ \E ok \in BOOLEAN : NetReply(Head(netQueue).id, ok)
           \/ /\ netPc' = Head(netQueue).id /\ Head(netQueue).id # 0 /\ UNCHANGED netReplies
              /\ netPc' = netSent => netCaller = "power" /\ netSleep.at = "prepare"
    PROVE  Ordered'
<1> DEFINE n == Head(netQueue).id
<1>1. /\ Len(netQueue) \in Nat /\ Len(netQueue) >= 1 /\ n = netQueue[1].id
      /\ Len(netQueue') = Len(netQueue) - 1
      /\ \A i \in 1..Len(netQueue') :
            i + 1 \in 1..Len(netQueue) /\ netQueue'[i] = netQueue[i + 1]
  BY QueueTaken DEF NetTyped
<1>2. /\ netSent \in Nat /\ netRequests \in Nat /\ n \in Nat
      /\ \A i \in 1..Len(netQueue) : netQueue[i].id \in Nat
  BY <1>1, IdsAreNumbers
<1>3. \A i \in 1..Len(netQueue') : netQueue'[i].id # 0 => n < netQueue'[i].id
  BY <1>1 DEF Ordered, QueueInOrder
<1>4. n <= netRequests
  BY <1>1 DEF Ordered, QueueInOrder
<1>5. netPc' = 0 \/ netPc' = n
  OBVIOUS
<1>6. InCall'
  BY <1>2, <1>4 DEF Ordered, InCall
<1>7. QueueInOrder'
  <2>1. ASSUME NEW i \in 1..Len(netQueue')
        PROVE  /\ netQueue'[i].id <= netRequests'
               /\ netQueue'[i].id # 0 /\ netQueue'[i].id = netSent' =>
                     netQueue'[i].type = IF netCaller' = "power" THEN netSleep.at' ELSE "start"
               /\ netQueue'[i].id # 0 => netPc' < netQueue'[i].id
    BY <1>1, <1>2, <1>3, <1>5 DEF Ordered, QueueInOrder
  <2>2. ASSUME NEW i \in 1..Len(netQueue'), NEW j \in 1..Len(netQueue'),
               i < j, netQueue'[j].id # 0
        PROVE  netQueue'[i].id < netQueue'[j].id
    BY <1>1, <2>2 DEF Ordered, QueueInOrder
  <2> QED BY <2>1, <2>2 DEF QueueInOrder
<1>8. \A k \in 1..Len(netReplies) :
         /\ netReplies[k].id \in Nat /\ netReplies[k].id <= netRequests
         /\ n # 0 => netReplies[k].id < n
  BY <1>1, IdsAreNumbers DEF Ordered, RepliesInOrder
<1>9. \A k \in 1..Len(netReplies') :
         \/ n # 0 /\ netPc' = 0 /\ netReplies'[k].id = n
         \/ k \in 1..Len(netReplies) /\ netReplies'[k] = netReplies[k]
  <2>1. CASE UNCHANGED netReplies
    BY <2>1
  <2>2. CASE netPc' = 0 /\ \E ok \in BOOLEAN : NetReply(n, ok)
    <3>1. PICK ok \in BOOLEAN : NetReply(n, ok)
      BY <2>2
    <3>2. netReplies \in Seq(NetAnswers)
      BY DEF NetTyped
    <3>3. n \in Nat
      BY <1>2
    <3> HIDE DEF n
    <3>4. \A k \in 1..Len(netReplies') :
             \/ n # 0 /\ netReplies'[k] = [id |-> n, ok |-> ok]
             \/ k \in 1..Len(netReplies) /\ netReplies'[k] = netReplies[k]
      BY <3>1, <3>2, <3>3, NetReplied
    <3> QED BY <2>2, <3>4
  <2> QED BY <2>1, <2>2
<1>10. RepliesInOrder'
  <2>1. ASSUME NEW k \in 1..Len(netReplies')
        PROVE  netReplies'[k].id <= netRequests' /\ (netPc' # 0 => netReplies'[k].id < netPc')
    BY <1>4, <1>5, <1>8, <1>9
  <2>2. ASSUME NEW k \in 1..Len(netReplies'), NEW i \in 1..Len(netQueue'), netQueue'[i].id # 0
        PROVE  netReplies'[k].id < netQueue'[i].id
    <3>1. CASE netReplies'[k].id = n
      BY <1>3, <2>2, <3>1
    <3>2. CASE k \in 1..Len(netReplies) /\ netReplies'[k] = netReplies[k]
      BY <1>1, <2>2, <3>2 DEF Ordered, RepliesInOrder
    <3> QED BY <1>9, <3>1, <3>2
  <2> QED BY <2>1, <2>2 DEF RepliesInOrder
<1> QED BY <1>6, <1>7, <1>10 DEF Ordered

\* The wait for a session is over and the request at hand is answered.
LEMMA OrderedStopped ==
    ASSUME NetTyped, Ordered, netPc # 0, netPc' = 0, NEW ok \in BOOLEAN, NetReply(netPc, ok),
           UNCHANGED <<netQueue, netCaller, netSent, netRequests, netSleep>>
    PROVE  Ordered'
<1>1. /\ netPc \in Nat /\ netRequests \in Nat
      /\ \A i \in 1..Len(netQueue) : netQueue[i].id \in Nat
  BY IdsAreNumbers
<1>2. \A k \in 1..Len(netReplies') :
         \/ netReplies'[k].id = netPc
         \/ k \in 1..Len(netReplies) /\ netReplies'[k] = netReplies[k]
  <2>1. netReplies \in Seq(NetAnswers)
    BY DEF NetTyped
  <2>2. \A k \in 1..Len(netReplies') :
           \/ netReplies'[k] = [id |-> netPc, ok |-> ok]
           \/ k \in 1..Len(netReplies) /\ netReplies'[k] = netReplies[k]
    BY <1>1, <2>1, NetReplied
  <2> QED BY <2>2
<1>3. InCall'
  BY <1>1 DEF Ordered, InCall
<1>4. QueueInOrder'
  BY <1>1 DEF Ordered, QueueInOrder
<1>5. RepliesInOrder'
  BY <1>1, <1>2 DEF Ordered, InCall, QueueInOrder, RepliesInOrder
<1> QED BY <1>3, <1>4, <1>5 DEF Ordered

\* A reply is taken, or the call ends, and with a call of the power coordinator the
\* transaction moves on.
LEMMA OrderedConcluded ==
    ASSUME NetTyped, Ordered, UNCHANGED <<netQueue, netRequests, netPc>>,
           \/ UNCHANGED netReplies
           \/ netReplies # <<>> /\ netReplies' = Tail(netReplies),
           \/ UNCHANGED <<netCaller, netSent>> /\ (netCaller = "power" => UNCHANGED netSleep)
           \/ netCaller' = NoCaller /\ netSent' = 0
    PROVE  Ordered'
<1>1. netPc \in Nat /\ \A i \in 1..Len(netQueue) : netQueue[i].id \in Nat
  BY IdsAreNumbers
<1>2. \A k \in 1..Len(netReplies') : \E j \in 1..Len(netReplies) : netReplies'[k] = netReplies[j]
  BY ReplyTaken DEF NetTyped
<1>3. InCall'
  BY <1>1 DEF Ordered, InCall, NoCaller
<1>4. QueueInOrder'
  BY <1>1 DEF Ordered, QueueInOrder
<1>5. RepliesInOrder'
  BY <1>2 DEF Ordered, RepliesInOrder
<1> QED BY <1>3, <1>4, <1>5 DEF Ordered

--------------------------------------------------------------------------------
(* The link *)

\* What any call of the driver does to the station and to the news of it.
DriverStep ==
    /\ wifi' \in Wifis /\ radio' \in Radios /\ events' \in Seq(News \cup {"started"})
    /\ netFailures' \in Nat /\ netFailures' >= netFailures
    /\ wifi.initialized => wifi'.initialized
    /\ ~wifi'.initialized => radio' = radio /\ events' = events /\ wifi'.connected = wifi.connected
    /\ \/ /\ events' = events /\ (Joined' <=> Joined)
          /\ wifi'.connected = wifi.connected \/ (~Joined /\ ~wifi'.connected)
       \/ /\ events' = Append(events, "started") /\ ~Joined /\ ~Joined'
          /\ wifi'.connected = wifi.connected
       \/ events' = Append(events, "lost") /\ ~Joined'

\* The types the driver's calls need.
LEMMA DriverTypes ==
    ASSUME NetTyped
    PROVE  /\ wifi \in Wifis /\ radio \in Radios /\ events \in Seq(News \cup {"started"})
           /\ netFailures \in Nat
           /\ \A x \in {"started", "lost"} : Append(events, x) \in Seq(News \cup {"started"})
<1>1. events \in Seq(News \cup {"started"})
  BY DEF NetTyped
<1>2. \A x \in {"started", "lost"} : Append(events, x) \in Seq(News \cup {"started"})
  BY <1>1, AppendProperties DEF News
<1> QED BY <1>1, <1>2 DEF NetTyped

\* A call of the driver leaves true what is said of the link.
LEMMA AirAfterDriver ==
    ASSUME NetTyped, Air, DriverStep
    PROVE  Air' /\ (~NewsIn(events') => ~NewsIn(events) /\ (Joined' <=> Joined))
<1> DEFINE S == News \cup {"started"}
<1>0. /\ events \in Seq(S) /\ "started" \in S /\ "started" \notin News
      /\ "lost" \in S /\ "lost" \in News
  BY DEF NetTyped, News
<1> HIDE DEF S
<1>1. CASE /\ events' = events /\ (Joined' <=> Joined)
           /\ wifi'.connected = wifi.connected \/ (~Joined /\ ~wifi'.connected)
  BY <1>1 DEF Air
<1>2. CASE /\ events' = Append(events, "started") /\ ~Joined /\ ~Joined'
           /\ wifi'.connected = wifi.connected
  <2>1. /\ NewsIn(events') <=> NewsIn(events)
        /\ \A x \in News : LastIs(events', x) => LastIs(events, x)
    BY <1>0, <1>2, NewsAdded
  <2> QED BY <1>2, <2>1 DEF Air, News
<1>3. CASE events' = Append(events, "lost") /\ ~Joined'
  <2>1. NewsIn(events')
    BY <1>0, <1>3, NewsAdded
  <2>2. ASSUME NEW x \in News, LastIs(events', x)
        PROVE  x = "lost"
    BY <1>0, <1>3, <2>2, NewsAdded
  <2> QED BY <1>0, <1>3, <2>1, <2>2 DEF Air, News
<1> QED BY <1>1, <1>2, <1>3 DEF DriverStep

\* The driver is left alone, or told to connect.
LEMMA DriverLeft ==
    ASSUME NetTyped, UNCHANGED <<wifi, events, netFailures>>, UNCHANGED radio \/ Connect
    PROVE  DriverStep
<1>1. radio' = radio \/ (radio = "started" /\ radio' = "joining")
  BY DEF Connect
<1>2. radio' \in Radios /\ (Joined' <=> Joined)
  BY <1>1, DriverTypes DEF Joined, Radios
<1>3. ~wifi.initialized => radio' = radio
  BY DEF Connect
<1> QED BY <1>2, <1>3, DriverTypes DEF DriverStep

\* The radio is started, when it was initialized.
LEMMA DriverStarts ==
    ASSUME NetTyped, Station, wifi.initialized, wifi' \in Wifis, wifi'.initialized,
           wifi'.connected = wifi.connected, NEW ok \in BOOLEAN, EspStart(ok)
    PROVE  DriverStep /\ (~ok => netFailures' > 0 /\ UNCHANGED <<radio, events>>)
<1>1. netFailures' \in Nat /\ netFailures' >= netFailures /\ (~ok => netFailures' > 0)
  BY DriverTypes DEF EspStart, NetMayFail
<1>2. CASE ok /\ radio = "down"
  <2>1. radio' = "started" /\ events' = Append(events, "started")
    BY <1>2 DEF EspStart
  <2> QED BY <1>1, <1>2, <2>1, DriverTypes DEF DriverStep, Joined, Radios
<1>3. CASE ~(ok /\ radio = "down")
  <2>1. radio' = radio /\ events' = events
    BY <1>3 DEF EspStart
  <2> QED BY <1>1, <2>1, DriverTypes DEF DriverStep, Joined
<1> QED BY <1>2, <1>3

\* The radio is stopped, when it was initialized.
LEMMA DriverStops ==
    ASSUME NetTyped, wifi.initialized, NEW ok \in BOOLEAN, EspStop(ok), wifi' \in Wifis,
           wifi'.initialized, wifi'.connected = (wifi.connected /\ ~ok)
    PROVE  DriverStep /\ (ok => radio' = "down") /\ (~ok => UNCHANGED <<radio, events>>)
<1>1. netFailures' \in Nat /\ netFailures' >= netFailures
  BY DriverTypes DEF EspStop, NetMayFail
<1>2. CASE ok /\ radio = "joined"
  <2>1. radio' = "down" /\ events' = Append(events, "lost")
    BY <1>2 DEF EspStop
  <2> QED BY <1>1, <1>2, <2>1, DriverTypes DEF DriverStep, Joined, Radios
<1>3. CASE ok /\ radio # "joined"
  <2>1. radio' = "down" /\ events' = events
    BY <1>3 DEF EspStop
  <2> QED BY <1>1, <1>3, <2>1, DriverTypes DEF DriverStep, Joined, Radios
<1>4. CASE ~ok
  <2>1. radio' = radio /\ events' = events /\ wifi'.connected = wifi.connected
    <3>1. wifi.connected \in BOOLEAN
      BY DriverTypes DEF Wifis
    <3> QED BY <1>4, <3>1 DEF EspStop
  <2> QED BY <1>1, <1>4, <2>1, DriverTypes DEF DriverStep, Joined
<1> QED BY <1>2, <1>3, <1>4

\* StopWifiStationRadio
LEMMA RadioStopped ==
    ASSUME NetTyped, StopWifiStationRadio
    PROVE  DriverStep /\ wifi'.initialized = wifi.initialized /\ wifi'.quiescing = wifi.quiescing
<1>1. CASE ~wifi.initialized
  BY <1>1, DriverLeft DEF StopWifiStationRadio, wifiVars
<1>2. CASE wifi.initialized
  <2>1. PICK ok \in BOOLEAN : EspStop(ok) /\ wifi' = [wifi EXCEPT !.connected = @ /\ ~ok]
    BY <1>2 DEF StopWifiStationRadio
  <2>2. wifi' \in Wifis /\ wifi'.initialized /\ wifi'.connected = (wifi.connected /\ ~ok)
        /\ wifi'.quiescing = wifi.quiescing /\ wifi'.initialized = wifi.initialized
    BY <1>2, <2>1, DriverTypes DEF Wifis
  <2> QED BY <1>2, <2>1, <2>2, DriverStops
<1> QED BY <1>1, <1>2

\* StartWifiStationRadio
LEMMA RadioStarted ==
    ASSUME NetTyped, Station, NEW ok \in BOOLEAN, StartWifiStationRadio(ok)
    PROVE  /\ DriverStep /\ wifi' = wifi
           /\ ok => wifi.initialized /\ ~wifi.quiescing
           /\ ~ok /\ wifi.initialized /\ ~wifi.quiescing => netFailures' > 0
<1>1. CASE wifi.quiescing \/ ~wifi.initialized
  BY <1>1, DriverLeft DEF StartWifiStationRadio, wifiVars
<1>2. CASE ~wifi.quiescing /\ wifi.initialized
  BY <1>2, DriverStarts, DriverTypes DEF StartWifiStationRadio
<1> QED BY <1>1, <1>2

\* StartWifiWithCredentials
LEMMA CredentialsTried ==
    ASSUME NetTyped, Station, NEW ok \in BOOLEAN, StartWifiWithCredentials(ok)
    PROVE  /\ DriverStep /\ wifi'.quiescing = wifi.quiescing
           /\ ok => wifi'.initialized /\ ~wifi.quiescing /\ ~Joined'
           /\ ~ok => (wifi'.initialized <=> wifi.initialized) /\ (wifi.quiescing \/ ~Joined)
           /\ ~ok /\ ~wifi.quiescing /\ ~wifi.initialized => netFailures' > 0
<1>1. CASE wifi.quiescing \/ (wifi.initialized /\ radio = "down")
  BY <1>1, DriverLeft DEF StartWifiWithCredentials, wifiVars, Joined
<1>2. CASE ~wifi.quiescing /\ wifi.initialized /\ radio # "down"
  <2>1. /\ ok /\ radio' = "started" /\ wifi' = wifi /\ netFailures' = netFailures
        /\ events' = IF radio = "started" THEN events ELSE Append(events, "lost")
    BY <1>2 DEF StartWifiWithCredentials
  <2>2. CASE radio = "started"
    BY <1>2, <2>1, <2>2, DriverTypes DEF DriverStep, Joined
  <2>3. CASE radio # "started"
    BY <1>2, <2>1, <2>3, DriverTypes DEF DriverStep, Joined, Radios
  <2> QED BY <2>2, <2>3
<1>3. CASE ~wifi.quiescing /\ ~wifi.initialized
  <2>1. EspStart(ok) /\ wifi' = [wifi EXCEPT !.initialized = ok] /\ radio = "down"
    BY <1>3 DEF StartWifiWithCredentials, Station
  <2>2. wifi' \in Wifis /\ wifi'.initialized = ok /\ wifi'.connected = wifi.connected
        /\ wifi'.quiescing = wifi.quiescing
    BY <2>1, DriverTypes DEF Wifis
  <2>3. netFailures' \in Nat /\ netFailures' >= netFailures /\ (~ok => netFailures' > 0)
    BY <2>1, DriverTypes DEF EspStart, NetMayFail
  <2>4. CASE ok
    <3>1. radio' = "started" /\ events' = Append(events, "started")
      BY <2>1, <2>4 DEF EspStart
    <3> QED BY <1>3, <2>1, <2>2, <2>3, <2>4, <3>1, DriverTypes DEF DriverStep, Joined, Radios
  <2>5. CASE ~ok
    <3>1. radio' = radio /\ events' = events
      BY <2>1, <2>5 DEF EspStart
    <3>2. DriverStep
      BY <1>3, <2>2, <2>3, <3>1, DriverTypes DEF DriverStep, Joined
    <3> QED BY <1>3, <2>1, <2>2, <2>3, <2>5, <3>2 DEF Joined
  <2> QED BY <2>4, <2>5
<1> QED BY <1>1, <1>2, <1>3

\* StartWifiStationIfEnabled
LEMMA StationTried ==
    ASSUME NetTyped, Station, NEW result \in {"ok", "none", "error"}, StartStation(result)
    PROVE  /\ DriverStep /\ wifi'.quiescing = wifi.quiescing
           /\ result = "ok" => wifi'.initialized /\ known
           /\ result = "ok" /\ ~wifi.initialized => ~Joined'
           /\ result = "none" => ~known /\ ~wifi.initialized /\ wifi' = wifi
           /\ result = "error" /\ ~wifi.quiescing =>
                 ~wifi.initialized /\ ~wifi'.initialized /\ known /\ netFailures' > 0
<1>1. CASE wifi.quiescing \/ wifi.initialized \/ ~known
  BY <1>1, DriverLeft DEF StartStation, Station, wifiVars
<1>2. CASE ~(wifi.quiescing \/ wifi.initialized \/ ~known)
  BY <1>2, CredentialsTried DEF StartStation
<1> QED BY <1>1, <1>2

\* wifi_manager's PrepareConnectivityForSleep
LEMMA WifiQuiesced ==
    ASSUME NetTyped, Station, NEW id \in Nat, QuiesceWifi(id)
    PROVE  /\ DriverStep /\ online' \in BOOLEAN /\ (online' => online)
           /\ wifi'.initialized <=> wifi.initialized
           /\ \E ok \in BOOLEAN : NetReply(id, ok) /\ (ok => ~online' /\ radio' = "down")
<1>0. online \in BOOLEAN
  BY DEF NetTyped
<1>1. CASE NetReply(id, FALSE) /\ UNCHANGED <<online, wifiVars, netFailures>>
  <2>1. DriverStep
    BY <1>1, DriverLeft DEF wifiVars
  <2> QED BY <1>0, <1>1, <2>1 DEF wifiVars
<1>2. CASE /\ ~wifi.initialized /\ NetReply(id, TRUE) /\ online' = FALSE
           /\ wifi' = [wifi EXCEPT !.quiescing = TRUE, !.resume = FALSE]
           /\ UNCHANGED <<radio, events, netFailures>>
  <2>1. wifi' \in Wifis /\ (wifi'.initialized <=> wifi.initialized)
        /\ wifi'.connected = wifi.connected
    BY <1>2, DriverTypes DEF Wifis
  <2>2. radio = "down"
    BY <1>2 DEF Station
  <2>3. DriverStep
    BY <1>2, <2>1, DriverTypes DEF DriverStep, Joined
  <2> QED BY <1>2, <2>1, <2>2, <2>3
<1>3. CASE \E ok \in BOOLEAN :
              /\ wifi.initialized /\ EspStop(ok) /\ NetReply(id, ok)
              /\ online' = (online /\ ~ok)
              /\ wifi' = [wifi EXCEPT !.quiescing = TRUE, !.resume = TRUE, !.connected = @ /\ ~ok]
  <2>1. PICK ok \in BOOLEAN :
              /\ wifi.initialized /\ EspStop(ok) /\ NetReply(id, ok)
              /\ online' = (online /\ ~ok)
              /\ wifi' = [wifi EXCEPT !.quiescing = TRUE, !.resume = TRUE, !.connected = @ /\ ~ok]
    BY <1>3
  <2>2. wifi' \in Wifis /\ wifi'.initialized /\ wifi'.connected = (wifi.connected /\ ~ok)
    BY <2>1, DriverTypes DEF Wifis
  <2>3. DriverStep /\ (ok => radio' = "down")
    BY <2>1, <2>2, DriverStops
  <2> QED BY <1>0, <2>1, <2>2, <2>3
<1> QED BY <1>1, <1>2, <1>3 DEF QuiesceWifi

\* wifi_manager's RollbackConnectivityAfterSleepAbort
LEMMA WifiResumed ==
    ASSUME NetTyped, Station, ResumeWifi
    PROVE  DriverStep /\ ~wifi'.quiescing /\ (wifi'.initialized <=> wifi.initialized)
<1>1. /\ wifi' \in Wifis /\ ~wifi'.quiescing /\ (wifi'.initialized <=> wifi.initialized)
      /\ wifi'.connected = wifi.connected
  BY DriverTypes DEF ResumeWifi, Wifis
<1>2. CASE UNCHANGED <<radio, events, netFailures>>
  BY <1>1, <1>2, DriverTypes DEF DriverStep, Joined
<1>3. CASE wifi.initialized /\ \E ok \in BOOLEAN : EspStart(ok)
  BY <1>1, <1>3, DriverStarts
<1> QED BY <1>1, <1>2, <1>3 DEF ResumeWifi

--------------------------------------------------------------------------------
(* What the steps have in common *)

\* A command that is no news of the link and no start of the station changes nothing of
\* what the queue says of it.
LEMMA PostedAdded ==
    ASSUME NetTyped, Posted, NEW c \in NetCommands, c.type \notin News, c.type # "started",
           netQueue' = Append(netQueue, c), UNCHANGED <<dropped, events, radio, online, netState>>
    PROVE  Posted'
<1> DEFINE S == CallTypes \cup Posts
           x == c.type
<1>1. Types \in Seq(S) /\ Types' = Append(Types, x) /\ x \in S
  BY QueueAdded DEF NetTyped
<1>2. x \notin News /\ x # "started"
  OBVIOUS
<1> HIDE DEF S, x
<1>3. /\ NewsIn(Types) => NewsIn(Types')
      /\ \A y \in News : LastIs(Types', y) => LastIs(Types, y)
      /\ Followed(Types) => Followed(Types')
  BY <1>1, <1>2, NewsAdded
<1>4. (NewsIn(events') <=> NewsIn(events)) /\ (Joined' <=> Joined) /\ (OnlineFits' <=> OnlineFits)
  BY DEF Joined, OnlineFits
<1> QED BY <1>3, <1>4 DEF Posted, News

\* The first command is served: what is left of the queue tells of the link what it told
\* before, and g_online fits when nothing is left to tell.
LEMMA PostedServed ==
    ASSUME NetTyped, Posted, NEW type, netQueue # <<>>, Head(netQueue).type = type,
           netQueue' = Tail(netQueue), dropped' = dropped,
           ~NewsIn(events') => ~NewsIn(events) /\ (Joined' <=> Joined),
           /\ ~NewsIn(events') /\ (Joined' <=> Joined)
           /\ type = "gotip" => Joined
           /\ type = "lost" => ~Joined
           /\ type \notin News => OnlineFits /\ (type = "started" => ~Joined)
           => OnlineFits'
    PROVE  Posted'
<1> SUFFICES ASSUME ~dropped, ~NewsIn(events')
             PROVE  /\ LastIs(Types', "gotip") => Joined'
                    /\ LastIs(Types', "lost") => ~Joined'
                    /\ Joined' => Followed(Types')
                    /\ ~NewsIn(Types') => OnlineFits'
  BY DEF Posted
<1> DEFINE S == CallTypes \cup Posts
<1>1. Types \in Seq(S) /\ Types # <<>> /\ Types' = Tail(Types) /\ Head(Types) = type
  BY QueueTaken DEF NetTyped
<1> HIDE DEF S
<1>2. /\ NewsIn(Types) /\ type \notin News => NewsIn(Types')
      /\ \A x \in News : LastIs(Types', x) => LastIs(Types, x)
      /\ type \in News /\ ~NewsIn(Types') => LastIs(Types, type)
      /\ Followed(Types) => Followed(Types')
      /\ Followed(Types) /\ type = "started" => NewsIn(Types')
  BY <1>1, NewsLeft
<1>3. /\ LastIs(Types, "gotip") => Joined
      /\ LastIs(Types, "lost") => ~Joined
      /\ Joined => Followed(Types)
      /\ ~NewsIn(Types) => OnlineFits
      /\ Joined' <=> Joined
  BY DEF Posted
<1>4. LastIs(Types', "gotip") => Joined'
  BY <1>2, <1>3 DEF News
<1>5. LastIs(Types', "lost") => ~Joined'
  BY <1>2, <1>3 DEF News
<1>6. Joined' => Followed(Types')
  BY <1>2, <1>3
<1>7. ASSUME ~NewsIn(Types')
      PROVE  OnlineFits'
  <2>1. type = "gotip" => Joined
    BY <1>2, <1>3, <1>7 DEF News
  <2>2. type = "lost" => ~Joined
    BY <1>2, <1>3, <1>7 DEF News
  <2>3. type \notin News => OnlineFits /\ (type = "started" => ~Joined)
    BY <1>2, <1>3, <1>7
  <2> QED BY <1>3, <2>1, <2>2, <2>3
<1> QED BY <1>4, <1>5, <1>6, <1>7

\* The link without the queue.
LEMMA PostedKept ==
    ASSUME Posted, netQueue' = netQueue, dropped' = dropped,
           ~NewsIn(events') => ~NewsIn(events) /\ (Joined' <=> Joined),
           ~NewsIn(events') /\ (Joined' <=> Joined) /\ OnlineFits => OnlineFits'
    PROVE  Posted'
<1>1. Types' = Types
  BY DEF Types
<1> QED BY <1>1 DEF Posted

\* The driver is called by a service that then knows its credentials.
LEMMA StationAfterDriver ==
    ASSUME Station, DriverStep, \A t : Queued(t)' => Queued(t), known' = known,
           prov'.saved => prov.saved, wifi'.quiescing => netState' = "quiescing",
           wifi'.initialized => known, netState' \in {"connecting", "backoff"} => known
    PROVE  Station'
<1>1. ~wifi'.initialized =>
          /\ radio' = "down" /\ ~wifi'.connected /\ events' = <<>>
          /\ ~Queued("started")' /\ ~Queued("gotip")' /\ ~Queued("lost")'
  BY DEF Station, DriverStep
<1> QED BY <1>1 DEF Station

\* Nothing that a step of the owner may change is of another type then.
LEMMA TypedServed ==
    ASSUME NetTyped, DriverStep, UNCHANGED NetOthers,
           netQueue' \in Seq(NetCommands), netReplies' \in Seq(NetAnswers), netPc' \in Nat,
           netState' \in NetStates,
           {online', netLease', timer', resume', strayed'} \subseteq BOOLEAN,
           prov' \in Sessions
    PROVE  NetTyped'
BY DEF NetTyped, DriverStep, NetOthers, sleepVars

\* Only a call has an id.
LEMMA PostsHaveNoId ==
    ASSUME NEW c \in NetCommands
    PROVE  c.type \in CallTypes <=> c.id # 0
BY DEF NetCommands, CallTypes, Posts, News

\* A call that is answered is neither in the queue any more nor at hand.
LEMMA ToldIsTaken ==
    ASSUME NetTyped, Ordered, NEW b, Told(b)
    PROVE  netSent # 0 /\ netPc # netSent /\ \A i \in 1..Len(netQueue) : netQueue[i].id # netSent
<1>1. PICK k \in 1..Len(netReplies) : netReplies[k].id = netSent
  BY DEF Told
<1>2. netSent \in Nat /\ netSent # 0 /\ netPc \in Nat
  BY <1>1, IdsAreNumbers
<1>3. netPc # netSent
  BY <1>1, <1>2 DEF Ordered, RepliesInOrder
<1>4. ASSUME NEW i \in 1..Len(netQueue), netQueue[i].id = netSent
      PROVE  FALSE
  BY <1>1, <1>2, <1>4 DEF Ordered, RepliesInOrder
<1> QED BY <1>2, <1>3, <1>4

\* No rollback is behind the prepare that is waited for, in the queue or at hand.
LEMMA NoRollbackBehind ==
    ASSUME NetTyped, Ordered, netSent # 0
    PROVE  /\ netPc = netSent => ~Queued("rollback")
           /\ netQueue # <<>> /\ Head(netQueue).id = netSent /\ netQueue' = Tail(netQueue) =>
                 ~Queued("rollback")'
<1>1. /\ netSent \in Nat /\ netRequests \in Nat /\ netPc \in Nat /\ netSent = netRequests
      /\ \A i \in 1..Len(netQueue) : netQueue[i] \in NetCommands /\ netQueue[i].id \in Nat
      /\ DOMAIN netQueue = 1..Len(netQueue)
  BY IdsAreNumbers, LenProperties DEF Ordered, InCall, NetTyped
<1>2. ASSUME netPc = netSent, NEW i \in 1..Len(netQueue), netQueue[i].type = "rollback"
      PROVE  FALSE
  <2>1. netQueue[i].id # 0
    BY <1>1, <1>2, PostsHaveNoId DEF CallTypes
  <2> QED BY <1>1, <1>2, <2>1 DEF Ordered, QueueInOrder
<1>3. ASSUME netQueue # <<>>, Head(netQueue).id = netSent, netQueue' = Tail(netQueue),
             Queued("rollback")'
      PROVE  FALSE
  <2>1. /\ Len(netQueue) \in Nat /\ Len(netQueue) >= 1 /\ Head(netQueue) = netQueue[1]
        /\ netQueue' \in Seq(NetCommands)
        /\ \A i \in 1..Len(netQueue') :
              i + 1 \in 1..Len(netQueue) /\ netQueue'[i] = netQueue[i + 1]
    BY <1>3, QueueTaken DEF NetTyped
  <2>2. DOMAIN netQueue' = 1..Len(netQueue')
    BY <2>1, LenProperties
  <2>3. PICK i \in 1..Len(netQueue') : netQueue'[i].type = "rollback"
    BY <1>3, <2>2 DEF Queued
  <2>4. i + 1 \in 1..Len(netQueue) /\ netQueue[i + 1].type = "rollback"
    BY <2>1, <2>3
  <2>5. netQueue[i + 1].id # 0
    BY <1>1, <2>4, PostsHaveNoId DEF CallTypes
  <2>6. netQueue[1].id < netQueue[i + 1].id
    BY <2>1, <2>4, <2>5 DEF Ordered, QueueInOrder
  <2> QED BY <1>1, <1>3, <2>1, <2>4, <2>6 DEF Ordered, QueueInOrder
<1> QED BY <1>1, <1>2, <1>3 DEF Queued

\* The answer to a command other than a prepare keeps what the service has promised.
LEMMA QuietServed ==
    ASSUME NetTyped, Ordered, Quiet, NEW type, type # "prepare", NetTake(type),
           UNCHANGED <<netCaller, netSent, netSleep, netPc, unanswered>>,
           \/ UNCHANGED netReplies
           \/ \E ok \in BOOLEAN :
                 NetAnswer(ok) /\ (ok /\ type = "rollback" => netState' # "quiescing"),
           netState' = "quiescing" => netState = "quiescing",
           netState = "quiescing" /\ type # "rollback" =>
              /\ netState' = "quiescing" /\ (online' => online)
              /\ UNCHANGED <<netLease, timer, radio, prov>>
    PROVE  Quiet'
<1>1. /\ netPc = 0 /\ netQueue # <<>> /\ Head(netQueue).type = type /\ netQueue' = Tail(netQueue)
      /\ Len(netQueue) >= 1 /\ Head(netQueue) = netQueue[1] /\ 1 \in 1..Len(netQueue)
      /\ Queued(type) /\ \A t : Queued(t)' => Queued(t)
  BY QueueTaken DEF NetTyped, NetTake
<1>2. /\ Head(netQueue).id \in Nat
      /\ Head(netQueue).id # 0 /\ Head(netQueue).id = netSent =>
            type = IF netCaller = "power" THEN netSleep.at ELSE "start"
  BY <1>1, IdsAreNumbers DEF Ordered, QueueInOrder
<1>3. ASSUME NEW b, Told(b)', ~Told(b)
      PROVE  /\ type = IF netCaller = "power" THEN netSleep.at ELSE "start"
             /\ b /\ type = "rollback" => netState' # "quiescing"
  <2>1. netReplies' # netReplies
    BY <1>3 DEF Told
  <2>2. PICK ok \in BOOLEAN :
              NetAnswer(ok) /\ (ok /\ type = "rollback" => netState' # "quiescing")
    BY <2>1
  <2> DEFINE n == Head(netQueue).id
  <2>3. n \in Nat /\ NetReply(n, ok) /\ netReplies \in Seq(NetAnswers)
    BY <1>2, <2>2 DEF NetAnswer, NetTyped
  <2> HIDE DEF n
  <2>4. n # 0 /\ n = netSent /\ b = ok
    BY <1>3, <2>3, NetReplied
  <2> QED BY <1>2, <2>2, <2>4 DEF n
<1>4. Promised' => Promised
  BY <1>3 DEF Promised
<1>5. Promised' =>
        /\ netState' = "quiescing" /\ ~online' /\ ~netLease' /\ ~timer'
        /\ radio' = "down" /\ prov'.at \notin {"opening", "open"}
        /\ netPc' = 0 /\ ~Queued("rollback")'
  BY <1>1, <1>4 DEF Quiet
<1>6. netCaller' = "power" /\ netSleep'.at = "rollback" /\ Told(TRUE)' => netState' # "quiescing"
  BY <1>3 DEF Quiet
<1>7. netState' = "quiescing" /\ netSleep'.at = "up" => unanswered'
  BY DEF Quiet
<1> QED BY <1>1, <1>5, <1>6, <1>7 DEF Quiet

\* What the handlers of the owner have in common, the one that prepares apart: each has
\* to keep state, timer and lease and the sessions accounted for.
LEMMA HandlerServed ==
    ASSUME NetInv, NEW type, type # "prepare", NetTake(type), UNCHANGED NetOthers, netPc' = netPc,
           \/ UNCHANGED netReplies
           \/ \E ok \in BOOLEAN :
                 NetAnswer(ok) /\ (ok /\ type = "rollback" => netState' # "quiescing"),
           DriverStep,
           netState' \in NetStates,
           {online', netLease', timer', resume', strayed'} \subseteq BOOLEAN,
           prov' \in Sessions,
           netState' = "quiescing" => netState = "quiescing",
           netState = "quiescing" /\ type # "rollback" =>
              /\ netState' = "quiescing" /\ (online' => online)
              /\ UNCHANGED <<netLease, timer, radio, prov>>,
           resume' => resume, prov'.saved => prov.saved, prov'.lease => prov.lease \/ NetGateOpen,
           wifi'.quiescing => netState' = "quiescing", wifi'.initialized => known,
           netState' \in {"connecting", "backoff"} => known,
           /\ ~NewsIn(events') /\ (Joined' <=> Joined)
           /\ type = "gotip" => Joined
           /\ type = "lost" => ~Joined
           /\ type \notin News => OnlineFits /\ (type = "started" => ~Joined)
           => OnlineFits',
           Portal', Armed'
    PROVE  NetInv'
<1>1. /\ netPc = 0 /\ netQueue # <<>> /\ Head(netQueue).type = type /\ netQueue' = Tail(netQueue)
      /\ UNCHANGED <<netCaller, netSent, netRequests, netSleep, known, dropped, unanswered>>
      /\ \/ UNCHANGED netReplies
         \/ \E ok \in BOOLEAN : NetReply(Head(netQueue).id, ok)
  BY DEF NetTake, NetOthers, sleepVars, NetAnswer
<1>2. NetTyped /\ Ordered /\ Quiet /\ Portal /\ Spared /\ Station /\ Armed /\ Air /\ Posted
  BY DEF NetInv
<1>3. /\ netQueue' \in Seq(NetCommands) /\ Head(netQueue) \in NetCommands
      /\ \A t : Queued(t)' => Queued(t)
  BY <1>1, <1>2, QueueTaken DEF NetTyped
<1>4. netReplies' \in Seq(NetAnswers)
  <2> DEFINE n == Head(netQueue).id
  <2>1. n \in Nat
    BY <1>3 DEF NetCommands
  <2> HIDE DEF n
  <2>2. netReplies \in Seq(NetAnswers)
    BY <1>2 DEF NetTyped
  <2>3. CASE \E ok \in BOOLEAN : NetReply(n, ok)
    BY <2>1, <2>2, <2>3, NetReplied
  <2> QED BY <1>1, <2>2, <2>3 DEF n
<1>5. NetTyped'
  BY <1>1, <1>2, <1>3, <1>4, TypedServed DEF NetTyped
<1>6. Ordered'
  BY <1>1, <1>2, OrderedTaken
<1>7. Quiet'
  BY <1>1, <1>2, QuietServed
<1>8. Spared'
  BY <1>1, <1>2, <1>3 DEF Spared, NetGateOpen
<1>9. Station'
  BY <1>1, <1>2, <1>3, StationAfterDriver
<1>10. Air' /\ (~NewsIn(events') => ~NewsIn(events) /\ (Joined' <=> Joined))
  BY <1>2, AirAfterDriver
<1>11. Posted'
  BY <1>1, <1>2, <1>10, PostedServed
<1> QED BY <1>5, <1>6, <1>7, <1>8, <1>9, <1>10, <1>11 DEF NetInv

\* The same of a deadline that passes, which finds the queue empty and the service neither
\* quiet nor at a session.
LEMMA Expired ==
    ASSUME NetInv, TimerExpires, netState \in {"connecting", "backoff"},
           UNCHANGED NetOthers, UNCHANGED <<netQueue, netReplies, netPc, resume, prov, strayed>>,
           DriverStep, wifi'.quiescing = wifi.quiescing, wifi'.initialized => known,
           netState' \in {"connecting", "backoff"}, {online', netLease', timer'} \subseteq BOOLEAN,
           online' => online,
           Armed'
    PROVE  NetInv'
<1>1. UNCHANGED <<netCaller, netSent, netRequests, netSleep, known, dropped, unanswered, outcome>>
  BY DEF NetOthers, sleepVars
<1>2. NetTyped /\ Ordered /\ Quiet /\ Portal /\ Spared /\ Station /\ Armed /\ Air /\ Posted
  BY DEF NetInv
<1>3. NetTyped'
  BY <1>2, TypedServed DEF NetTyped, NetStates
<1>4. Ordered'
  BY <1>1, <1>2 DEF Ordered, InCall, QueueInOrder, RepliesInOrder
<1>5. (\A b : Told(b)' <=> Told(b)) /\ (\A t : Queued(t)' <=> Queued(t))
  BY <1>1 DEF Told, Queued
<1>6. ~Promised /\ (Promised' => Promised)
  BY <1>1, <1>2, <1>5 DEF Quiet, Promised
<1>7. Quiet'
  BY <1>1, <1>2, <1>5, <1>6 DEF Quiet
<1>8. Portal'
  BY <1>1, <1>2, <1>5, DriverTypes DEF Portal
<1>9. Spared'
  BY <1>1, <1>2, <1>5 DEF Spared
<1>10. ~wifi.quiescing /\ known
  BY <1>2 DEF Station
<1>11. Station'
  BY <1>1, <1>2, <1>5, <1>10, StationAfterDriver
<1>12. Air' /\ (~NewsIn(events') => ~NewsIn(events) /\ (Joined' <=> Joined))
  BY <1>2, AirAfterDriver
<1>13. Posted'
  BY <1>1, <1>2, <1>12, PostedKept DEF OnlineFits
<1> QED BY <1>3, <1>4, <1>7, <1>8, <1>9, <1>11, <1>12, <1>13 DEF NetInv

--------------------------------------------------------------------------------
(* The handlers of the owner *)

\* What a handler may use of the types.
LEMMA ServiceTypes ==
    ASSUME NetTyped
    PROVE  /\ netState \in NetStates /\ prov \in Sessions /\ known \in BOOLEAN
           /\ {online, netLease, timer, resume, strayed} \subseteq BOOLEAN
BY DEF NetTyped

\* A command that is refused changes nothing but the queue.
LEMMA Refused ==
    ASSUME NetInv, NEW type, type \notin {"prepare", "rollback"}, NetTake(type),
           UNCHANGED NetOthers, NetRefuse,
           UNCHANGED netReplies \/ \E ok \in BOOLEAN : NetAnswer(ok),
           type = "provisioned" => netState # "provisioning" \/ strayed,
           type = "gotip" => netState = "quiescing",
           type # "lost"
    PROVE  NetInv'
<1>1. /\ UNCHANGED <<netState, online, netLease, timer, retries, resume, wifi, radio, events>>
      /\ UNCHANGED <<prov, netPc, strayed, netFailures, outcome, known, dropped>>
      /\ netQueue # <<>> /\ netQueue' = Tail(netQueue) /\ Head(netQueue).type = type
  BY DEF NetRefuse, NetOthers, NetTake, serviceVars, wifiVars
<1>2. NetTyped /\ Portal /\ Station /\ Armed /\ Posted
  BY DEF NetInv
<1>3. DriverStep
  BY <1>1, <1>2, DriverLeft
<1>4. \A t : (Queued(t)' => Queued(t)) /\ (Queued(t) /\ t # type => Queued(t)')
  BY <1>1, <1>2, QueueTaken DEF NetTyped
<1>5. Portal'
  BY <1>1, <1>2, <1>4 DEF Portal
<1>6. Armed'
  BY <1>1, <1>2 DEF Armed, LeaseMatchesState, TimerMatchesState
<1>7. type \notin News /\ OnlineFits => OnlineFits'
  BY <1>1 DEF OnlineFits, Joined
<1>8. type = "gotip" /\ Joined => OnlineFits'
  BY <1>1 DEF OnlineFits, Joined
<1>9. netState \in {"connecting", "backoff"} => known
  BY <1>2 DEF Station
<1>10. wifi.quiescing => netState = "quiescing"
  BY <1>2 DEF Station
<1>11. wifi.initialized => known
  BY <1>2 DEF Station
<1> QED BY <1>1, <1>2, <1>3, <1>5, <1>6, <1>7, <1>8, <1>9, <1>10, <1>11, HandlerServed,
        ServiceTypes DEF News

\* A session is only begun with the gate open and nothing known.
LEMMA SessionBegun ==
    ASSUME NetTyped, BeginProvisioning, ~prov.active
    PROVE  /\ netState' \in {"provisioning", "off"} /\ ~online' /\ online' \in BOOLEAN
           /\ ~timer' /\ timer' \in BOOLEAN /\ netLease' \in BOOLEAN
           /\ netState' = "provisioning" =>
                 NetGateOpen /\ netLease' /\ prov' = [NoSession EXCEPT !.at = "opening",
                                                      !.active = TRUE, !.lease = TRUE]
           /\ netState' = "off" => ~netLease' /\ prov' = prov
BY DEF BeginProvisioning, StartProvisioningMode, SetState, Leased

\* StartConfiguredConnectivity, from backoff with a station
LEMMA RadioAgainKeeps ==
    ASSUME NetInv, NetTake("start"), netState = "backoff", ~online, wifi.initialized,
           StartRadioAgain, UNCHANGED <<netPc, strayed>>, UNCHANGED NetOthers
    PROVE  NetInv'
<1>1. PICK ok \in BOOLEAN :
         /\ StartWifiStationRadio(ok) /\ NetAnswer(ok)
         /\ IF ok THEN EnterConnecting ELSE netLease' = FALSE /\ UNCHANGED <<netState, timer>>
         /\ UNCHANGED <<online, retries, resume, prov>>
  BY DEF StartRadioAgain
<1>2. NetTyped /\ Portal /\ Station /\ Armed
  BY DEF NetInv
<1>3. DriverStep /\ wifi' = wifi
  BY <1>1, <1>2, RadioStarted
<1>4. /\ netState' \in {"connecting", "backoff"} /\ {netLease', timer'} \subseteq BOOLEAN /\ timer'
      /\ netState' = "connecting" <=> netLease'
  BY <1>1, <1>2, ServiceTypes DEF EnterConnecting, SetState, Leased, Armed
<1>5. Portal'
  BY <1>1, <1>2, <1>3, <1>4 DEF Portal
<1>6. Armed'
  BY <1>4 DEF Armed, LeaseMatchesState, TimerMatchesState, Leased
<1>7. known /\ ~wifi.quiescing
  BY <1>2 DEF Station
<1>8. OnlineFits /\ (Joined' <=> Joined) => OnlineFits'
  BY <1>1, <1>4 DEF OnlineFits
<1> QED BY <1>1, <1>2, <1>3, <1>4, <1>5, <1>6, <1>7, <1>8, HandlerServed, ServiceTypes
          DEF NetStates, News

\* StartConfiguredConnectivity, from the credentials
LEMMA FromCredentialsKeeps ==
    ASSUME NetInv, NetTake("start"), netState # "quiescing", ~online, ~prov.active,
           StartFromCredentials, UNCHANGED <<netPc, strayed>>, UNCHANGED NetOthers
    PROVE  NetInv'
<1>1. PICK result \in {"ok", "none", "error"} :
         /\ StartStation(result)
         /\ CASE result = "none" -> BeginProvisioning /\ NetAnswer(netState' = "provisioning")
              [] result = "ok" -> EnterConnecting /\ NetAnswer(TRUE)
                                  /\ UNCHANGED <<online, retries, prov>>
              [] OTHER -> /\ SetState("backoff", FALSE) /\ timer' = TRUE /\ NetAnswer(FALSE)
                          /\ UNCHANGED <<online, retries, prov>>
         /\ UNCHANGED resume
  BY DEF StartFromCredentials
<1>2. NetTyped /\ Portal /\ Station /\ Armed
  BY DEF NetInv
<1>3. /\ DriverStep /\ wifi'.quiescing = wifi.quiescing /\ ~wifi.quiescing
      /\ result = "ok" => wifi'.initialized /\ known
      /\ result = "none" => ~known /\ ~wifi.initialized /\ wifi' = wifi
      /\ result = "error" => ~wifi.initialized /\ ~wifi'.initialized /\ known
  BY <1>1, <1>2, StationTried DEF Station
<1>4. prov.at = "idle"
  BY <1>2, ServiceTypes DEF Portal
<1>5. CASE result = "none"
  <2>1. /\ BeginProvisioning /\ NetAnswer(netState' = "provisioning") /\ resume' = resume
        /\ (netState' = "provisioning") \in BOOLEAN
    BY <1>1, <1>5
  <2>2. /\ netState' \in {"provisioning", "off"} /\ ~online' /\ online' \in BOOLEAN
        /\ ~timer' /\ timer' \in BOOLEAN /\ netLease' \in BOOLEAN
        /\ netState' = "provisioning" =>
              NetGateOpen /\ netLease' /\ prov' = [NoSession EXCEPT !.at = "opening",
                                                   !.active = TRUE, !.lease = TRUE]
        /\ netState' = "off" => ~netLease' /\ prov' = prov
    BY <1>2, <2>1, SessionBegun
  <2>3. /\ prov' \in Sessions /\ (prov'.saved => prov.saved)
        /\ prov'.lease => prov.lease \/ NetGateOpen
    BY <1>2, <2>2, ServiceTypes DEF Sessions, NoSession
  <2>4. ~Queued("provisioned") /\ ~Joined
    BY <1>2, <1>3, <1>5 DEF Station, Joined
  <2>5. ~Queued("provisioned")'
    BY <1>2, <2>4, QueueTaken DEF NetTyped, NetTake
  <2>6. Portal'
    <3>1. CASE netState' = "provisioning"
      BY <1>3, <1>5, <2>2, <2>5, <3>1 DEF Portal, NoSession
    <3>2. CASE netState' = "off"
      BY <1>2, <1>4, <2>2, <3>2 DEF Portal
    <3> QED BY <2>2, <3>1, <3>2
  <2>7. Armed'
    BY <2>2 DEF Armed, LeaseMatchesState, TimerMatchesState, Leased
  <2>8. (Joined' <=> Joined) => OnlineFits'
    BY <2>2, <2>4 DEF OnlineFits
  <2>9. ~wifi'.initialized
    BY <1>3, <1>5
  <2> QED BY <1>1, <1>2, <1>3, <2>1, <2>2, <2>3, <2>6, <2>7, <2>8, <2>9, HandlerServed, ServiceTypes
          DEF NetStates, News
<1>6. CASE result # "none"
  <2>1. /\ netState' = IF result = "ok" THEN "connecting" ELSE "backoff"
        /\ timer' = TRUE /\ netLease' \in BOOLEAN /\ (netLease' <=> result = "ok")
        /\ UNCHANGED <<online, prov, resume>> /\ \E ok \in BOOLEAN : NetAnswer(ok)
    BY <1>1, <1>6 DEF EnterConnecting, SetState, Leased
  <2>2. known
    BY <1>3, <1>6
  <2>3. Portal'
    BY <1>2, <1>4, <2>1 DEF Portal
  <2>4. Armed'
    BY <2>1 DEF Armed, LeaseMatchesState, TimerMatchesState, Leased
  <2>5. OnlineFits /\ (Joined' <=> Joined) => OnlineFits'
    BY <2>1 DEF OnlineFits
  <2> QED BY <1>2, <1>3, <2>1, <2>2, <2>3, <2>4, <2>5, HandlerServed, ServiceTypes
          DEF NetStates, News
<1> QED BY <1>5, <1>6

\* HandleStart
LEMMA NetStartKeeps ==
    ASSUME NetInv, HandleStart
    PROVE  NetInv'
<1>1. NetTake("start") /\ UNCHANGED NetOthers
  BY DEF HandleStart
<1>2. NetTyped /\ Portal /\ Station /\ Armed
  BY DEF NetInv
<1>3. CASE (netState = "quiescing" \/ online) /\ NetRefuse /\ \E ok \in BOOLEAN : NetAnswer(ok)
  BY <1>1, <1>3, Refused
<1>4. CASE netState # "quiescing" /\ ~online /\ prov.active
  <2>1. /\ netState' = "provisioning" /\ netLease' = netLease /\ NetAnswer(TRUE)
        /\ strayed' = (strayed \/ prov.at = "ending")
        /\ UNCHANGED <<online, timer, retries, resume, wifiVars, prov, netPc, netFailures>>
    BY <1>2, <1>4, ServiceTypes DEF HandleStart, SetState, Leased
  <2>2. DriverStep
    BY <1>2, <2>1, DriverLeft DEF wifiVars
  <2>3. strayed' \in BOOLEAN /\ (strayed => strayed')
    BY <1>2, <2>1, ServiceTypes
  <2>4. prov.at # "idle" /\ (prov.at # "ending" => prov.at \in {"opening", "open", "told"})
    BY <1>2, <1>4, ServiceTypes DEF Portal, Sessions
  <2>5. prov.at # "ending" => netState \notin {"connecting", "backoff"} /\ (netLease \/ strayed)
    BY <1>2, <1>4, <2>4 DEF Portal
  <2>6. \A t : Queued(t)' => Queued(t)
    BY <1>1, <1>2, QueueTaken DEF NetTyped, NetTake
  <2>7. Portal'
    BY <1>2, <2>1, <2>3, <2>4, <2>5, <2>6 DEF Portal, wifiVars
  <2>8. Armed'
    BY <1>2, <2>1, <2>3, <2>5 DEF Armed, LeaseMatchesState, TimerMatchesState, Leased
  <2>9. OnlineFits /\ (Joined' <=> Joined) => OnlineFits'
    BY <1>4, <2>1 DEF OnlineFits
  <2>10. wifi' = wifi /\ (wifi.quiescing => netState = "quiescing") /\ (wifi.initialized => known)
    BY <1>2, <2>1 DEF Station, wifiVars
  <2> QED BY <1>1, <1>2, <1>4, <2>1, <2>2, <2>3, <2>7, <2>8, <2>9, <2>10, HandlerServed,
          ServiceTypes DEF NetStates, News
<1>5. CASE ~CanHold /\ NetAnswer(FALSE) /\ NetRefuse
  BY <1>1, <1>5, Refused
<1>6. CASE /\ netState # "quiescing" /\ ~online /\ ~prov.active
           /\ netState = "backoff" /\ wifi.initialized /\ StartRadioAgain
           /\ UNCHANGED <<netPc, strayed>>
  BY <1>1, <1>6, RadioAgainKeeps
<1>7. CASE /\ netState # "quiescing" /\ ~online /\ ~prov.active /\ StartFromCredentials
           /\ UNCHANGED <<netPc, strayed>>
  BY <1>1, <1>7, FromCredentialsKeeps
<1>8. CASE netState = "quiescing" \/ online
  <2>1. NetRefuse /\ \E ok \in BOOLEAN : NetAnswer(ok)
    BY <1>8 DEF HandleStart
  <2> QED BY <1>3, <1>8, <2>1
<1>9. CASE netState # "quiescing" /\ ~online /\ ~prov.active
  <2>1. IF ~CanHold THEN NetAnswer(FALSE) /\ NetRefuse
        ELSE /\ IF netState = "backoff" /\ wifi.initialized
                THEN StartRadioAgain ELSE StartFromCredentials
             /\ UNCHANGED <<netPc, strayed>>
    BY <1>9 DEF HandleStart
  <2> QED BY <1>5, <1>6, <1>7, <1>9, <2>1
<1> QED BY <1>4, <1>8, <1>9

\* HandleProvisioned
LEMMA ProvisionedKeeps ==
    ASSUME NetInv, HandleProvisioned
    PROVE  NetInv'
<1>1. NetTake("provisioned") /\ UNCHANGED NetOthers /\ UNCHANGED netReplies
  BY DEF HandleProvisioned
<1>2. NetTyped /\ Portal /\ Station /\ Armed
  BY DEF NetInv
<1>3. Queued("provisioned") /\ known /\ \A t : Queued(t)' => Queued(t)
  BY <1>1, <1>2, QueueTaken DEF NetTyped, NetTake, Station
<1>4. CASE (netState = "quiescing" \/ ~CanHold) /\ NetRefuse
  <2>1. netState # "provisioning" \/ strayed
    BY <1>2, <1>4 DEF Portal, CanHold
  <2> QED BY <1>1, <1>4, <2>1, Refused
<1>5. CASE ~(netState = "quiescing" \/ ~CanHold)
  <2>1. PICK ok \in BOOLEAN :
               /\ StartWifiWithCredentials(ok)
               /\ IF ok THEN EnterConnecting /\ online' = FALSE /\ retries' = 0
                  ELSE SetState("backoff", FALSE) /\ timer' = TRUE /\ UNCHANGED <<online, retries>>
               /\ UNCHANGED <<resume, prov, netPc, strayed>>
    BY <1>5 DEF HandleProvisioned
  <2>2. /\ DriverStep /\ wifi'.quiescing = wifi.quiescing /\ ~wifi.quiescing
        /\ ok => ~Joined'
        /\ ~ok => ~Joined
    BY <1>2, <1>5, <2>1, CredentialsTried DEF Station
  <2>3. /\ netState' = IF ok THEN "connecting" ELSE "backoff"
        /\ timer' = TRUE /\ netLease' \in BOOLEAN /\ (netLease' <=> ok)
        /\ online' \in BOOLEAN /\ (online' => ~ok /\ online)
    BY <1>2, <2>1, ServiceTypes DEF EnterConnecting, SetState, Leased
  <2>4. prov.at \notin {"opening", "open", "told"}
    BY <1>2, <1>3 DEF Portal
  <2>5. Portal'
    BY <1>2, <2>1, <2>3, <2>4 DEF Portal
  <2>6. Armed'
    BY <2>3 DEF Armed, LeaseMatchesState, TimerMatchesState, Leased
  <2>7. OnlineFits /\ (Joined' <=> Joined) => OnlineFits'
    BY <2>2, <2>3 DEF OnlineFits
  <2> QED BY <1>1, <1>2, <1>3, <1>5, <2>1, <2>2, <2>3, <2>5, <2>6, <2>7, HandlerServed, ServiceTypes
          DEF NetStates, News
<1> QED BY <1>4, <1>5 DEF HandleProvisioned

\* HandleWifiStarted
LEMMA StartedKeeps ==
    ASSUME NetInv, HandleWifiStarted
    PROVE  NetInv'
<1>1. NetTake("started") /\ UNCHANGED NetOthers /\ UNCHANGED netReplies
  BY DEF HandleWifiStarted
<1>2. NetTyped /\ Portal /\ Station /\ Armed
  BY DEF NetInv
<1>3. Queued("started") /\ \A t : Queued(t)' => Queued(t)
  BY <1>1, <1>2, QueueTaken DEF NetTyped, NetTake
<1>4. CASE NetRefuse
  BY <1>1, <1>4, Refused
<1>5. CASE /\ netState \notin Deaf /\ EnterConnecting /\ Connect
           /\ UNCHANGED <<online, retries, resume, wifi, events, prov, netPc, strayed, netFailures>>
  <2>1. DriverStep
    BY <1>2, <1>5, DriverLeft
  <2>2. netState' = "connecting" /\ timer' = TRUE /\ netLease' = TRUE
    BY <1>5 DEF EnterConnecting, SetState, Leased
  <2>3. /\ wifi.initialized /\ known /\ ~wifi.quiescing /\ netState # "quiescing"
        /\ prov.at \notin {"opening", "open", "told"}
    BY <1>2, <1>3, <1>5 DEF Station, Portal, Deaf
  <2>4. Portal'
    BY <1>2, <1>5, <2>2, <2>3 DEF Portal
  <2>5. Armed'
    BY <2>2 DEF Armed, LeaseMatchesState, TimerMatchesState, Leased
  <2>6. OnlineFits /\ ~Joined /\ (Joined' <=> Joined) => OnlineFits'
    BY <1>5, <2>2 DEF OnlineFits
  <2> QED BY <1>1, <1>2, <1>5, <2>1, <2>2, <2>3, <2>4, <2>5, <2>6, HandlerServed, ServiceTypes
          DEF NetStates, News
<1> QED BY <1>4, <1>5 DEF HandleWifiStarted

\* HandleWifiConnected
LEMMA ConnectedKeeps ==
    ASSUME NetInv, HandleWifiConnected
    PROVE  NetInv'
<1>1. NetTake("gotip") /\ UNCHANGED NetOthers /\ UNCHANGED netReplies
  BY DEF HandleWifiConnected
<1>2. NetTyped /\ Portal /\ Station /\ Armed
  BY DEF NetInv
<1>3. Queued("gotip") /\ \A t : Queued(t)' => Queued(t)
  BY <1>1, <1>2, QueueTaken DEF NetTyped, NetTake
<1>4. CASE netState = "quiescing" /\ NetRefuse
  BY <1>1, <1>4, Refused
<1>5. CASE /\ netState # "quiescing"
           /\ retries' = 0 /\ timer' = FALSE /\ online' = TRUE /\ SetState("online", netLease)
           /\ UNCHANGED <<resume, wifiVars, prov, netPc, strayed, netFailures>>
  <2>1. DriverStep
    BY <1>2, <1>5, DriverLeft DEF wifiVars
  <2>2. netState' = "online" /\ netLease' = FALSE
    BY <1>5 DEF SetState, Leased
  <2>3. /\ wifi' = wifi /\ wifi.initialized /\ known /\ ~wifi.quiescing
        /\ prov.at \notin {"opening", "open", "told"}
    BY <1>2, <1>3, <1>5 DEF Station, Portal, wifiVars
  <2>4. Portal'
    BY <1>2, <1>5, <2>2, <2>3 DEF Portal
  <2>5. Armed'
    BY <1>5, <2>2 DEF Armed, LeaseMatchesState, TimerMatchesState
  <2>6. Joined /\ (Joined' <=> Joined) => OnlineFits'
    BY <1>5, <2>2 DEF OnlineFits
  <2> QED BY <1>1, <1>2, <1>5, <2>1, <2>2, <2>3, <2>4, <2>5, <2>6, HandlerServed, ServiceTypes
          DEF NetStates, News
<1> QED BY <1>4, <1>5 DEF HandleWifiConnected

\* HandleWifiDisconnected
LEMMA DisconnectedKeeps ==
    ASSUME NetInv, HandleWifiDisconnected
    PROVE  NetInv'
<1>1. /\ NetTake("lost") /\ UNCHANGED NetOthers /\ online' = FALSE
      /\ UNCHANGED <<netReplies, retries, resume, wifiVars, prov, netPc, strayed, netFailures>>
      /\ IF netState \in Deaf \/ ~CanHold THEN UNCHANGED <<leaseVars, timer>> ELSE EnterConnecting
  BY DEF HandleWifiDisconnected
<1>2. NetTyped /\ Portal /\ Station /\ Armed
  BY DEF NetInv
<1>3. Queued("lost") /\ \A t : (Queued(t)' => Queued(t)) /\ (Queued(t) /\ t # "lost" => Queued(t)')
  BY <1>1, <1>2, QueueTaken DEF NetTyped, NetTake
<1>4. \/ UNCHANGED <<netState, netLease, timer>>
      \/ netState # "quiescing" /\ netState' = "connecting" /\ timer' = TRUE /\ netLease' = TRUE
  BY <1>1 DEF EnterConnecting, SetState, Leased, leaseVars, Deaf
<1>5. DriverStep
  BY <1>1, <1>2, DriverLeft DEF wifiVars
<1>6. /\ wifi' = wifi /\ wifi.initialized /\ known /\ (wifi.quiescing => netState = "quiescing")
      /\ prov.at \notin {"opening", "open", "told"}
  BY <1>1, <1>2, <1>3 DEF Station, Portal, wifiVars
<1>7. Portal'
  BY <1>1, <1>2, <1>3, <1>4, <1>6 DEF Portal, NetOthers
<1>8. Armed'
  BY <1>1, <1>2, <1>4 DEF Armed, LeaseMatchesState, TimerMatchesState, Leased
<1>9. ~Joined /\ (Joined' <=> Joined) => OnlineFits'
  BY <1>1 DEF OnlineFits
<1>10. {netLease', timer'} \subseteq BOOLEAN /\ netState' \in NetStates
  BY <1>2, <1>4, ServiceTypes DEF NetStates
<1> QED BY <1>1, <1>2, <1>4, <1>5, <1>6, <1>7, <1>8, <1>9, <1>10, HandlerServed, ServiceTypes
       DEF News, wifiVars

\* PrepareForSleep
LEMMA PrepareKeeps ==
    ASSUME NetInv, NetPrepare
    PROVE  NetInv'
<1> DEFINE n == Head(netQueue).id
<1>1. NetTake("prepare") /\ UNCHANGED NetOthers
  BY DEF NetPrepare
<1>2. NetTyped /\ Ordered /\ Quiet /\ Portal /\ Spared /\ Station /\ Armed /\ Air /\ Posted
  BY DEF NetInv
<1>3. /\ netPc = 0 /\ netQueue # <<>> /\ Head(netQueue).type = "prepare"
      /\ netQueue' = Tail(netQueue)
      /\ UNCHANGED <<netCaller, netSent, netRequests, netSleep, known, dropped, unanswered>>
      /\ UNCHANGED outcome
  BY <1>1 DEF NetTake, NetOthers, sleepVars
<1>4. /\ netQueue' \in Seq(NetCommands) /\ Head(netQueue) \in NetCommands
      /\ Len(netQueue) >= 1 /\ Head(netQueue) = netQueue[1] /\ 1 \in 1..Len(netQueue)
      /\ \A t : (Queued(t)' => Queued(t)) /\ (Queued(t) /\ t # "prepare" => Queued(t)')
  BY <1>2, <1>3, QueueTaken DEF NetTyped
<1>5. n \in Nat \ {0}
  BY <1>3, <1>4, PostsHaveNoId DEF NetCommands, CallTypes
<1>6. CASE NetAnswer(FALSE) /\ NetRefuse
  <2>1. /\ UNCHANGED <<netState, online, netLease, timer, retries, resume, wifi, radio, events>>
        /\ UNCHANGED <<prov, netPc, strayed, netFailures>>
    BY <1>6 DEF NetRefuse, serviceVars, wifiVars
  <2>2. /\ netReplies' \in Seq(NetAnswers)
        /\ \A b : Told(b)' => Told(b) \/ b = FALSE
    <3> DEFINE no == FALSE
    <3>1. /\ NetReply(n, no) /\ netReplies \in Seq(NetAnswers) /\ n \in Nat /\ no \in BOOLEAN
          /\ netSent' = netSent
      BY <1>2, <1>3, <1>5, <1>6 DEF NetAnswer, NetTyped
    <3> HIDE DEF n, no
    <3>2. netReplies' \in Seq(NetAnswers) /\ \A b : Told(b)' => Told(b) \/ b = no
      BY <3>1, NetReplied
    <3> QED BY <3>2 DEF no
  <2>3. DriverStep
    BY <1>2, <2>1, DriverLeft
  <2>4. NetTyped'
    BY <1>1, <1>2, <1>4, <2>1, <2>2, <2>3, TypedServed DEF NetTyped
  <2>5. Ordered'
    BY <1>2, <1>3, <1>6, <2>1, OrderedTaken DEF NetAnswer
  <2>6. Quiet'
    BY <1>2, <1>3, <1>4, <2>1, <2>2 DEF Quiet, Promised
  <2>7. Portal'
    BY <1>2, <1>3, <1>4, <2>1 DEF Portal
  <2>8. Spared'
    BY <1>2, <1>3, <1>4, <2>1 DEF Spared
  <2>9. Station'
    BY <1>2, <1>3, <1>4, <2>1 DEF Station
  <2>10. Armed'
    BY <1>2, <2>1 DEF Armed, LeaseMatchesState, TimerMatchesState
  <2>11. Air' /\ (~NewsIn(events') => ~NewsIn(events) /\ (Joined' <=> Joined))
    BY <1>2, <2>3, AirAfterDriver
  <2>12. OnlineFits => OnlineFits'
    BY <2>1 DEF OnlineFits, Joined
  <2>13. Posted'
    BY <1>2, <1>3, <2>11, <2>12, PostedServed DEF News
  <2> QED BY <2>4, <2>5, <2>6, <2>7, <2>8, <2>9, <2>10, <2>11, <2>13 DEF NetInv
<1>7. CASE /\ netCaller = "power" /\ netSent = n
           /\ resume' = prov.active /\ SetState("quiescing", FALSE) /\ timer' = FALSE
           /\ IF prov.active
              THEN /\ prov' = [prov EXCEPT !.cancel = TRUE] /\ netPc' = n
                   /\ UNCHANGED <<netReplies, online, wifiVars, netFailures>>
              ELSE QuiesceWifi(n) /\ UNCHANGED <<prov, netPc>>
           /\ UNCHANGED <<retries, strayed>>
  <2>1. netSleep.at = "prepare" /\ netSent # 0
    BY <1>2, <1>3, <1>4, <1>5, <1>7 DEF Ordered, QueueInOrder
  <2>2. ~Queued("rollback")'
    BY <1>2, <1>3, <1>7, <2>1, NoRollbackBehind
  <2>3. \A b : ~Told(b)
    BY <1>2, <1>4, <1>7, ToldIsTaken
  <2>4. /\ netState' = "quiescing" /\ netLease' = FALSE /\ timer' = FALSE /\ resume' = prov.active
        /\ netState' \in NetStates /\ {netLease', timer', resume'} \subseteq BOOLEAN
    BY <1>2, <1>7, ServiceTypes DEF SetState, Leased, NetStates, Sessions
  <2>5. prov.active => netSleep.forced
    BY <1>2, <2>1 DEF Spared, Portal
  <2>6. CASE prov.active
    <3>1. /\ prov' = [prov EXCEPT !.cancel = TRUE] /\ netPc' = n
          /\ UNCHANGED <<netReplies, online, wifi, radio, events, netFailures, strayed>>
      BY <1>7, <2>6 DEF wifiVars
    <3>2. /\ prov' \in Sessions /\ prov'.at = prov.at /\ prov'.active = prov.active
          /\ prov'.lease = prov.lease /\ prov'.saved = prov.saved /\ prov'.stopped = prov.stopped
      BY <1>2, <3>1, ServiceTypes DEF Sessions
    <3>3. DriverStep
      BY <1>2, <3>1, DriverLeft
    <3>4. NetTyped'
      BY <1>1, <1>2, <1>4, <1>5, <1>7, <2>4, <3>1, <3>2, <3>3, TypedServed DEF NetTyped
    <3>5. Ordered'
      BY <1>2, <1>3, <1>5, <1>7, <2>1, <3>1, OrderedTaken
    <3>6. ~Told(TRUE)'
      BY <1>3, <2>3, <3>1 DEF Told
    <3>7. Quiet'
      BY <1>2, <1>3, <2>1, <2>4, <3>6 DEF Quiet, Promised
    <3>8. Portal'
      BY <1>2, <1>3, <1>4, <2>4, <2>6, <3>1, <3>2 DEF Portal
    <3>9. Spared'
      BY <1>2, <1>3, <2>1, <2>2, <2>4, <2>5, <3>2 DEF Spared
    <3>10. Station'
      BY <1>2, <1>3, <1>4, <2>4, <3>1, <3>2 DEF Station
    <3>11. Armed'
      BY <2>4 DEF Armed, LeaseMatchesState, TimerMatchesState
    <3>12. Air' /\ (~NewsIn(events') => ~NewsIn(events) /\ (Joined' <=> Joined))
      BY <1>2, <3>3, AirAfterDriver
    <3>13. OnlineFits => OnlineFits'
      BY <2>4, <3>1 DEF OnlineFits, Joined
    <3>14. Posted'
      BY <1>2, <1>3, <3>12, <3>13, PostedServed DEF News
    <3> QED BY <3>4, <3>5, <3>7, <3>8, <3>9, <3>10, <3>11, <3>12, <3>14 DEF NetInv
  <2>7. CASE ~prov.active
    <3>1. QuiesceWifi(n) /\ UNCHANGED <<prov, netPc, strayed>>
      BY <1>7, <2>7
    <3>2. /\ DriverStep /\ online' \in BOOLEAN /\ (online' => online)
          /\ wifi'.initialized <=> wifi.initialized
          /\ \E ok \in BOOLEAN : NetReply(n, ok) /\ (ok => ~online' /\ radio' = "down")
      <4> HIDE DEF n
      <4> QED BY <1>2, <1>5, <3>1, WifiQuiesced
    <3>3. PICK ok \in BOOLEAN : NetReply(n, ok) /\ (ok => ~online' /\ radio' = "down")
      BY <3>2
    <3>4. netReplies' \in Seq(NetAnswers) /\ (Told(TRUE)' => ok)
      <4>1. netReplies \in Seq(NetAnswers) /\ n \in Nat /\ netSent' = netSent
        BY <1>2, <1>3, <1>5 DEF NetTyped
      <4> HIDE DEF n
      <4> QED BY <2>3, <3>3, <4>1, NetReplied
    <3>5. NetTyped'
      BY <1>1, <1>2, <1>4, <2>4, <2>7, <3>1, <3>2, <3>4, TypedServed DEF NetTyped
    <3>6. Ordered'
      BY <1>2, <1>3, <3>1, <3>3, OrderedTaken
    <3>7. prov.at = "idle" /\ ~prov.lease
      BY <1>2, <2>7 DEF Portal
    <3>8. Quiet'
      BY <1>2, <1>3, <2>1, <2>2, <2>4, <3>1, <3>3, <3>4, <3>7 DEF Quiet, Promised
    <3>9. Portal'
      BY <1>2, <2>4, <2>7, <3>1, <3>7 DEF Portal
    <3>10. Spared'
      BY <1>3, <2>4, <2>7, <3>1, <3>7 DEF Spared
    <3>11. wifi.initialized => known
      BY <1>2 DEF Station
    <3>12. Station'
      BY <1>2, <1>3, <1>4, <2>4, <3>1, <3>2, <3>11, StationAfterDriver
    <3>13. Armed'
      BY <2>4 DEF Armed, LeaseMatchesState, TimerMatchesState
    <3>14. Air' /\ (~NewsIn(events') => ~NewsIn(events) /\ (Joined' <=> Joined))
      BY <1>2, <3>2, AirAfterDriver
    <3>15. OnlineFits /\ (Joined' <=> Joined) => OnlineFits'
      BY <2>4, <3>2 DEF OnlineFits
    <3>16. Posted'
      BY <1>2, <1>3, <3>14, <3>15, PostedServed DEF News
    <3> QED BY <3>5, <3>6, <3>8, <3>9, <3>10, <3>12, <3>13, <3>14, <3>16 DEF NetInv
  <2> QED BY <2>6, <2>7
<1> QED BY <1>6, <1>7 DEF NetPrepare

\* StopProvisioningMode returns.
LEMMA StoppedKeeps ==
    ASSUME NetInv, SessionStopped
    PROVE  NetInv'
<1>1. /\ netPc # 0 /\ netPc' = 0
      /\ UNCHANGED <<netQueue, netState, netLease, timer, retries, resume, prov, strayed>>
      /\ UNCHANGED NetOthers
      /\ UNCHANGED <<netCaller, netSent, netRequests, netSleep, known, dropped, unanswered>>
      /\ UNCHANGED outcome
      /\ \/ prov.stopped /\ QuiesceWifi(netPc)
         \/ NetReply(netPc, FALSE) /\ UNCHANGED <<online, wifiVars, netFailures>>
  BY DEF SessionStopped, NetOthers, sleepVars, leaseVars
<1>2. NetTyped /\ Ordered /\ Quiet /\ Portal /\ Spared /\ Station /\ Armed /\ Air /\ Posted
  BY DEF NetInv
<1>3. netState = "quiescing" /\ netPc \in Nat
  BY <1>1, <1>2, IdsAreNumbers DEF Quiet
<1>4. /\ DriverStep /\ online' \in BOOLEAN /\ (online' => online)
      /\ wifi'.initialized <=> wifi.initialized
      /\ \E ok \in BOOLEAN : /\ NetReply(netPc, ok)
                             /\ ok => ~online' /\ radio' = "down" /\ prov.stopped
  <2>1. CASE prov.stopped /\ QuiesceWifi(netPc)
    BY <1>2, <1>3, <2>1, WifiQuiesced
  <2>2. CASE NetReply(netPc, FALSE) /\ UNCHANGED <<online, wifiVars, netFailures>>
    <3>1. DriverStep
      BY <1>2, <2>2, DriverLeft DEF wifiVars
    <3> QED BY <1>2, <2>2, <3>1, ServiceTypes DEF wifiVars
  <2> QED BY <1>1, <2>1, <2>2
<1>5. PICK ok \in BOOLEAN : /\ NetReply(netPc, ok)
                            /\ ok => ~online' /\ radio' = "down" /\ prov.stopped
  BY <1>4
<1>6. /\ netReplies' \in Seq(NetAnswers)
      /\ Told(TRUE)' => Told(TRUE) \/ (netPc = netSent /\ ok)
  <2>1. netReplies \in Seq(NetAnswers) /\ netSent' = netSent
    BY <1>1, <1>2 DEF NetTyped
  <2> QED BY <1>3, <1>5, <2>1, NetReplied
<1>7. /\ \A t : Queued(t)' <=> Queued(t)
      /\ netPc = netSent => netCaller = "power" /\ netSleep.at = "prepare" /\ ~Queued("rollback")
  BY <1>1, <1>2, NoRollbackBehind DEF Queued, Ordered, InCall
<1>8. NetTyped'
  <2>1. netQueue' \in Seq(NetCommands) /\ netPc' \in Nat /\ netState' \in NetStates
        /\ {online', netLease', timer', resume', strayed'} \subseteq BOOLEAN /\ prov' \in Sessions
    BY <1>1, <1>2, <1>4 DEF NetTyped
  <2> QED BY <1>1, <1>2, <1>4, <1>6, <2>1, TypedServed
<1>9. Ordered'
  BY <1>1, <1>2, <1>5, OrderedStopped
<1>10. Quiet'
  <2>1. ~Promised
    BY <1>1, <1>2 DEF Quiet
  <2>2. Promised' => ok /\ netPc = netSent
    BY <1>1, <1>6, <2>1 DEF Promised
  <2>3. ok => prov.at = "idle"
    BY <1>2, <1>5 DEF Portal
  <2>4. ~netLease' /\ ~timer' /\ netState' = "quiescing" /\ prov' = prov
    BY <1>1, <1>2, <1>3 DEF Quiet
  <2>5. Promised' =>
          /\ netState' = "quiescing" /\ ~online' /\ ~netLease' /\ ~timer'
          /\ radio' = "down" /\ prov'.at \notin {"opening", "open"}
          /\ netPc' = 0 /\ ~Queued("rollback")'
    BY <1>1, <1>5, <1>7, <2>2, <2>3, <2>4
  <2>6. netCaller' = "power" /\ netSleep'.at = "rollback" /\ Told(TRUE)' => netState' # "quiescing"
    BY <1>1, <1>2, <1>6, <1>7 DEF Quiet
  <2> QED BY <1>1, <1>2, <2>5, <2>6 DEF Quiet
<1>11. Portal'
  BY <1>1, <1>2, <1>4, <1>7 DEF Portal
<1>12. Spared'
  BY <1>1, <1>2, <1>7 DEF Spared
<1>13. wifi.initialized => known
  BY <1>2 DEF Station
<1>14. Station'
  BY <1>1, <1>2, <1>3, <1>4, <1>7, <1>13, StationAfterDriver
<1>15. Armed'
  BY <1>1, <1>2, <1>3 DEF Armed, LeaseMatchesState, TimerMatchesState, Leased
<1>16. Air' /\ (~NewsIn(events') => ~NewsIn(events) /\ (Joined' <=> Joined))
  BY <1>2, <1>4, AirAfterDriver
<1>17. OnlineFits /\ (Joined' <=> Joined) => OnlineFits'
  BY <1>1, <1>3, <1>4 DEF OnlineFits
<1>18. Posted'
  BY <1>1, <1>2, <1>16, <1>17, PostedKept
<1> QED BY <1>8, <1>9, <1>10, <1>11, <1>12, <1>14, <1>15, <1>16, <1>18 DEF NetInv

\* RollbackAfterSleepAbort: no session waits to be resumed.
LEMMA RollbackKeeps ==
    ASSUME NetInv, NetRollback
    PROVE  NetInv'
<1>1. /\ NetTake("rollback") /\ UNCHANGED NetOthers /\ netPc' = netPc /\ ResumeWifi
      /\ resume' = FALSE /\ strayed' = (strayed \/ netState # "quiescing")
      /\ UNCHANGED <<known, dropped, outcome>>
  BY DEF NetRollback, NetOthers
<1>2. NetTyped /\ Portal /\ Spared /\ Station /\ Armed
  BY DEF NetInv
<1>3. /\ Queued("rollback")
      /\ \A t : (Queued(t)' => Queued(t)) /\ (Queued(t) /\ t # "rollback" => Queued(t)')
  BY <1>1, <1>2, QueueTaken DEF NetTyped, NetTake
<1>4. ~resume /\ (prov.active => netState # "quiescing")
  BY <1>2, <1>3 DEF Spared, Portal
<1>5. DriverStep /\ ~wifi'.quiescing /\ (wifi'.initialized <=> wifi.initialized)
  BY <1>1, <1>2, WifiResumed
<1>6. /\ {resume', strayed'} \subseteq BOOLEAN /\ (strayed => strayed')
      /\ netState # "quiescing" => strayed'
  BY <1>1, <1>2, ServiceTypes
<1>7. /\ wifi.initialized => known
      /\ wifi.connected => wifi.initialized
      /\ netState \in {"connecting", "backoff"} => known
  BY <1>2 DEF Station
<1>8. \/ /\ wifi.connected /\ online' = TRUE /\ SetState("online", netLease) /\ NetAnswer(TRUE)
         /\ UNCHANGED <<timer, retries, prov>>
      \/ /\ ~wifi.connected /\ wifi.initialized
         /\ online' = FALSE /\ EnterConnecting /\ retries' = 0 /\ NetAnswer(TRUE)
         /\ UNCHANGED prov
      \/ /\ ~wifi.initialized /\ SetState("off", FALSE) /\ NetAnswer(TRUE)
         /\ UNCHANGED <<online, timer, retries, prov>>
      \/ NetAnswer(FALSE) /\ UNCHANGED <<leaseVars, online, timer, retries, prov>>
  <2>1. CASE wifi.connected
    BY <1>4, <2>1 DEF NetRollback
  <2>2. CASE ~wifi.connected /\ wifi.initialized /\ CanHold
    BY <1>4, <2>2 DEF NetRollback
  <2>3. CASE ~wifi.connected /\ ~wifi.initialized
    BY <1>4, <2>3 DEF NetRollback
  <2>4. CASE ~wifi.connected /\ wifi.initialized /\ ~CanHold
    BY <1>4, <2>4 DEF NetRollback
  <2> QED BY <2>1, <2>2, <2>3, <2>4
<1>9. UNCHANGED prov
  BY <1>8
<1>10. \/ /\ wifi.connected /\ online' = TRUE /\ netState' = "online" /\ netLease' = FALSE
          /\ timer' = timer /\ NetAnswer(TRUE)
       \/ /\ ~wifi.connected /\ wifi.initialized /\ online' = FALSE /\ netState' = "connecting"
          /\ netLease' = TRUE /\ timer' = TRUE /\ NetAnswer(TRUE)
       \/ /\ ~wifi.initialized /\ netState' = "off" /\ netLease' = FALSE
          /\ online' = online /\ timer' = timer /\ NetAnswer(TRUE)
       \/ NetAnswer(FALSE) /\ UNCHANGED <<netState, netLease, online, timer>>
  BY <1>8 DEF SetState, EnterConnecting, Leased, leaseVars
<1>11. /\ netState' \in NetStates /\ {online', netLease', timer'} \subseteq BOOLEAN
       /\ netState' = "quiescing" => netState = "quiescing"
       /\ netState' \in {"connecting", "backoff"} => known
       /\ \E ok \in BOOLEAN : NetAnswer(ok) /\ (ok => netState' # "quiescing")
  BY <1>2, <1>7, <1>10, ServiceTypes DEF NetStates
<1>12. Portal'
  <2>1. prov.at \in {"opening", "open", "told"} =>
            /\ ~wifi'.initialized /\ netState' \notin {"connecting", "backoff"}
            /\ ~Queued("provisioned")'
            /\ netState' \in {"provisioning", "quiescing"} \/ strayed'
    BY <1>2, <1>3, <1>4, <1>5, <1>6, <1>7, <1>10 DEF Portal
  <2>2. ~(netState' = "quiescing" /\ prov.active)
    BY <1>4, <1>11
  <2>3. netState' = "provisioning" => netState = "provisioning" /\ netLease' = netLease
    BY <1>10
  <2> QED BY <1>1, <1>2, <1>3, <1>6, <1>9, <2>1, <2>2, <2>3 DEF Portal
<1>13. Armed'
  <2>1. CASE NetAnswer(FALSE) /\ UNCHANGED <<netState, netLease, online, timer>>
    BY <1>2, <1>5, <1>6, <2>1, DriverTypes
       DEF Armed, LeaseMatchesState, TimerMatchesState, DriverStep
  <2>2. CASE netState' = "connecting" /\ netLease' = TRUE /\ timer' = TRUE
    BY <2>2 DEF Armed, LeaseMatchesState, TimerMatchesState, Leased
  <2>3. CASE netState' \in {"online", "off"} /\ netLease' = FALSE /\ timer' = timer
    <3>1. timer => strayed'
      BY <1>2, <1>6 DEF Armed, TimerMatchesState
    <3> QED BY <2>3, <3>1 DEF Armed, LeaseMatchesState, TimerMatchesState
  <2> QED BY <1>10, <2>1, <2>2, <2>3
<1>14. ~NewsIn(events') /\ (Joined' <=> Joined) /\ OnlineFits => OnlineFits'
  <2> SUFFICES ASSUME ~NewsIn(events'), Joined' <=> Joined, OnlineFits
               PROVE  OnlineFits'
    OBVIOUS
  <2>1. ~NewsIn(events) /\ (wifi.connected <=> Joined)
    BY <1>5, AirAfterDriver DEF NetInv, Air
  <2>2. ~wifi.initialized => ~Joined
    BY <1>2 DEF Station, Joined
  <2>3. CASE wifi.connected /\ online' = TRUE /\ netState' = "online"
    BY <2>1, <2>3 DEF OnlineFits
  <2>4. CASE ~wifi.connected /\ online' = FALSE /\ netState' = "connecting"
    BY <2>1, <2>4 DEF OnlineFits
  <2>5. CASE ~wifi.initialized /\ online' = online /\ netState' = "off"
    BY <2>2, <2>5 DEF OnlineFits
  <2>6. CASE UNCHANGED <<netState, online>>
    BY <2>6 DEF OnlineFits
  <2> QED BY <1>10, <2>3, <2>4, <2>5, <2>6
<1> QED BY <1>1, <1>2, <1>5, <1>6, <1>7, <1>9, <1>11, <1>12, <1>13, <1>14, HandlerServed,
        ServiceTypes DEF News

\* Retry
LEMMA RetryKeeps ==
    ASSUME NetInv, Retry
    PROVE  NetInv'
<1>1. /\ TimerExpires /\ netState = "connecting" /\ timer' = TRUE /\ UNCHANGED NetOthers
      /\ UNCHANGED <<netQueue, netReplies, netPc, resume, prov, strayed>>
  BY DEF Retry
<1>2. NetTyped /\ Station /\ Armed
  BY DEF NetInv
<1>3. CASE /\ SetState(netState, TRUE) /\ Connect
           /\ UNCHANGED <<online, wifi, events, netFailures>>
  <2>1. DriverStep
    BY <1>2, <1>3, DriverLeft
  <2>2. netState' = "connecting" /\ netLease' = TRUE
    BY <1>1, <1>3 DEF SetState, Leased
  <2>3. Armed'
    BY <1>1, <2>2 DEF Armed, LeaseMatchesState, TimerMatchesState, Leased
  <2>4. wifi.initialized => known
    BY <1>2 DEF Station
  <2> QED BY <1>1, <1>2, <1>3, <2>1, <2>2, <2>3, <2>4, Expired, ServiceTypes
<1>4. CASE SetState("backoff", TRUE) /\ online' = FALSE /\ StopWifiStationRadio
  <2>1. DriverStep /\ wifi'.initialized = wifi.initialized /\ wifi'.quiescing = wifi.quiescing
    BY <1>2, <1>4, RadioStopped
  <2>2. netState' = "backoff" /\ netLease' = FALSE
    BY <1>4 DEF SetState, Leased
  <2>3. Armed'
    BY <1>1, <2>2 DEF Armed, LeaseMatchesState, TimerMatchesState
  <2>4. wifi.initialized => known
    BY <1>2 DEF Station
  <2> QED BY <1>1, <1>4, <2>1, <2>2, <2>3, <2>4, Expired
<1> QED BY <1>3, <1>4 DEF Retry

\* The end of a backoff, in which the credentials are known.
LEMMA BackoffKeeps ==
    ASSUME NetInv, BackoffEnds
    PROVE  NetInv'
<1>1. /\ TimerExpires /\ netState = "backoff" /\ UNCHANGED NetOthers
      /\ UNCHANGED <<netQueue, netReplies, netPc, resume, strayed>>
  BY DEF BackoffEnds
<1>2. NetTyped /\ Station /\ Armed
  BY DEF NetInv
<1>3. known /\ ~wifi.quiescing /\ timer
  BY <1>1, <1>2 DEF Station, TimerExpires
<1>4. PICK result \in {"ok", "none", "error"} :
          /\ IF wifi.initialized
             THEN result # "none" /\ StartWifiStationRadio(result = "ok")
             ELSE StartStation(result)
          /\ CASE result = "none" -> BeginProvisioning
               [] result = "ok" -> EnterConnecting /\ retries' = 0 /\ UNCHANGED <<online, prov>>
               [] OTHER -> netLease' = TRUE /\ UNCHANGED <<netState, online, timer, retries, prov>>
  BY DEF BackoffEnds
<1>5. /\ DriverStep /\ wifi'.quiescing = wifi.quiescing /\ result # "none"
      /\ result = "error" => netFailures' > 0
  <2>1. CASE wifi.initialized
    <3> DEFINE ok == result = "ok"
    <3>1. ok \in BOOLEAN /\ StartWifiStationRadio(ok) /\ result # "none"
      BY <1>4, <2>1
    <3>2. result = "error" => ~ok
      OBVIOUS
    <3> HIDE DEF ok
    <3> QED BY <1>2, <1>3, <2>1, <3>1, <3>2, RadioStarted
  <2>2. CASE ~wifi.initialized
    BY <1>2, <1>3, <1>4, <2>2, StationTried
  <2> QED BY <2>1, <2>2
<1>6. CASE result = "ok"
  <2>1. netState' = "connecting" /\ netLease' = TRUE /\ timer' = TRUE /\ UNCHANGED <<online, prov>>
    BY <1>4, <1>6 DEF EnterConnecting, SetState, Leased
  <2>2. Armed'
    BY <2>1 DEF Armed, LeaseMatchesState, TimerMatchesState, Leased
  <2> QED BY <1>1, <1>2, <1>3, <1>5, <2>1, <2>2, Expired, ServiceTypes
<1>7. CASE result = "error"
  <2>1. netLease' = TRUE /\ UNCHANGED <<netState, online, timer, prov>>
    BY <1>4, <1>7
  <2>2. Armed'
    BY <1>1, <1>3, <1>5, <1>7, <2>1 DEF Armed, LeaseMatchesState, TimerMatchesState
  <2> QED BY <1>1, <1>2, <1>3, <1>5, <2>1, <2>2, Expired, ServiceTypes
<1> QED BY <1>5, <1>6, <1>7

--------------------------------------------------------------------------------
(* Calls and the power coordinator *)

\* A call that joins the queue, or none, leaves the service and the link as they are.
LEMMA ServiceUntouched ==
    ASSUME NetInv,
           UNCHANGED <<serviceVars, wifiVars, provVars, dropped, strayed, netFailures>>,
           \/ netQueue' = netQueue
           \/ \E c \in NetCommands : c.type \in CallTypes /\ netQueue' = Append(netQueue, c)
    PROVE  Portal' /\ Station' /\ Armed' /\ Air' /\ Posted'
<1>1. /\ UNCHANGED <<netState, online, netLease, timer, retries, resume, wifi, radio, events>>
      /\ UNCHANGED <<prov, outcome, known, dropped, strayed, netFailures>>
  BY DEF serviceVars, wifiVars, provVars
<1>2. NetTyped /\ Portal /\ Station /\ Armed /\ Air /\ Posted
  BY DEF NetInv
<1>3. \A t : t \notin CallTypes => (Queued(t)' <=> Queued(t))
  <2>1. CASE netQueue' = netQueue
    BY <2>1 DEF Queued
  <2>2. CASE \E c \in NetCommands : c.type \in CallTypes /\ netQueue' = Append(netQueue, c)
    <3>1. PICK c \in NetCommands : c.type \in CallTypes /\ netQueue' = Append(netQueue, c)
      BY <2>2
    <3> QED BY <1>2, <3>1, QueueAdded DEF NetTyped
  <2> QED BY <2>1, <2>2
<1>4. /\ Queued("provisioned")' <=> Queued("provisioned")
      /\ Queued("started")' <=> Queued("started")
      /\ Queued("gotip")' <=> Queued("gotip")
      /\ Queued("lost")' <=> Queued("lost")
  BY <1>3 DEF CallTypes
<1>5. Portal'
  BY <1>1, <1>2, <1>4 DEF Portal
<1>6. Station'
  BY <1>1, <1>2, <1>4 DEF Station
<1>7. Armed'
  BY <1>1, <1>2 DEF Armed, LeaseMatchesState, TimerMatchesState
<1>8. Air'
  BY <1>1, <1>2 DEF Air, Joined
<1>9. Posted'
  <2>1. CASE netQueue' = netQueue
    BY <1>1, <1>2, <2>1 DEF Posted, OnlineFits, Joined, Types
  <2>2. CASE \E c \in NetCommands : c.type \in CallTypes /\ netQueue' = Append(netQueue, c)
    <3>1. PICK c \in NetCommands : c.type \in CallTypes /\ netQueue' = Append(netQueue, c)
      BY <2>2
    <3>2. c.type \notin News /\ c.type # "started"
      BY <3>1 DEF CallTypes, News
    <3> QED BY <1>1, <1>2, <3>1, <3>2, PostedAdded
  <2> QED BY <2>1, <2>2
<1> QED BY <1>5, <1>6, <1>7, <1>8, <1>9

\* SubmitCommand: what was promised is not called for again.
LEMMA NetCallKeeps ==
    ASSUME NetInv, NEW who \in {"client", "power"}, NEW type \in CallTypes, Call(who, type),
           type = IF who = "power" THEN netSleep.at ELSE "start"
    PROVE  NetInv'
<1> DEFINE c == [type |-> type, id |-> netRequests + 1]
<1>1. /\ netRequests' = netRequests + 1 /\ netCaller' = who /\ netSent' = netRequests + 1
      /\ netQueue' = Append(netQueue, c) /\ netReplies' = <<>>
      /\ UNCHANGED <<netPc, serviceVars, wifiVars, provVars, netSleep, dropped, unanswered>>
      /\ UNCHANGED <<strayed, netFailures>>
  BY DEF Call, sleepVars, netHistory
<1>2. NetTyped /\ Ordered /\ Quiet /\ Spared
  BY DEF NetInv
<1>3. netRequests \in Nat /\ c \in NetCommands /\ c.type = type
  BY <1>2, IdsAreNumbers DEF NetCommands
<1> HIDE DEF c
<1>4. netQueue' \in Seq(NetCommands) /\ \A t : Queued(t)' <=> Queued(t) \/ t = type
  BY <1>1, <1>2, <1>3, QueueAdded DEF NetTyped
<1>5. NetTyped'
  BY <1>1, <1>2, <1>3, <1>4, EmptySeq DEF NetTyped, serviceVars, wifiVars, provVars
<1>6. Ordered' /\ \A b : ~Told(b)'
  BY <1>2, OrderedCalled
<1>7. type = "rollback" => netSleep.at = "rollback"
  OBVIOUS
<1>8. Quiet'
  BY <1>1, <1>2, <1>4, <1>6, <1>7 DEF Quiet, Promised, serviceVars, wifiVars, provVars
<1>9. Spared'
  BY <1>1, <1>2, <1>4, <1>7 DEF Spared, serviceVars, provVars
<1>10. Portal' /\ Station' /\ Armed' /\ Air' /\ Posted'
  BY <1>1, <1>3, ServiceUntouched
<1> QED BY <1>5, <1>6, <1>8, <1>9, <1>10 DEF NetInv

\* StartConnectivity and the calls of the power coordinator
LEMMA CallsKeep ==
    ASSUME NetInv, NetClientCall \/ NetPowerCall
    PROVE  NetInv'
<1>1. CASE NetClientCall
  <2>1. Call("client", "start") /\ "client" # "power"
    BY <1>1 DEF NetClientCall
  <2> QED BY <2>1, NetCallKeeps DEF CallTypes
<1>2. CASE netSleep.at = "prepare" /\ Call("power", "prepare")
  BY <1>2, NetCallKeeps DEF CallTypes
<1>3. CASE netSleep.at = "rollback" /\ Call("power", "rollback")
  BY <1>3, NetCallKeeps DEF CallTypes
<1> QED BY <1>1, <1>2, <1>3 DEF NetPowerCall

\* A transaction moves on, with the call that ends or without one.
LEMMA TransactionMoves ==
    ASSUME NetInv, UNCHANGED <<netQueue, netRequests, netPc, serviceVars, wifiVars, provVars>>,
           UNCHANGED <<dropped, strayed, netFailures>>,
           \/ UNCHANGED netReplies
           \/ netReplies # <<>> /\ netReplies' = Tail(netReplies),
           \/ UNCHANGED <<netCaller, netSent>> /\ netCaller # "power"
           \/ netCaller' = NoCaller /\ netSent' = 0,
           netSleep' \in NetSleeps, unanswered' \in BOOLEAN,
           netSleep'.at = "ready" => Promised,
           netState = "quiescing" /\ netSleep'.at = "up" => unanswered',
           netSleep'.at \in {"prepare", "ready"} /\ ~netSleep'.forced => ~prov.lease,
           resume => netSleep'.forced /\ netSleep'.at \in {"prepare", "off"}
    PROVE  NetInv'
<1>1. NetTyped /\ Ordered /\ Quiet /\ Spared
  BY DEF NetInv
<1>2. netCaller' # "power" /\ netCaller' \in {NoCaller, "client", "power"} /\ netSent' \in Nat
  BY <1>1 DEF NetTyped, NoCaller
<1>3. netReplies' \in Seq(NetAnswers)
  BY <1>1, ReplyTaken DEF NetTyped
<1>4. NetTyped'
  BY <1>1, <1>2, <1>3 DEF NetTyped, serviceVars, wifiVars, provVars
<1>5. Ordered'
  BY <1>1, OrderedConcluded
<1>6. \A t : Queued(t)' <=> Queued(t)
  BY DEF Queued
<1>7. Promised' => Promised
  BY <1>2 DEF Promised
<1>8. Quiet'
  BY <1>1, <1>2, <1>6, <1>7 DEF Quiet, serviceVars, wifiVars, provVars
<1>9. Spared'
  BY <1>1, <1>6 DEF Spared, serviceVars, provVars
<1>10. Portal' /\ Station' /\ Armed' /\ Air' /\ Posted'
  BY ServiceUntouched
<1> QED BY <1>4, <1>5, <1>8, <1>9, <1>10 DEF NetInv

\* Where a transaction goes after a call of it.
LEMMA AfterCallMoves ==
    ASSUME NetInv, NEW ok \in BOOLEAN, netSleep.at \in {"prepare", "rollback"}
    PROVE  /\ AfterCall(netSleep, ok) \in NetSleeps
           /\ AfterCall(netSleep, ok).forced = netSleep.forced
           /\ AfterCall(netSleep, ok).at = "ready" => netSleep.at = "prepare" /\ ok
           /\ AfterCall(netSleep, ok).at # "prepare"
           /\ AfterCall(netSleep, ok).at = "up" => netSleep.at = "rollback"
           /\ netSleep.forced /\ netSleep.at = "prepare" => AfterCall(netSleep, ok).at = "off"
BY DEF NetInv, NetTyped, NetSleeps, AfterCall

\* A call ends.
LEMMA NetConcludeKeeps ==
    ASSUME NetInv, NEW ok \in BOOLEAN, NetConclude(ok), ok => Told(TRUE),
           \/ UNCHANGED netReplies
           \/ netReplies # <<>> /\ netReplies' = Tail(netReplies)
    PROVE  NetInv'
<1>1. /\ netCaller' = NoCaller /\ netSent' = 0
      /\ UNCHANGED <<netQueue, netRequests, netPc, serviceVars, wifiVars, provVars>>
      /\ UNCHANGED <<dropped, strayed, netFailures>>
  BY DEF NetConclude
<1>2. NetTyped /\ Ordered /\ Quiet /\ Spared
  BY DEF NetInv
<1>3. CASE netCaller = "power"
  <2>1. /\ netSleep' = AfterCall(netSleep, ok)
        /\ unanswered' = (unanswered \/ (netSleep.at = "rollback" /\ ~ok))
    BY <1>3 DEF NetConclude
  <2>2. netSleep.at \in {"prepare", "rollback"}
    BY <1>2, <1>3 DEF Ordered, InCall
  <2>3. /\ netSleep' \in NetSleeps /\ netSleep'.forced = netSleep.forced
        /\ netSleep'.at = "ready" => netSleep.at = "prepare" /\ ok
        /\ netSleep'.at # "prepare"
        /\ netSleep'.at = "up" => netSleep.at = "rollback"
        /\ netSleep.forced /\ netSleep.at = "prepare" => netSleep'.at = "off"
    BY <2>1, <2>2, AfterCallMoves
  <2>4. unanswered' \in BOOLEAN
    BY <1>2, <2>1 DEF NetTyped
  <2>5. netSleep'.at = "ready" => Promised
    BY <1>3, <2>3 DEF Promised
  <2>6. netState = "quiescing" /\ netSleep'.at = "up" => unanswered'
    BY <1>2, <1>3, <2>1, <2>3 DEF Quiet
  <2>7. netSleep'.at \in {"prepare", "ready"} /\ ~netSleep'.forced => ~prov.lease
    BY <1>2, <2>3 DEF Spared
  <2>8. resume => netSleep'.forced /\ netSleep'.at \in {"prepare", "off"}
    BY <1>2, <2>2, <2>3 DEF Spared
  <2> QED BY <1>1, <2>3, <2>4, <2>5, <2>6, <2>7, <2>8, TransactionMoves
<1>4. CASE netCaller # "power"
  <2>1. UNCHANGED <<netSleep, unanswered>>
    BY <1>4 DEF NetConclude
  <2>2. netSleep \in NetSleeps /\ unanswered \in BOOLEAN
    BY <1>2 DEF NetTyped
  <2>3. /\ netSleep'.at = "ready" => Promised
        /\ netState = "quiescing" /\ netSleep'.at = "up" => unanswered'
        /\ netSleep'.at \in {"prepare", "ready"} /\ ~netSleep'.forced => ~prov.lease
        /\ resume => netSleep'.forced /\ netSleep'.at \in {"prepare", "off"}
    BY <1>2, <2>1 DEF Promised, Quiet, Spared
  <2> QED BY <1>1, <2>1, <2>2, <2>3, TransactionMoves
<1> QED BY <1>3, <1>4

\* The caller takes a reply, or gives up.
LEMMA RepliesKeep ==
    ASSUME NetInv, NetTakeReply \/ NetGiveUp
    PROVE  NetInv'
<1>1. NetTyped /\ Ordered /\ Quiet /\ Spared
  BY DEF NetInv
<1>2. CASE NetGiveUp
  <2> DEFINE no == FALSE
  <2>1. NetConclude(no) /\ UNCHANGED netReplies /\ no \in BOOLEAN /\ (no => Told(TRUE))
    BY <1>2 DEF NetGiveUp
  <2> HIDE DEF no
  <2> QED BY <2>1, NetConcludeKeeps
<1>3. ASSUME NetTakeReply, Head(netReplies).id = netSent
      PROVE  NetInv'
  <2> DEFINE ok == Head(netReplies).ok
  <2>1. NetConclude(ok) /\ netReplies # <<>> /\ netReplies' = Tail(netReplies)
    BY <1>3 DEF NetTakeReply
  <2>2. /\ Head(netReplies) \in NetAnswers
        /\ \E j \in 1..Len(netReplies) : Head(netReplies) = netReplies[j]
    BY <1>1, <2>1, ReplyTaken DEF NetTyped
  <2>3. ok \in BOOLEAN /\ (ok => Told(TRUE))
    BY <1>3, <2>2 DEF NetAnswers, Told
  <2> HIDE DEF ok
  <2> QED BY <2>1, <2>3, NetConcludeKeeps
<1>4. ASSUME NetTakeReply, Head(netReplies).id # netSent
      PROVE  NetInv'
  <2>1. /\ netReplies # <<>> /\ netReplies' = Tail(netReplies)
        /\ UNCHANGED <<netQueue, netCaller, netSent, netRequests, netPc, serviceVars>>
        /\ UNCHANGED <<wifiVars, provVars, netSleep, dropped, unanswered, strayed, netFailures>>
    BY <1>4 DEF NetTakeReply, sleepVars, netHistory
  <2>2. netReplies' \in Seq(NetAnswers) /\ \A b : Told(b)' => Told(b)
    BY <1>1, <2>1, ReplyTaken DEF NetTyped
  <2>3. NetTyped'
    BY <1>1, <2>1, <2>2 DEF NetTyped, serviceVars, wifiVars, provVars
  <2>4. Ordered'
    BY <1>1, <2>1, OrderedConcluded
  <2>5. \A t : Queued(t)' <=> Queued(t)
    BY <2>1 DEF Queued
  <2>6. Quiet'
    BY <1>1, <2>1, <2>2, <2>5 DEF Quiet, Promised, serviceVars, wifiVars, provVars
  <2>7. Spared'
    BY <1>1, <2>1, <2>5 DEF Spared, serviceVars, provVars
  <2>8. Portal' /\ Station' /\ Armed' /\ Air' /\ Posted'
    BY <2>1, ServiceUntouched
  <2> QED BY <2>3, <2>4, <2>6, <2>7, <2>8 DEF NetInv
<1> QED BY <1>2, <1>3, <1>4

\* The transaction moves with no call of it on its way.
LEMMA NetSleepKeeps ==
    ASSUME NetInv, NeverSent \/ NetBeginSleep \/ NetAbortSleep \/ CommitSleep
    PROVE  NetInv'
<1>1. NetTyped /\ Ordered /\ Quiet /\ Spared
  BY DEF NetInv
<1>2. /\ UNCHANGED <<netQueue, netReplies, netCaller, netSent, netRequests, netPc, serviceVars>>
      /\ UNCHANGED <<wifiVars, provVars, dropped, strayed, netFailures>>
  BY DEF NeverSent, NetBeginSleep, NetAbortSleep, CommitSleep, netCallVars, netHistory
<1>3. unanswered \in BOOLEAN /\ netSleep \in NetSleeps
  BY <1>1 DEF NetTyped
<1>4. CASE NeverSent
  <2> DEFINE no == FALSE
  <2>1. /\ netSleep.at \in {"prepare", "rollback"} /\ netCaller # "power"
        /\ netSleep' = AfterCall(netSleep, no) /\ no \in BOOLEAN /\ ~no
        /\ unanswered' = (unanswered \/ netSleep.at = "rollback")
    BY <1>4 DEF NeverSent
  <2> HIDE DEF no
  <2>2. /\ netSleep' \in NetSleeps /\ netSleep'.forced = netSleep.forced
        /\ netSleep'.at \notin {"ready", "prepare"}
        /\ netSleep'.at = "up" => netSleep.at = "rollback"
        /\ netSleep.forced /\ netSleep.at = "prepare" => netSleep'.at = "off"
    BY <2>1, AfterCallMoves
  <2>3. unanswered' \in BOOLEAN /\ (netSleep'.at = "up" => unanswered')
    BY <1>3, <2>1, <2>2
  <2>4. resume => netSleep'.forced /\ netSleep'.at \in {"prepare", "off"}
    BY <1>1, <2>1, <2>2 DEF Spared
  <2> QED BY <1>2, <2>1, <2>2, <2>3, <2>4, TransactionMoves
<1>5. CASE NetBeginSleep
  <2>1. PICK forced \in BOOLEAN :
              /\ forced \/ (~netLease /\ ~prov.lease)
              /\ netSleep' = [at |-> "prepare", forced |-> forced]
    BY <1>5 DEF NetBeginSleep
  <2>2. netSleep.at = "up" /\ unanswered' = unanswered
    BY <1>5 DEF NetBeginSleep, netHistory
  <2>3. netSleep' \in NetSleeps /\ netSleep'.at = "prepare" /\ netSleep'.forced = forced
    BY <2>1 DEF NetSleeps
  <2>4. netCaller # "power" /\ ~resume
    BY <1>1, <2>2 DEF Ordered, InCall, Spared
  <2> QED BY <1>2, <1>3, <2>1, <2>2, <2>3, <2>4, TransactionMoves
<1>6. CASE NetAbortSleep \/ CommitSleep
  <2>1. /\ netSleep.at = "ready" /\ unanswered' = unanswered
        /\ \/ netSleep' = [netSleep EXCEPT !.at = "rollback"]
           \/ netSleep' = [netSleep EXCEPT !.at = "off"]
    BY <1>6 DEF NetAbortSleep, CommitSleep, netHistory
  <2>2. netSleep' \in NetSleeps /\ netSleep'.at \in {"rollback", "off"}
    BY <1>3, <2>1 DEF NetSleeps
  <2>3. netCaller # "power" /\ ~resume
    BY <1>1, <2>1 DEF Ordered, InCall, Spared
  <2> QED BY <1>2, <1>3, <2>1, <2>2, <2>3, TransactionMoves
<1> QED BY <1>4, <1>5, <1>6

--------------------------------------------------------------------------------
(* The provisioning task, the event task and the air *)

\* What the provisioning task leaves alone.
LEMMA SessionMoves ==
    ASSUME NetInv, netQueue' = netQueue, prov' \in Sessions, known' \in BOOLEAN,
           UNCHANGED <<netReplies, netCaller, netSent, netRequests, netPc, serviceVars, wifiVars>>,
           UNCHANGED <<netSleep, dropped, unanswered, strayed>>,
           netFailures' \in Nat, netFailures' >= netFailures,
           prov'.at \in {"opening", "open"} => prov.at \in {"opening", "open"},
           prov'.lease => prov.lease, known => known', prov'.saved => known', Portal'
    PROVE  NetInv'
<1>1. /\ UNCHANGED <<netState, online, netLease, timer, retries, resume, wifi, radio, events>>
  BY DEF serviceVars, wifiVars
<1>2. NetTyped /\ Ordered /\ Quiet /\ Spared /\ Station /\ Armed /\ Air /\ Posted
  BY DEF NetInv
<1>3. (\A t : Queued(t)' <=> Queued(t)) /\ (\A b : Told(b)' <=> Told(b))
  BY DEF Queued, Told
<1>4. NetTyped'
  BY <1>1, <1>2 DEF NetTyped
<1>5. Ordered'
  BY <1>2 DEF Ordered, InCall, QueueInOrder, RepliesInOrder
<1>6. Quiet'
  BY <1>1, <1>2, <1>3 DEF Quiet, Promised
<1>7. Spared'
  BY <1>1, <1>2, <1>3 DEF Spared
<1>8. Station'
  BY <1>1, <1>2, <1>3 DEF Station
<1>9. Armed'
  BY <1>1, <1>2, DriverTypes DEF Armed, LeaseMatchesState, TimerMatchesState
<1>10. Air'
  BY <1>1, <1>2 DEF Air, Joined
<1>11. Posted'
  BY <1>1, <1>2 DEF Posted, OnlineFits, Joined, Types
<1> QED BY <1>4, <1>5, <1>6, <1>7, <1>8, <1>9, <1>10, <1>11 DEF NetInv

\* PortalStarts, UserActs, PortalStops, PublishStopped
LEMMA SessionsKeep ==
    ASSUME NetInv, PortalStarts \/ UserActs \/ PortalStops \/ PublishStopped
    PROVE  NetInv'
<1>1. /\ UNCHANGED <<netQueue, netReplies, netCaller, netSent, netRequests, netPc, serviceVars>>
      /\ UNCHANGED <<wifiVars, netSleep, dropped, unanswered, strayed>>
  BY DEF PortalStarts, UserActs, PortalStops, PublishStopped, ProvisionOnly, netCallVars, sleepVars
<1>2. NetTyped /\ Portal /\ Station
  BY DEF NetInv
<1>3. prov \in Sessions /\ known \in BOOLEAN /\ netFailures \in Nat
  BY <1>2 DEF NetTyped
<1>4. \A t : Queued(t)' <=> Queued(t)
  BY <1>1 DEF Queued
<1>5. UNCHANGED <<netState, netLease, resume, wifi>>
  BY <1>1 DEF serviceVars, wifiVars
<1>6. prov.saved => known
  BY <1>2 DEF Station
<1>7. CASE PortalStarts
  <2>1. PICK ok \in BOOLEAN :
          /\ NetMayFail(ok)
          /\ prov' = [prov EXCEPT !.at = IF ok THEN "open" ELSE "ending"]
          /\ outcome' = IF ok THEN outcome ELSE "failed"
    BY <1>7 DEF PortalStarts
  <2>2. prov.at = "opening" /\ known' = known
    BY <1>7 DEF PortalStarts
  <2>3. /\ prov' \in Sessions /\ prov'.active = prov.active /\ prov'.lease = prov.lease
        /\ prov'.saved = prov.saved /\ prov'.stopped = prov.stopped
        /\ prov'.at = IF ok THEN "open" ELSE "ending"
    BY <1>3, <2>1 DEF Sessions
  <2>4. netFailures' \in Nat /\ netFailures' >= netFailures
    BY <1>3, <2>1 DEF NetMayFail
  <2>5. Portal'
    BY <1>1, <1>2, <1>4, <1>5, <2>1, <2>2, <2>3 DEF Portal
  <2> QED BY <1>1, <1>3, <1>6, <2>2, <2>3, <2>4, <2>5, SessionMoves
<1>8. CASE UserActs
  <2>1. /\ prov.at = "open" /\ UNCHANGED <<outcome, netFailures>>
        /\ \/ prov' = [prov EXCEPT !.saved = TRUE] /\ known' = TRUE
           \/ prov' = [prov EXCEPT !.exit = TRUE] /\ known' = known
    BY <1>8 DEF UserActs
  <2>2. /\ prov' \in Sessions /\ prov'.active = prov.active /\ prov'.lease = prov.lease
        /\ prov'.stopped = prov.stopped /\ prov'.at = prov.at
        /\ known' \in BOOLEAN /\ (known => known') /\ (prov'.saved => known')
    BY <1>3, <1>6, <2>1 DEF Sessions
  <2>3. Portal'
    BY <1>1, <1>2, <1>4, <1>5, <2>1, <2>2 DEF Portal
  <2> QED BY <1>1, <1>3, <2>1, <2>2, <2>3, SessionMoves
<1>9. CASE PortalStops
  <2>1. PICK ok \in BOOLEAN :
          /\ NetMayFail(ok)
          /\ IF ok /\ ~prov.cancel /\ prov.saved
             THEN prov' = [prov EXCEPT !.at = "told"] /\ outcome' = "connected"
             ELSE /\ prov' = [prov EXCEPT !.at = "ending"]
                  /\ outcome' = IF prov.cancel THEN "idle" ELSE "failed"
    BY <1>9 DEF PortalStops
  <2>2. prov.at = "open" /\ known' = known
    BY <1>9 DEF PortalStops
  <2>3. /\ prov' \in Sessions /\ prov'.active = prov.active /\ prov'.lease = prov.lease
        /\ prov'.saved = prov.saved /\ prov'.stopped = prov.stopped
        /\ \/ prov'.at = "told" /\ prov.saved
           \/ prov'.at = "ending" /\ outcome' # "connected"
    BY <1>3, <2>1 DEF Sessions
  <2>4. netFailures' \in Nat /\ netFailures' >= netFailures
    BY <1>3, <2>1 DEF NetMayFail
  <2>5. Portal'
    BY <1>1, <1>2, <1>4, <1>5, <2>2, <2>3 DEF Portal
  <2> QED BY <1>1, <1>3, <1>6, <2>2, <2>3, <2>4, <2>5, SessionMoves
<1>10. CASE PublishStopped
  <2>1. /\ prov.at = "ending" /\ UNCHANGED <<outcome, known, netFailures>>
        /\ prov' = [prov EXCEPT !.at = "idle", !.lease = FALSE, !.active = FALSE, !.stopped = TRUE]
    BY <1>10 DEF PublishStopped
  <2>2. /\ prov' \in Sessions /\ ~prov'.active /\ ~prov'.lease /\ prov'.saved = prov.saved
        /\ prov'.at = "idle"
    BY <1>3, <2>1 DEF Sessions
  <2>3. Portal'
    BY <1>1, <1>2, <1>4, <1>5, <2>1, <2>2 DEF Portal
  <2> QED BY <1>1, <1>3, <1>6, <2>1, <2>2, <2>3, SessionMoves
<1> QED BY <1>7, <1>8, <1>9, <1>10

\* A posted command joins the queue, or is dropped.
LEMMA PostMade ==
    ASSUME NetTyped, Ordered, NEW type \in Posts, Post(type),
           UNCHANGED <<netReplies, netCaller, netSent, netRequests, netPc, netSleep>>
    PROVE  /\ netQueue' \in Seq(NetCommands) /\ dropped' \in BOOLEAN /\ Ordered'
           /\ dropped => dropped'
           /\ \A b : Told(b)' <=> Told(b)
           /\ \A t : Queued(t) => Queued(t)'
           /\ \A t : Queued(t)' => Queued(t) \/ t = type
           /\ Queued(type)' \/ dropped'
           /\ ~dropped' => /\ Types \in Seq(CallTypes \cup Posts) /\ Types' = Append(Types, type)
                           /\ ~dropped
<1>1. \A b : Told(b)' <=> Told(b)
  BY DEF Told
<1>2. CASE netQueue' = Append(netQueue, [type |-> type, id |-> 0]) /\ UNCHANGED dropped
  <2> DEFINE c == [type |-> type, id |-> 0]
  <2>1. c \in NetCommands /\ c.type = type /\ netQueue' = Append(netQueue, c)
    BY <1>2 DEF NetCommands
  <2>2. Ordered'
    BY <1>2, OrderedPosted
  <2> HIDE DEF c
  <2> QED BY <1>1, <1>2, <2>1, <2>2, QueueAdded DEF NetTyped
<1>3. CASE dropped' = TRUE /\ UNCHANGED netQueue
  <2>1. Ordered'
    BY <1>3 DEF Ordered, InCall, QueueInOrder, RepliesInOrder
  <2> QED BY <1>1, <1>3, <2>1 DEF NetTyped, Queued
<1> QED BY <1>2, <1>3 DEF Post

\* The service is told that the session has credentials.
LEMMA TellKeeps ==
    ASSUME NetInv, TellDone
    PROVE  NetInv'
<1>1. /\ prov.at = "told" /\ Post("provisioned") /\ prov' = [prov EXCEPT !.at = "ending"]
      /\ UNCHANGED <<netReplies, netCaller, netSent, netRequests, netPc, serviceVars, wifiVars,
                     outcome, known, netSleep, unanswered, strayed, netFailures>>
  BY DEF TellDone, sleepVars
<1>2. UNCHANGED <<netState, online, netLease, timer, retries, resume, wifi, radio, events>>
  BY <1>1 DEF serviceVars, wifiVars
<1>3. NetTyped /\ Ordered /\ Quiet /\ Portal /\ Spared /\ Station /\ Armed /\ Air /\ Posted
  BY DEF NetInv
<1>4. /\ prov' \in Sessions /\ prov'.active = prov.active /\ prov'.lease = prov.lease
      /\ prov'.saved = prov.saved /\ prov'.stopped = prov.stopped /\ prov'.at = "ending"
  BY <1>1, <1>3, ServiceTypes DEF Sessions
<1>5. "provisioned" \in Posts
  BY DEF Posts
<1>6. /\ netQueue' \in Seq(NetCommands) /\ dropped' \in BOOLEAN /\ Ordered'
      /\ dropped => dropped'
      /\ \A b : Told(b)' <=> Told(b)
      /\ \A t : Queued(t) => Queued(t)'
      /\ \A t : Queued(t)' => Queued(t) \/ t = "provisioned"
      /\ Queued("provisioned")' \/ dropped'
      /\ ~dropped' => /\ Types \in Seq(CallTypes \cup Posts)
                      /\ Types' = Append(Types, "provisioned") /\ ~dropped
  BY <1>1, <1>3, <1>5, PostMade
<1>7. NetTyped'
  BY <1>1, <1>2, <1>3, <1>4, <1>6 DEF NetTyped
<1>8. Quiet'
  BY <1>1, <1>2, <1>3, <1>4, <1>6 DEF Quiet, Promised
<1>9. Portal'
  BY <1>1, <1>2, <1>3, <1>4, <1>6 DEF Portal
<1>10. Spared'
  BY <1>1, <1>2, <1>3, <1>4, <1>6 DEF Spared
<1>11. known
  BY <1>1, <1>3 DEF Portal, Station
<1>12. Station'
  BY <1>1, <1>2, <1>3, <1>4, <1>6, <1>11 DEF Station
<1>13. Armed'
  BY <1>1, <1>2, <1>3 DEF Armed, LeaseMatchesState, TimerMatchesState
<1>14. Air'
  BY <1>1, <1>2, <1>3 DEF Air, Joined
<1>15. Posted'
  <2> SUFFICES ASSUME ~dropped'
               PROVE  Posted'
    BY DEF Posted
  <2> DEFINE S == CallTypes \cup Posts
             x == "provisioned"
  <2>1. Types \in Seq(S) /\ Types' = Append(Types, x) /\ x \in S /\ x \notin News /\ x # "started"
    BY <1>6 DEF Posts, News
  <2> HIDE DEF S, x
  <2>2. /\ NewsIn(Types) => NewsIn(Types')
        /\ \A y \in News : LastIs(Types', y) => LastIs(Types, y)
        /\ Followed(Types) => Followed(Types')
    BY <2>1, NewsAdded
  <2>3. /\ (NewsIn(events') <=> NewsIn(events)) /\ (Joined' <=> Joined)
        /\ (OnlineFits' <=> OnlineFits) /\ ~dropped
    BY <1>2, <1>6 DEF Joined, OnlineFits
  <2> QED BY <1>3, <2>2, <2>3 DEF Posted, News
<1> QED BY <1>6, <1>7, <1>8, <1>9, <1>10, <1>12, <1>13, <1>14, <1>15 DEF NetInv

\* An event is heard by wifi_manager, then posted.
LEMMA EventKeeps ==
    ASSUME NetInv, WifiEvent
    PROVE  NetInv'
<1> DEFINE x == Head(events)
<1>1. /\ events # <<>> /\ events' = Tail(events) /\ Post(x)
      /\ UNCHANGED <<netReplies, netCaller, netSent, netRequests, netPc, serviceVars, radio,
                     prov, outcome, known, netSleep, unanswered, strayed, netFailures>>
      /\ wifi' = CASE x = "gotip" -> [wifi EXCEPT !.connected = TRUE]
                   [] x = "lost" -> [wifi EXCEPT !.connected = FALSE]
                   [] OTHER -> wifi
  BY DEF WifiEvent, provVars, sleepVars
<1>2. UNCHANGED <<netState, online, netLease, timer, retries, resume>>
  BY <1>1 DEF serviceVars
<1>3. NetTyped /\ Ordered /\ Quiet /\ Portal /\ Spared /\ Station /\ Armed /\ Air /\ Posted
  BY DEF NetInv
<1>4. /\ x \in News \cup {"started"} /\ x \in Posts
      /\ events' \in Seq(News \cup {"started"})
  <2>1. events \in Seq(News \cup {"started"})
    BY <1>3, DriverTypes
  <2>2. x \in News \cup {"started"} /\ events' \in Seq(News \cup {"started"})
    BY <1>1, <2>1, EmptySeq, HeadTailProperties
  <2> QED BY <2>2 DEF Posts
<1>5. /\ NewsIn(events') => NewsIn(events)
      /\ NewsIn(events) /\ x \notin News => NewsIn(events')
      /\ \A y \in News : LastIs(events', y) => LastIs(events, y)
      /\ x \in News /\ ~NewsIn(events') => LastIs(events, x)
      /\ Followed(events) => Followed(events')
      /\ Followed(events) /\ x = "started" => NewsIn(events')
  <2> DEFINE S == News \cup {"started"}
  <2>1. events \in Seq(S)
    BY <1>3, DriverTypes
  <2> HIDE DEF S
  <2> QED BY <1>1, <2>1, NewsLeft
<1>6. /\ wifi' \in Wifis /\ wifi'.initialized = wifi.initialized
      /\ wifi'.quiescing = wifi.quiescing
      /\ x = "gotip" => wifi'.connected
      /\ x = "lost" => ~wifi'.connected
      /\ x \notin News => wifi'.connected = wifi.connected
  BY <1>1, <1>3, DriverTypes DEF Wifis, News
<1>7. wifi.initialized
  BY <1>1, <1>3 DEF Station
<1> HIDE DEF x
<1>8. /\ netQueue' \in Seq(NetCommands) /\ dropped' \in BOOLEAN /\ Ordered'
      /\ dropped => dropped'
      /\ \A b : Told(b)' <=> Told(b)
      /\ \A t : Queued(t) => Queued(t)'
      /\ \A t : Queued(t)' => Queued(t) \/ t = x
      /\ ~dropped' => /\ Types \in Seq(CallTypes \cup Posts)
                      /\ Types' = Append(Types, x) /\ ~dropped
  BY <1>1, <1>3, <1>4, PostMade
<1>9. x \notin {"provisioned", "rollback"}
  BY <1>4 DEF News
<1>10. NetTyped'
  BY <1>1, <1>2, <1>3, <1>4, <1>6, <1>8 DEF NetTyped
<1>11. Quiet'
  BY <1>1, <1>2, <1>3, <1>8, <1>9 DEF Quiet, Promised
<1>12. Portal'
  BY <1>1, <1>2, <1>3, <1>6, <1>7, <1>8, <1>9 DEF Portal
<1>13. Spared'
  BY <1>1, <1>2, <1>3, <1>8, <1>9 DEF Spared
<1>14. Station'
  BY <1>1, <1>2, <1>3, <1>6, <1>7, <1>8, <1>9 DEF Station
<1>15. Armed'
  BY <1>1, <1>2, <1>3 DEF Armed, LeaseMatchesState, TimerMatchesState
<1>16. Joined' <=> Joined
  BY <1>1 DEF Joined
<1>17. x \in News /\ ~NewsIn(events') => (Joined <=> x = "gotip")
  BY <1>3, <1>5 DEF Air, News
<1>18. Air'
  <2>1. ~NewsIn(events') => (wifi'.connected <=> Joined')
    BY <1>3, <1>5, <1>6, <1>16, <1>17 DEF Air, News
  <2> QED BY <1>3, <1>5, <1>16, <2>1 DEF Air, News
<1>19. Posted'
  <2> SUFFICES ASSUME ~dropped', ~NewsIn(events')
               PROVE  /\ LastIs(Types', "gotip") => Joined'
                      /\ LastIs(Types', "lost") => ~Joined'
                      /\ Joined' => Followed(Types')
                      /\ ~NewsIn(Types') => OnlineFits'
    BY DEF Posted
  <2> DEFINE S == CallTypes \cup Posts
  <2>1. Types \in Seq(S) /\ Types' = Append(Types, x) /\ x \in S /\ ~dropped
    BY <1>4, <1>8
  <2> HIDE DEF S
  <2>2. /\ NewsIn(Types) => NewsIn(Types')
        /\ x \in News => NewsIn(Types')
        /\ x \notin News => \A y \in News : LastIs(Types', y) => LastIs(Types, y)
        /\ \A y \in News : LastIs(Types', y) /\ x \in News => y = x
        /\ x \in News => Followed(Types')
    <3> DEFINE s == Types
               q == Types'
    <3>1. s \in Seq(S) /\ q = Append(s, x) /\ x \in S
      BY <2>1
    <3> HIDE DEF s, q
    <3>2. /\ NewsIn(s) => NewsIn(q)
          /\ x \in News => NewsIn(q)
          /\ x \notin News => \A y \in News : LastIs(q, y) => LastIs(s, y)
          /\ \A y \in News : LastIs(q, y) /\ x \in News => y = x
          /\ x \in News => Followed(q)
      BY <3>1, NewsAdded, ZenonT(60)
    <3> QED BY <3>2 DEF s, q
  <2>3. CASE x \in News
    BY <1>16, <1>17, <2>2, <2>3 DEF News
  <2>4. CASE x \notin News
    <3>1. x = "started" /\ ~NewsIn(events)
      BY <1>4, <1>5, <2>4
    <3>2. ~Joined
      BY <1>3, <1>5, <3>1 DEF Air
    <3>3. OnlineFits => OnlineFits'
      BY <1>2, <1>16 DEF OnlineFits
    <3>4. LastIs(Types', "gotip") => Joined'
      BY <1>3, <1>16, <2>1, <2>2, <2>4, <3>1 DEF Posted, News
    <3> QED BY <1>3, <1>16, <2>1, <2>2, <3>1, <3>2, <3>3, <3>4 DEF Posted
  <2> QED BY <2>3, <2>4
<1> QED BY <1>8, <1>10, <1>11, <1>12, <1>13, <1>14, <1>15, <1>18, <1>19 DEF NetInv

\* The station joins, or loses the link.
LEMMA LinkKeeps ==
    ASSUME NetInv, Link
    PROVE  NetInv'
<1>1. PICK x \in News :
         /\ events' = Append(events, x) /\ radio \in {"joining", "joined"}
         /\ radio' \in Radios /\ (Joined' <=> x = "gotip")
  <2>1. CASE radio = "joining" /\ radio' = "joined" /\ events' = Append(events, "gotip")
    BY <2>1 DEF News, Radios, Joined
  <2>2. CASE /\ radio \in {"joining", "joined"} /\ radio' = "started"
             /\ events' = Append(events, "lost")
    BY <2>2 DEF News, Radios, Joined
  <2> QED BY <2>1, <2>2 DEF Link
<1>2. /\ UNCHANGED <<netQueue, netReplies, netCaller, netSent, netRequests, netPc, wifi>>
      /\ UNCHANGED <<netState, online, netLease, timer, retries, resume, prov, outcome, known>>
      /\ UNCHANGED <<netSleep, dropped, unanswered, strayed, netFailures>>
  BY DEF Link, netCallVars, serviceVars, provVars, sleepVars, netHistory
<1>3. NetTyped /\ Ordered /\ Quiet /\ Portal /\ Spared /\ Station /\ Armed /\ Air /\ Posted
  BY DEF NetInv
<1>4. (\A t : Queued(t)' <=> Queued(t)) /\ (\A b : Told(b)' <=> Told(b))
  BY <1>2 DEF Queued, Told
<1>5. events' \in Seq(News \cup {"started"})
  BY <1>1, <1>3, DriverTypes, AppendProperties
<1>6. /\ NewsIn(events') /\ Followed(events')
      /\ \A y \in News : LastIs(events', y) => y = x
  <2> DEFINE S == News \cup {"started"}
  <2>1. events \in Seq(S) /\ x \in S
    BY <1>3, DriverTypes
  <2> HIDE DEF S
  <2> QED BY <1>1, <2>1, NewsAdded
<1>7. NetTyped'
  BY <1>1, <1>2, <1>3, <1>5 DEF NetTyped
<1>8. Ordered'
  BY <1>2, <1>3 DEF Ordered, InCall, QueueInOrder, RepliesInOrder
<1>9. Quiet'
  BY <1>1, <1>2, <1>3, <1>4 DEF Quiet, Promised
<1>10. Portal'
  BY <1>2, <1>3, <1>4 DEF Portal
<1>11. Spared'
  BY <1>2, <1>3, <1>4 DEF Spared
<1>12. wifi.initialized
  BY <1>1, <1>3 DEF Station
<1>13. Station'
  BY <1>2, <1>3, <1>4, <1>12 DEF Station
<1>14. Armed'
  BY <1>2, <1>3 DEF Armed, LeaseMatchesState, TimerMatchesState
<1>15. Air'
  BY <1>1, <1>6 DEF Air, News
<1>16. Posted'
  BY <1>6 DEF Posted
<1> QED BY <1>7, <1>8, <1>9, <1>10, <1>11, <1>13, <1>14, <1>15, <1>16 DEF NetInv

--------------------------------------------------------------------------------
(* The specification *)

\* The invariant holds at first.
LEMMA NetStarts == NetInit => NetInv
<1> SUFFICES ASSUME NetInit
             PROVE  NetInv
  OBVIOUS
<1>1. netQueue = <<>> /\ netReplies = <<>> /\ events = <<>>
  BY DEF NetInit
<1>2. Len(netQueue) = 0 /\ Len(netReplies) = 0 /\ Len(events) = 0 /\ DOMAIN netQueue = {}
  BY <1>1, EmptySeq
<1>3. NetTyped
  <2>1. netQueue \in Seq(NetCommands) /\ netReplies \in Seq(NetAnswers)
        /\ events \in Seq(News \cup {"started"})
    BY <1>1, EmptySeq
  <2>2. wifi \in Wifis /\ radio \in Radios
    BY DEF NetInit, Wifis, Radios
  <2>3. prov \in Sessions /\ netSleep \in NetSleeps
    BY DEF NetInit, NoSession, Sessions, NetSleeps
  <2>4. {online, netLease, timer, resume, known} \subseteq BOOLEAN
        /\ {dropped, unanswered, strayed} \subseteq BOOLEAN
    BY DEF NetInit
  <2>5. /\ {netSent, netRequests, netPc} \subseteq Nat /\ netFailures \in Nat
        /\ netState \in NetStates /\ netCaller \in {NoCaller, "client", "power"}
    BY DEF NetInit, NetStates
  <2> QED BY <2>1, <2>2, <2>3, <2>4, <2>5 DEF NetTyped
<1>4. Ordered
  BY <1>2 DEF NetInit, Ordered, InCall, QueueInOrder, RepliesInOrder, NoCaller
<1>5. ~Told(TRUE) /\ \A t : ~Queued(t)
  BY <1>2 DEF Told, Queued
<1>6. Quiet
  BY <1>5 DEF NetInit, Quiet, Promised, NoCaller
<1>7. Portal
  BY DEF NetInit, Portal, NoSession
<1>8. Spared
  BY DEF NetInit, Spared
<1>9. Station
  BY <1>1, <1>5 DEF NetInit, Station, NoSession
<1>10. Armed
  BY DEF NetInit, Armed, LeaseMatchesState, TimerMatchesState
<1>11. ~NewsIn(events) /\ Followed(events) /\ \A y : ~LastIs(events, y)
  BY <1>2 DEF NewsIn, Followed, LastIs
<1>12. Air
  BY <1>11 DEF NetInit, Air, Joined
<1>13. Len(Types) = 0
  BY <1>2 DEF Types
<1>14. ~NewsIn(Types) /\ Followed(Types) /\ \A y : ~LastIs(Types, y)
  BY <1>13 DEF NewsIn, Followed, LastIs
<1>15. Posted
  BY <1>14 DEF NetInit, Posted, OnlineFits, Joined
<1> QED BY <1>3, <1>4, <1>6, <1>7, <1>8, <1>9, <1>10, <1>12, <1>15 DEF NetInv

\* Every step of the owner, its callers, the portal and the link keeps it.
LEMMA NetStepKeeps ==
    ASSUME NetInv, NetNext
    PROVE  NetInv'
<1>1. CASE NetCalls
  BY <1>1, CallsKeep, RepliesKeep, NetSleepKeeps DEF NetCalls
<1>2. CASE NetPower
  BY <1>2, NetSleepKeeps DEF NetPower
<1>3. CASE NetOwner
  BY <1>3, NetStartKeeps, ProvisionedKeeps, StartedKeeps, ConnectedKeeps, DisconnectedKeeps,
     PrepareKeeps, StoppedKeeps, RollbackKeeps, RetryKeeps, BackoffKeeps DEF NetOwner
<1>4. CASE Provisioning
  BY <1>4, SessionsKeep, TellKeeps DEF Provisioning
<1>5. CASE WifiEvent \/ Link
  BY <1>5, EventKeeps, LinkKeeps
<1> QED BY <1>1, <1>2, <1>3, <1>4, <1>5 DEF NetNext

\* And so does a step that is none of it.
LEMMA NetStutterKeeps ==
    ASSUME NetInv, UNCHANGED netVars
    PROVE  NetInv'
<1>1. /\ netQueue' = netQueue /\ prov' = prov /\ known' = known /\ netFailures' = netFailures
      /\ UNCHANGED <<netReplies, netCaller, netSent, netRequests, netPc, serviceVars, wifiVars>>
      /\ UNCHANGED <<netSleep, dropped, unanswered, strayed, provVars>>
  BY DEF netVars, netCallVars, provVars, sleepVars, netHistory
<1>2. prov \in Sessions /\ known \in BOOLEAN /\ netFailures \in Nat /\ (prov.saved => known)
  BY DEF NetInv, NetTyped, Station
<1>3. Portal'
  BY <1>1, ServiceUntouched
<1> QED BY <1>1, <1>2, <1>3, SessionMoves

\* A state that fits together in these ways is quiet once ready and accounted for.
LEMMA NetInvIsSound ==
    ASSUME NetInv
    PROVE  ConnectivitySound
<1>1. NetTyped /\ Quiet /\ Portal /\ Armed /\ Air /\ Posted
  BY DEF NetInv
<1>2. QuietOnceReady
  BY <1>1 DEF Quiet, Promised, QuietOnceReady
<1>3. WaitsForSomething
  <2>1. netState = "provisioning" =>
          prov.active \/ Queued("provisioned") \/ outcome # "connected" \/ dropped \/ strayed
    BY <1>1, ServiceTypes DEF Portal, Sessions
  <2> QED BY <1>1, <2>1 DEF WaitsForSomething, Quiet, Armed
<1>4. OnlineTracksLink
  <2> SUFFICES ASSUME Heard
               PROVE  /\ online => radio = "joined" /\ wifi.connected
                      /\ radio = "joined" => online \/ netState \in {"quiescing", "provisioning"}
    BY DEF OnlineTracksLink
  <2>1. ~NewsIn(events)
    <3>1. Len(events) = 0
      BY EmptySeq DEF Heard
    <3> QED BY <3>1 DEF NewsIn
  <2>2. ~NewsIn(Types)
    <3>1. /\ DOMAIN netQueue = 1..Len(netQueue) /\ Len(netQueue) \in Nat
          /\ Len(Types) = Len(netQueue) /\ \A i \in 1..Len(netQueue) : Types[i] = netQueue[i].type
      BY <1>1, LenProperties DEF NetTyped, Types
    <3>2. ~Queued("gotip") /\ ~Queued("lost")
      BY DEF Heard
    <3> QED BY <3>1, <3>2 DEF NewsIn, News, Queued
  <2>3. OnlineFits /\ (wifi.connected <=> Joined)
    BY <1>1, <2>1, <2>2 DEF Heard, Posted, Air
  <2> QED BY <2>3 DEF OnlineFits, Joined
<1> QED BY <1>1, <1>2, <1>3, <1>4 DEF ConnectivitySound, StateAccounted, Armed

\* The inductive invariant of the connectivity service.
THEOREM NetInvariance == NetSpec => []NetInv
<1>1. NetInv /\ [NetNext]_netVars => NetInv'
  BY NetStepKeeps, NetStutterKeeps
<1> QED BY <1>1, NetStarts, PTL DEF NetSpec

\* A service that answered that it is ready stays quiet until the rollback is executed,
\* and state, timer, lease, sessions, calls and link always fit together, whatever calls are
\* given up, events are late and posts are dropped (PrepareForSleep, RollbackAfterSleepAbort,
\* StartConfiguredConnectivity, the handlers of the Wi-Fi events, StartProvisioningMode).
THEOREM ConnectivityIsSound == NetSpec => []ConnectivitySound
BY NetInvariance, NetInvIsSound, PTL
================================================================================
