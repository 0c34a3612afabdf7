----------------------------- MODULE WordInvariant -----------------------------
(***************************************************************************)
(* The inductive invariant of WordStudy (WordInv), by which the properties *)
(* of the store are proved in WordStudyProofs.                             *)
(***************************************************************************)
EXTENDS WordStudy

-------------------------------------------------------------------------------
(* Types *)

\* The records of a journal, partial ones apart.
Entries == [kind : {"obs", "ack"}, id : 1..MaxIds, sid : 1..MaxSessions, seq : 0..MaxIds - 1]

\* The observations among them.
Observations == {e \in Entries : e.kind = "obs"}

\* The snapshots of a session: the cursor is one of its cards or behind the last.
Sessions == {s \in [sid : 1..MaxSessions, next : Nat, end : Nat] :
                s.next <= s.end /\ (s.end <= MaxIds \/ s.end = 1)}

\* The files of the store.
Files == {"journal", "session", "rejected"}

\* What a transaction may answer that meets no I/O error.
Answers == {"ok", "unreadable", "notFound", "full"}

\* The steps of a plan.
Steps ==
    [do : {"return"}, file : {"none"}, data : Answers]
    \cup [do : {"removeBackup", "backup"}, file : Files, data : {Absent}]
    \cup [do : {"removePrimary"}, file : {"journal", "session"}, data : {Absent}]
    \cup [do : {"eraseBackup"}, file : {"session", "rejected"}, data : {Absent}]
    \cup [do : {"cursor"}, file : {"session"}, data : {Absent}]
    \cup [do : {"install", "create"}, file : {"journal"}, data : Seq(Observations)]
    \cup [do : {"install", "create"}, file : {"session"}, data : Sessions]
    \cup [do : {"install", "create"}, file : {"rejected"}, data : Seq(Nat)]
    \cup [do : {"append"}, file : {"journal"}, data : Entries]

\* A file with its backup.
Pairs(contents) == [primary : contents \cup {Absent}, backup : contents \cup {Absent}]

\* The transactions, and none.
Transactions ==
    {None} \cup [kind : {"load", "save", "clear", "peek", "prepare"}]
           \cup [kind : {"commit"}, obs : Observations]
           \cup [kind : {"ack", "quarantine"}, id : 1..MaxIds]

\* The files hold what the program writes to them.
DiskTyped ==
    /\ disk = [journal |-> disk.journal, session |-> disk.session, rejected |-> disk.rejected]
    /\ disk.journal \in Pairs(Seq(Entries \cup {Torn}))
    /\ disk.session \in Pairs(Sessions)
    /\ disk.rejected \in Pairs(Seq(Nat))

\* The states of the page that has a session, and those with an observation to commit.
PageStates == {"ready", "committing", "persisting", "saved", "unsaved", "failed", "saving",
               "savingFailed"}
WithObs == {"committing", "persisting", "saved", "unsaved", "failed", "savingFailed"}

\* The page: its observation is the next one of its session.
UiTyped ==
    /\ ui \in [state : PageStates \cup {"off", "loading", "starting", "clearing"},
               session : Sessions \cup {NoSession}, obs : Observations \cup {None}]
    /\ IF ui.state \in PageStates \cup {"starting"} THEN ui.session \in Sessions
       ELSE ui.session = NoSession
    /\ IF ui.state \in WithObs
       THEN /\ ui.obs \in Observations
            /\ ui.obs.sid = ui.session.sid /\ ui.obs.seq = ui.session.next
            /\ ui.obs.seq < ui.session.end /\ ui.obs.id <= created.ids
       ELSE ui.obs = None
    /\ ui.session.sid <= created.sids
    /\ ui.state = "starting" => ui.session = Session(created.sids, 0, 1)
    /\ ui.state = "clearing" => 1..created.sids \subseteq dropped

\* The upload loop.
UploaderTyped ==
    \/ uploader = Uploader("idle", None)
    \/ uploader = Uploader("peeking", None)
    \/ uploader \in [state : {"holding", "accepted", "refused", "acking", "quarantining"},
                     obs : Observations]

\* The transaction is the one its caller waits for, and has a plan until it answers.
OpTyped ==
    /\ op \in Transactions
    /\ result \in Answers \cup {"busy", "ioError"}
    /\ op = None => todo = <<>> /\ result = "busy"
    /\ op # None => (todo = <<>> <=> result # "busy")
    /\ op.kind = "load" <=> ui.state = "loading"
    /\ op.kind = "save" <=> ui.state \in {"starting", "saving", "savingFailed"}
    /\ op.kind = "clear" <=> ui.state = "clearing"
    /\ op.kind = "commit" <=> ui.state = "persisting"
    /\ op.kind = "commit" => op.obs = ui.obs
    /\ op.kind = "peek" <=> uploader.state = "peeking"
    /\ op.kind = "ack" <=> uploader.state = "acking"
    /\ op.kind = "quarantine" <=> uploader.state = "quarantining"
    /\ op.kind \in {"ack", "quarantine"} => op.id = uploader.obs.id

\* The observations the server gave a verdict.
Judged == server.accepted \cup server.refused

\* The server and the counts: every session but the newest was dropped.
CountsTyped ==
    /\ server = [next |-> server.next, accepted |-> server.accepted, refused |-> server.refused]
    /\ server.next \in [Sids -> 0..MaxIds]
    /\ Judged \subseteq 1..created.ids
    /\ created \in [ids : 0..MaxIds, sids : 0..MaxSessions]
    /\ dropped \subseteq 1..created.sids
    /\ 1..created.sids - 1 \subseteq dropped
    /\ recorded \subseteq Observations

\* Every variable has its type.
Typed == DiskTyped /\ UiTyped /\ UploaderTyped /\ OpTyped /\ CountsTyped

-------------------------------------------------------------------------------
(* What the files say. *)

\* A record as the observation it is about, and those of the records at some places.
AsObs(r) == [r EXCEPT !.kind = "obs"]
Picked(f, places) == [n \in 1..Cardinality(places) |-> AsObs(f[Nth(places, n)])]

\* The places of the observations, of the ACKs, and of what no ACK names.
ObsPlaces(f) == {i \in 1..Len(f) : f[i].kind = "obs"}
AckPlaces(f) == {i \in 1..Len(f) : f[i].kind = "ack"}
WaitPlaces(f) == {i \in ObsPlaces(f) : \A j \in AckPlaces(f) : f[j].id # f[i].id}

\* What waits in a journal, what was acknowledged, and a partial record.
WaitingIn(f) == Picked(f, WaitPlaces(f))
AckedIn(f) == Picked(f, AckPlaces(f))
HasTorn(f) == \E i \in 1..Len(f) : f[i] = Torn

\* The scan of a primary.
ScanOf(pending, acked, torn) == OutboxScan(pending, acked, Len(acked), torn, FALSE)

\* No identifier comes twice; the elements of a sequence.
DistinctIds(s) == \A m, n \in 1..Len(s) : s[m].id = s[n].id => m = n
Elements(s) == {s[i] : i \in 1..Len(s)}

\* A journal as the program writes it: each observation and each ACK once, an ACK behind
\* its observation, and a partial record nowhere but at the end.
Clean(f) ==
    /\ f \in Seq(Entries \cup {Torn})
    /\ \A i \in 1..Len(f) : f[i] = Torn => i = Len(f)
    /\ \A i, j \in 1..Len(f) :
           f[i].kind = "obs" /\ f[j].kind = "obs" /\ f[i].id = f[j].id => i = j
    /\ \A i, j \in 1..Len(f) :
           f[i].kind = "ack" /\ f[j].kind = "ack" /\ f[i].id = f[j].id => i = j
    /\ \A j \in 1..Len(f) : f[j].kind = "ack" =>
           \E i \in 1..j - 1 : f[i].kind = "obs" /\ f[j] = AckOf(f[i])

\* The journal a reboot reads, and what it finds there.
ContentOf(pair) ==
    IF pair.primary # Absent THEN pair.primary
    ELSE IF pair.backup # Absent THEN pair.backup ELSE <<>>
Content == ContentOf(disk.journal)
Waiting == WaitingIn(Content)
Acked == AckedIn(Content)
TornTail == HasTorn(Content)
FromBackup == disk.journal.primary = Absent /\ disk.journal.backup # Absent
Kept == Elements(Acked) \cup Elements(Waiting)

\* The cursor of a snapshot once it is moved past a set of records.
NextOf(s, records) ==
    Max({s.next} \cup ({r.seq + 1 : r \in {q \in records : q.sid = s.sid}} \cap 0..s.end))
Moved(s, records) == [s EXCEPT !.next = NextOf(s, records)]

\* The snapshots on disk, the one that is read, and what a reboot makes of it.
Snapshots == {disk.session.primary, disk.session.backup} \ {Absent}
Stored == LoadSession(disk.session)
Boot == IF Stored = Absent THEN Absent ELSE Moved(Stored, Kept)

-------------------------------------------------------------------------------
(* The plan *)

\* The steps that matter to the others.
SessionInstall(x) == x.file = "session" /\ x.do \in {"install", "create"}
JournalInstall(x) == x.file = "journal" /\ x.do \in {"install", "create"}
AckAppend(x) == x.do = "append" /\ x.data.kind = "ack"
ObsAppend(x) == x.do = "append" /\ x.data.kind = "obs"

\* What is left to do.
Left == Elements(todo)
AckLeft == \E x \in Left : AckAppend(x)
ObsLeft == \E x \in Left : ObsAppend(x)
JournalLeft == \E x \in Left : JournalInstall(x)
SessionLeft == \E x \in Left : SessionInstall(x)

\* The transaction gave this answer or will, if nothing fails.
Ends(answer) == result = answer \/ \E x \in Left : x.do = "return" /\ x.data = answer

\* The old journal is away and the new one not there yet.
Installing == todo # <<>> /\ Head1.do = "install" /\ Head1.file = "journal"

\* The order of the file operations: the quarantine, the ACK, the sessions, the journal,
\* the observation.
Place(action) ==
    CASE action = "removePrimary" -> 1
      [] action = "create" -> 2
      [] action = "removeBackup" -> 3
      [] action = "backup" -> 4
      [] action = "install" -> 5
      [] action = "eraseBackup" -> 6
      [] OTHER -> 7
FirstOf(file) == CASE file = "rejected" -> 0 [] file = "session" -> 10 [] OTHER -> 20
Rank(x) ==
    CASE x.do = "return" -> 40
      [] AckAppend(x) -> 9
      [] ObsAppend(x) -> 30
      [] OTHER -> FirstOf(x.file) + Place(x.do)
Increasing(t) == \A j, k \in 1..Len(t) : j < k => Rank(t[j]) < Rank(t[k])

\* The steps of a replacement come one behind the other.
Follows(x, y) ==
    /\ x.do = "removeBackup" => y.do = "backup" /\ y.file = x.file
    /\ x.do = "backup" => y.do = "install" /\ y.file = x.file
    /\ x.do = "removePrimary" => y.do \in {"create", "eraseBackup"} /\ y.file = x.file
    /\ y.do = "backup" => x.do = "removeBackup"
    /\ y.do = "install" => x.do = "backup"
    /\ y.do = "create" => x.do = "removePrimary"
Chained(t) == \A k \in 1..Len(t) - 1 : Follows(t[k], t[k + 1])

\* A plan is in this order and ends with the answer.
Planned(t) ==
    /\ t \in Seq(Steps)
    /\ Chained(t) /\ Increasing(t)
    /\ t # <<>> => t[Len(t)].do = "return"

\* The files are where the steps of a replacement need them.
PlanShape ==
    /\ Planned(todo)
    /\ todo # <<>> /\ Head1.do = "backup" => Slot.primary # Absent
    /\ todo # <<>> /\ Head1.do = "install" => Slot.primary = Absent
    /\ \A x \in Left : x.do = "removePrimary" /\ op.kind # "clear" =>
           disk[x.file].primary = Absent
    /\ \A x \in Left : x.do = "eraseBackup" /\ x.file = "session" => op.kind = "clear"
    /\ op.kind = "clear" => ~SessionLeft

-------------------------------------------------------------------------------
(* The journal *)

\* The journal a reboot reads is as the program writes it, and within its capacity.
JournalSound == Clean(Content) /\ Len(Waiting) <= Capacity

\* The cache says what the journal says.
CacheSound ==
    cache = IF cache.loaded
            THEN OutboxScan(Waiting, Acked, Len(Acked), TornTail, FromBackup /\ ~Installing)
            ELSE ColdCache

\* The cache is loaded and nothing is to be repaired.
Repaired == cache.loaded /\ ~cache.partialTail /\ ~cache.fromBackup

\* What a compaction of the plan installs.
Target == IF AckLeft THEN Tail(Waiting) ELSE Waiting

\* What the plan does to the journal.
JournalPlan ==
    /\ \A x \in Left : x.file = "journal" => cache.loaded
    /\ \A x \in Left : JournalInstall(x) => x.data = Target
    /\ AckLeft => /\ op.kind \in {"ack", "quarantine"}
                  /\ \A x \in Left : ~(x.do = "removePrimary" /\ x.file = "journal")
    /\ \A x \in Left : AckAppend(x) => x.data = AckOf(Head(Waiting))
    /\ ObsLeft => op.kind = "commit" /\ Ends("ok") /\ Len(Waiting) < Capacity
    /\ \A x \in Left : ObsAppend(x) => x.data = op.obs
    /\ ObsLeft /\ ~JournalLeft => Repaired
    /\ JournalLeft => op.kind \notin {"save", "clear"}

\* The journal, the cache and the plan agree.
JournalInv == JournalSound /\ CacheSound /\ JournalPlan

-------------------------------------------------------------------------------
(* The session *)

\* What the saving transaction writes.
Saved == IF ui.state = "starting" THEN ui.session ELSE Paged(ui.session)

\* The snapshot read is past all that the journal holds, or will be before records go.
WillBeMoved == Stored = Boot \/ \E x \in Left : SessionInstall(x) /\ x.data = Boot

\* The observation of the page is in the journal.
Committed == ui.state = "saved" \/ (op.kind = "commit" /\ Ends("ok") /\ ~ObsLeft)

\* What the plan does to the session.
SessionPlan ==
    /\ \A x \in Left : SessionInstall(x) =>
           IF op.kind = "save" THEN x.data = Saved
           ELSE Stored # Absent /\ (x.data = Boot \/ (x.data = Stored /\ x.do = "create"))
    /\ JournalLeft \/ (op.kind = "load" /\ Ends("ok")) => WillBeMoved
    /\ op.kind = "load" /\ Ends("ok") => disk.session.primary # Absent \/ SessionLeft
    /\ op.kind = "save" /\ Ends("ok") /\ ~SessionLeft => Stored = Saved
    /\ op.kind = "commit" /\ Committed => \A x \in Left : x.do = "return"

\* The session of the page is the one on disk.
PageSound ==
    ui.state \in PageStates =>
        /\ Stored # Absent /\ Stored.sid = ui.session.sid
        /\ ui.session.sid \notin dropped =>
               /\ Stored.end >= ui.session.end
               /\ Boot.next = IF Committed THEN ui.session.next + 1 ELSE ui.session.next

\* The snapshot read has every card that a record of its session answers.
RecordsFit ==
    Stored # Absent /\ Stored.sid \notin dropped =>
        \A r \in Kept : r.sid = Stored.sid => r.seq + 1 <= Stored.end

\* What was recorded is behind the cursor, and no number was given twice.
NumbersSound ==
    /\ \A o \in recorded : o.sid \notin dropped =>
           Stored # Absent /\ Stored.sid = o.sid /\ o.seq < Boot.next
    /\ ui.state \in PageStates /\ ui.session.sid \notin dropped =>
           \A o \in recorded : o.sid = ui.session.sid =>
               o.seq < ui.session.next \/ (ui.state = "saved" /\ o = ui.obs)
    /\ \A r \in Kept \cup recorded : r.id <= created.ids /\ r.sid <= created.sids
    /\ \A s \in Snapshots : s.sid <= created.sids
    /\ ui.state = "starting" => \A r \in Kept \cup recorded : r.sid # ui.session.sid
    /\ SequenceRecordedOnce

\* The page, the snapshot and the records agree.
SessionInv == SessionPlan /\ PageSound /\ RecordsFit /\ NumbersSound

-------------------------------------------------------------------------------
(* The upload *)

\* The upload loop has the head of the journal, which nothing but it removes.
Holding ==
    \/ uploader.state \in {"holding", "accepted", "refused"}
    \/ uploader.state \in {"acking", "quarantining"} /\ AckLeft

\* What it holds is the head, and what it acknowledges has its verdict.
HeadHeld ==
    /\ Holding => Repaired /\ Waiting # <<>> /\ uploader.obs = Head(Waiting)
    /\ op.kind = "peek" /\ Ends("ok") =>
           cache.loaded /\ Waiting # <<>> /\ (~JournalLeft => Repaired)
    /\ Holding /\ uploader.state # "holding" =>
           uploader.obs.id \in Judged /\ uploader.obs.seq < server.next[uploader.obs.sid]

\* The server has a number of a session, or an observation that waits brings it.
Brought(sid, m, waiting) ==
    m < server.next[sid] \/ \E r \in waiting : r.sid = sid /\ r.seq = m
Covered(s) == \A m \in 0..s.next - 1 : Brought(s.sid, m, Elements(Waiting))

\* Every number below a waiting one is the server's, or waits before it.
Gapless(s) ==
    \A i \in 1..Len(s) : \A m \in 0..s[i].seq - 1 :
        Brought(s[i].sid, m, {s[j] : j \in 1..i - 1})

\* Every number below a waiting one, a snapshot's cursor or the page's will be brought.
NoGap ==
    /\ Gapless(Waiting)
    /\ \A s \in Snapshots : Covered(s)
    /\ ui.session # NoSession => Covered(ui.session)
    /\ Committed => Brought(ui.session.sid, ui.session.next, Elements(Waiting))

\* What the server said of the records.
Verdicts ==
    /\ \A r \in Elements(Waiting) : r.id \in server.accepted => r.seq < server.next[r.sid]
    /\ \A r \in Elements(Acked) : r.id \in Judged /\ r.seq < server.next[r.sid]
    /\ ui.state \in WithObs /\ ~Committed =>
           ui.obs.id \notin Judged /\ \A r \in Kept : r.id # ui.obs.id
    /\ op.kind = "commit" /\ Committed => ui.obs \in Elements(Waiting)
    /\ \A o \in recorded : o.id \in Judged \/ \E r \in Elements(Waiting) : r.id = o.id

\* The upload loop, the journal and the server agree.
UploadInv == HeadHeld /\ NoGap /\ Verdicts

\* The inductive invariant.
WordInv == Typed /\ PlanShape /\ JournalInv /\ SessionInv /\ UploadInv
================================================================================
