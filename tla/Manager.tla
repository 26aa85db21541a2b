------------------------------ MODULE Manager ------------------------------
(***************************************************************************)
(* The queues of one data directory and the server process that has them   *)
(* open: queue/manager.go, Create and Load of queue/queue.go, Open of      *)
(* wal/log.go, createQueue of api/server.go, runServe of main.go.          *)
(*                                                                         *)
(* A log is a sequence of units (module Framing) of which a prefix has     *)
(* been fsynced.  `dirent` says whether the path to it exists, and whether *)
(* it would after a power cut.  Group commit, and a log whose disk fails   *)
(* under a queue that is served, are module Wal's; here a queue has one    *)
(* enqueue at a time and its disk fails only while it is opened.           *)
(***************************************************************************)
EXTENDS Framing, FiniteSets, FiniteSetsExt

CONSTANTS
    NumQueues,      \* queue names, in the order ReadDir lists them
    MaxRecs,        \* bound: enqueues into one queue
    PowerCuts,      \* the machine may lose power
    DiskFaults,     \* opening a log, writing or syncing META may fail
    ParentsFollow   \* fsync of a directory also commits its own entry

ASSUME ManagerAssumption ==
    /\ NumQueues \in Nat /\ MaxRecs \in Nat
    /\ PowerCuts \in BOOLEAN /\ DiskFaults \in BOOLEAN /\ ParentsFollow \in BOOLEAN

Name == 1 .. NumQueues

VARIABLES
    file, synced,   \* of each queue: its log, and how much of it is on disk
    dirent,         \* the path to the log: "none", "cached" or "stable"
    proc,           \* the server process
    todo,           \* directories OpenManager has yet to load
    queues,         \* Manager.queues
    creating,       \* the create that holds Manager.mu: name and step
    answer,         \* of the last create
    waiting,        \* queues whose last enqueue waits for its fsync
    last,           \* of each queue: the last record enqueued
    created, confirmed,   \* creates and enqueues the client was told of
    botched         \* names whose create has failed in this process

disk == <<file, synced, dirent>>
told == <<last, created, confirmed>>
server == <<proc, todo, queues, creating, answer, waiting, botched>>
vars == <<disk, server, told>>

NoCreate == [q |-> 0, step |-> "none"]
Alive == proc \in {"booting", "up", "closing"}

Unit == [rec : {Meta, Fragment} \cup 1 .. MaxRecs, part : Nat, bad : BOOLEAN]

TypeOK ==
    /\ \A q \in Name : \A i \in 1 .. Len(file[q]) : file[q][i] \in Unit
    /\ \A q \in Name : synced[q] \in 0 .. Len(file[q])
    /\ dirent \in [Name -> {"none", "cached", "stable"}]
    /\ proc \in {"down", "refused", "booting", "up", "closing"}
    /\ todo \subseteq Name /\ queues \subseteq Name
    /\ creating \in [q : Name \cup {0}, step : {"none", "open", "dirsync", "write", "sync"}]
    /\ answer \in {"none", "created", "exists", "error"}
    /\ waiting \subseteq Name
    /\ last \in [Name -> 0 .. MaxRecs]
    /\ created \subseteq Name /\ confirmed \in [Name -> SUBSET (1 .. MaxRecs)]
    /\ botched \subseteq Name

Init ==
    /\ file = [q \in Name |-> <<>>] /\ synced = [q \in Name |-> 0]
    /\ dirent = [q \in Name |-> "none"]
    /\ proc = "down" /\ todo = {} /\ queues = {}
    /\ creating = NoCreate /\ answer = "none"
    /\ waiting = {}
    /\ last = [q \in Name |-> 0]
    /\ created = {} /\ confirmed = [q \in Name |-> {}]
    /\ botched = {}

-----------------------------------------------------------------------------
\* The file system.

\* Faulty: the log's directory is not fsynced.
syncDirSkipped(d) == d

\* fsync of a queue's directory, which has the entry of its log.  The entry of
\* the directory itself is in the root, which nobody fsyncs.
syncDir(d) == IF ParentsFollow THEN "stable" ELSE d

\* What is left of a log when its process is killed in the middle of a write.
Cut(q) == {SubSeq(file[q], 1, n) : n \in synced[q] .. Len(file[q])}

\* What a power cut leaves: pages past the last fsync may be missing at the
\* end, or be there in length and not in content.
Holed(q) ==
    Cut(q) \cup {[f EXCEPT ![i].bad = TRUE] :
                    f \in {file[q]}, i \in synced[q] + 1 .. Len(file[q])}

Dies ==
    /\ todo' = {} /\ queues' = {} /\ creating' = NoCreate /\ botched' = {}
    /\ answer' = "none" /\ waiting' = {}

Killed ==
    /\ Alive /\ proc' = "down" /\ Dies
    /\ \E f \in [Name -> UNION {Cut(q) : q \in Name}] :
         file' = f /\ \A q \in Name : f[q] \in Cut(q)
    /\ UNCHANGED <<synced, dirent, told>>

Kill == Killed

PowerCut ==
    /\ PowerCuts
    /\ proc' = "down" /\ Dies
    /\ \E lost \in SUBSET {q \in Name : dirent[q] = "cached"} :
         /\ dirent' = [q \in Name |->
                         IF dirent[q] = "none" \/ q \in lost THEN "none" ELSE "stable"]
         /\ \E f \in [Name -> {<<>>} \cup UNION {Holed(q) : q \in Name}] :
              /\ \A q \in Name : IF q \in lost THEN f[q] = <<>> ELSE f[q] \in Holed(q)
              /\ file' = f
              /\ synced' = [q \in Name |-> Len(f[q])]
    /\ UNCHANGED told

-----------------------------------------------------------------------------
\* OpenManager and Load.

StartServer ==
    /\ ~Alive /\ proc' = "booting"
    /\ todo' = {q \in Name : dirent[q] # "none"}
    /\ UNCHANGED <<disk, queues, creating, answer, waiting, told, botched>>

Loading == proc = "booting" /\ todo # {}

\* Corruption stops the server; the queues opened so far are closed.
LoadRefuses ==
    /\ Loading /\ Replay(file[Min(todo)]).corrupt
    /\ proc' = "refused" /\ Dies
    /\ UNCHANGED <<disk, told>>

\* Faulty: a log with no record stops the server too.
LoadSkipsNothing ==
    /\ Loading /\ ~Replay(file[Min(todo)]).corrupt
    /\ Replay(file[Min(todo)]).recs = <<>>
    /\ proc' = "refused" /\ Dies
    /\ UNCHANGED <<disk, told>>

\* ErrIncompleteQueue: the log holds no record, and the queue is passed over.
LoadSkips ==
    /\ Loading /\ ~Replay(file[Min(todo)]).corrupt
    /\ Replay(file[Min(todo)]).recs = <<>>
    /\ todo' = todo \ {Min(todo)}
    /\ UNCHANGED <<disk, proc, queues, creating, answer, waiting, told, botched>>

\* Faulty: a torn tail takes the last whole record with it.
LoadOpensShort ==
    LET q == Min(todo)
        r == Replay(file[q])
        keep == IF r.torn THEN r.valid - HeaderSize - PayloadLen(r.recs[Len(r.recs)])
                ELSE r.valid
    IN /\ Loading /\ ~r.corrupt /\ r.recs # <<>>
       /\ file' = [file EXCEPT ![q] = SubSeq(@, 1, keep)]
       /\ synced' = [synced EXCEPT ![q] = IF r.torn THEN keep ELSE @]
       /\ dirent' = [dirent EXCEPT ![q] = syncDir(@)]
       /\ queues' = queues \cup {q} /\ todo' = todo \ {q}
       /\ UNCHANGED <<proc, creating, answer, waiting, told, botched>>

\* The log is truncated to its verified length and opened.
LoadOpens ==
    LET q == Min(todo)
        r == Replay(file[q])
    IN /\ Loading /\ ~r.corrupt /\ r.recs # <<>>
       /\ file' = [file EXCEPT ![q] = SubSeq(@, 1, r.valid)]
       /\ synced' = [synced EXCEPT ![q] = IF r.torn THEN r.valid ELSE @]
       /\ dirent' = [dirent EXCEPT ![q] = syncDir(@)]
       /\ queues' = queues \cup {q} /\ todo' = todo \ {q}
       /\ UNCHANGED <<proc, creating, answer, waiting, told, botched>>

LoadFails ==
    /\ DiskFaults /\ Loading
    /\ proc' = "down" /\ Dies
    /\ UNCHANGED <<disk, told>>

Serving ==
    /\ proc = "booting" /\ todo = {}
    /\ proc' = "up"
    /\ UNCHANGED <<disk, todo, queues, creating, answer, waiting, told, botched>>

Boot == LoadRefuses \/ LoadSkips \/ LoadOpens \/ LoadFails \/ Serving

\* SIGTERM: no new request, then Manager.Close, which waits for Manager.mu and
\* flushes every log.
Terminate ==
    /\ proc = "up" /\ proc' = "closing"
    /\ UNCHANGED <<disk, todo, queues, creating, answer, waiting, told, botched>>

CloseManager ==
    /\ proc = "closing" /\ creating = NoCreate
    /\ proc' = "down" /\ Dies
    /\ synced' = [q \in Name |-> IF q \in queues THEN Len(file[q]) ELSE synced[q]]
    /\ UNCHANGED <<file, dirent, told>>

-----------------------------------------------------------------------------
\* Manager.Create, with Manager.mu held from the first step to the last.

Answers(a) == creating' = NoCreate /\ answer' = a

\* A name is taken when its queue is served or its log has a record.
CreateRefused(q) ==
    LET r == Replay(file[q])
    IN /\ proc = "up" /\ creating = NoCreate
       /\ q \in queues \/ r.corrupt \/ r.recs # <<>>
       /\ Answers(IF q \in queues \/ ~r.corrupt THEN "exists" ELSE "error")
       /\ UNCHANGED <<disk, proc, todo, queues, waiting, told, botched>>

\* Faulty: a name is free only when there is no log of that name.
NameFreeIfNew(q) == q \notin queues /\ dirent[q] = "none"

\* A name is free when no queue of that name is served and its log, if it has
\* one, holds nothing that was written whole.
NameFree(q) == q \notin queues /\ Replay(file[q]) \in {Clean(0), Torn(0)}

CreateBegins(q) ==
    /\ proc = "up" /\ creating = NoCreate /\ NameFree(q)
    /\ creating' = [q |-> q, step |-> "open"]
    /\ UNCHANGED <<disk, proc, todo, queues, answer, waiting, told, botched>>

At(step) == Alive /\ creating.step = step

\* wal.Open at size 0: the directory, the file, and what an interrupted create
\* has left in it.
CreateOpens ==
    /\ At("open")
    /\ dirent' = [dirent EXCEPT ![creating.q] = IF @ = "none" THEN "cached" ELSE @]
    /\ file' = [file EXCEPT ![creating.q] = <<>>]
    /\ synced' = [synced EXCEPT ![creating.q] = 0]
    /\ creating' = [creating EXCEPT !.step = "dirsync"]
    /\ UNCHANGED <<proc, todo, queues, answer, waiting, told, botched>>

CreateSyncsDir ==
    /\ At("dirsync")
    /\ dirent' = [dirent EXCEPT ![creating.q] = syncDir(@)]
    /\ creating' = [creating EXCEPT !.step = "write"]
    /\ UNCHANGED <<file, synced, proc, todo, queues, answer, waiting, told, botched>>

CreateWritesMeta ==
    /\ At("write")
    /\ file' = [file EXCEPT ![creating.q] = Encode(Meta)]
    /\ creating' = [creating EXCEPT !.step = "sync"]
    /\ UNCHANGED <<synced, dirent, proc, todo, queues, answer, waiting, told, botched>>

\* Wait returns: the queue is served and the client is told.
CreateSyncs ==
    /\ At("sync")
    /\ synced' = [synced EXCEPT ![creating.q] = Len(file[creating.q])]
    /\ queues' = queues \cup {creating.q} /\ created' = created \cup {creating.q}
    /\ Answers("created")
    /\ UNCHANGED <<file, dirent, proc, todo, waiting, last, confirmed, botched>>

\* Faulty: the error path leaves Manager.mu locked.
CreateFailsLocked ==
    /\ DiskFaults /\ Alive /\ creating # NoCreate
    /\ creating' = [creating EXCEPT !.step = "none"]
    /\ answer' = "error" /\ botched' = botched \cup {creating.q}
    /\ UNCHANGED <<disk, proc, todo, queues, waiting, told>>

\* Opening, writing or syncing fails; what was written stays in the file.
CreateFails ==
    /\ DiskFaults /\ Alive /\ creating # NoCreate
    /\ \E f \in Cut(creating.q) : file' = [file EXCEPT ![creating.q] = f]
    /\ botched' = botched \cup {creating.q} /\ Answers("error")
    /\ UNCHANGED <<synced, dirent, proc, todo, queues, waiting, told>>

CreateStep ==
    \/ CreateOpens \/ CreateSyncsDir \/ CreateWritesMeta \/ CreateSyncs
    \/ CreateFails

-----------------------------------------------------------------------------
\* A queue at work.  Manager.Get waits for Manager.mu.

Enqueue(q) ==
    /\ proc = "up" /\ creating = NoCreate /\ q \in queues \ waiting
    /\ last[q] < MaxRecs
    /\ last' = [last EXCEPT ![q] = @ + 1]
    /\ file' = [file EXCEPT ![q] = @ \o Encode(last[q] + 1)]
    /\ waiting' = waiting \cup {q}
    /\ UNCHANGED <<synced, dirent, proc, todo, queues, creating, answer,
                   created, confirmed, botched>>

\* The log is fsynced and the client is told.
Confirm(q) ==
    /\ Alive /\ q \in waiting
    /\ synced' = [synced EXCEPT ![q] = Len(file[q])]
    /\ confirmed' = [confirmed EXCEPT ![q] = @ \cup {last[q]}]
    /\ waiting' = waiting \ {q}
    /\ UNCHANGED <<file, dirent, proc, todo, queues, creating, answer,
                   last, created, botched>>

Next ==
    \/ Kill \/ PowerCut \/ StartServer \/ Boot \/ Terminate \/ CloseManager
    \/ CreateStep
    \/ \E q \in Name : \/ CreateRefused(q) \/ CreateBegins(q)
                       \/ Enqueue(q) \/ Confirm(q)

\* A create that has Manager.mu goes on.
Spec == Init /\ [][Next]_vars /\ WF_vars(CreateStep)

-----------------------------------------------------------------------------
\* A server that serves has every queue it ever answered 201 for, and in each
\* every enqueue it answered: a kill, a power cut at any step of a create or a
\* load, and damage past the last fsync, lose none of them silently.
ServesAllConfirmed ==
    proc = "up" =>
        \A q \in created : q \in queues /\ confirmed[q] \subseteq Records(file[q])

\* A name that is not served can be created, whatever an interrupted create has
\* left behind: startup passes over exactly the logs that Create starts over.
\* Only a create that failed in this very process leaves its name taken.
NamesUsable ==
    proc = "up" /\ creating = NoCreate =>
        \A q \in Name \ (queues \cup botched) : NameFree(q)

\* A server that refuses to start does so over a log that Replay calls corrupt, and
\* everything the client was ever told of is in front of the damage: cutting each
\* log there loses nothing of it.  A log cut short is never the reason; one whose
\* META a power cut left in length and not in content is, and keeps every other
\* queue down until then.
RefusalRepairable ==
    proc = "refused" =>
        /\ \E q \in Name : Replay(file[q]).corrupt
        /\ \A q \in created : {Meta} \cup confirmed[q] \subseteq Records(file[q])

\* Every create ends and gives Manager.mu back, on its error paths too.
CreateReturns == (creating # NoCreate) ~> (creating = NoCreate)
=============================================================================
