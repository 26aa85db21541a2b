------------------------------- MODULE Queue -------------------------------
(***************************************************************************)
(* One queue of internal/queue/queue.go: client requests, the background   *)
(* tick, compaction, crash, restart and shutdown, over the log that module *)
(* DurableLog describes.                                                   *)
(*                                                                         *)
(* The rule the code states is "append to the log while holding the mutex, *)
(* wait for durability after releasing it".  A request's critical section  *)
(* is one action that appends and changes the index; the request then sits *)
(* in `waiting` until a separate action answers it.  tick and Compact hold *)
(* the mutex over several steps, because the log may fail or the process   *)
(* die between them; mu says who holds it and how far it is.               *)
(*                                                                         *)
(* The clock moves only while the mutex is free.  Every critical section   *)
(* reads it once, so a step that lasts is a step that starts later.  A     *)
(* load reads it for every record, and once more at its end: there the     *)
(* clock moves between any two records.                                    *)
(***************************************************************************)
EXTENDS QueueIndex

CONSTANTS
    Priority,        \* priorities of the requests
    Delay,           \* delays of the requests
    Lease,           \* visibility timeouts of the requests
    MaxWaiting,      \* bound: requests waiting at the same time
    MaxDequeue,      \* bound: most messages of one Dequeue
    PurgeInterval,   \* dedupPurgeInterval, in ticks
    MaxMsgs,         \* bound: enqueues that append
    MaxTime,         \* bound: the clock
    MaxCompactions,  \* bound: compactions begun
    MaxStops,        \* bound: crashes and shutdowns
    DiskFaults,      \* whether writes, fsyncs and renames may fail
    Watch            \* which optional history a run records

ASSUME QueueAssumption ==
    /\ Priority \subseteq (-IntMax - 1) .. IntMax
    /\ Delay \subseteq Nat /\ Lease \subseteq Nat \ {0}
    /\ MaxWaiting \in Nat \ {0}
    /\ MaxDequeue \in Nat \ {0} /\ PurgeInterval \in Nat
    /\ MaxMsgs \in Nat /\ MaxTime \in Nat
    /\ MaxCompactions \in Nat /\ MaxStops \in Nat
    /\ DiskFaults \in BOOLEAN /\ Watch \subseteq {"deliveries", "duplicates"}

VARIABLES
    now,                \* the wall clock
    log, durable, fatal,\* the log, as module DurableLog has it
    snap, dir,          \* the compaction snapshot; which file the path names
    phase, pos,         \* up, down, or replaying record pos + 1
    ix,                 \* the index
    failed, closed,     \* Queue.failed, Queue.closed
    lastAge, lastPurge, \* Queue.lastAge, Queue.lastPurge
    mu,                 \* the mutex: free, or the step of its holder
    tickPos,            \* the last record the tick appended, 0 if it waits for none
    waiting,            \* requests waiting for their record to be durable
    \* History.
    born,               \* dedup id, time and Seq of every message appended
    enqOK, ackOK,       \* ids whose enqueue or ack was answered
    dupOK,              \* ids given as a duplicate before their own answer
    acked,              \* ids whose ACK was appended and not undone by a crash
    deliveries,         \* deliveries of each message
    compactions, stops  \* compactions begun, crashes and shutdowns so far

logV == <<log, durable, fatal>>
disk == <<snap, dir>>
proc == <<phase, pos>>
flags == <<failed, closed>>
timers == <<lastAge, lastPurge>>
answers == <<enqOK, dupOK, ackOK>>
history == <<born, answers, acked, deliveries, compactions, stops>>
vars == <<now, logV, disk, proc, ix, flags, timers, mu, tickPos, waiting,
          history>>

Log == INSTANCE DurableLog WITH Record <- LogRecord

Ids == 1 .. MaxMsgs
Birth == [dedup : DedupId \cup {NoDedup}, at : Nat, seq : Nat]
Wait_ == [op : {"enqueue", "ack", "nack"}, id : Ids, pos : Nat]

IndexTypeOK ==
    /\ DOMAIN ix = {"msgs", "held", "dedup", "nextSeq"}
    /\ DOMAIN ix.msgs \subseteq Ids
    /\ \A id \in DOMAIN ix.msgs : ix.msgs[id] \in Message
    /\ ix.held \in [MsgState -> SUBSET Ids]
    /\ DOMAIN ix.dedup \subseteq DedupId
    /\ \A d \in DOMAIN ix.dedup : ix.dedup[d] \in DedupEntry
    /\ ix.nextSeq \in Nat

TypeOK ==
    /\ now \in 0 .. MaxTime
    /\ Log!LogTypeOK
    /\ snap \in Seq(LogRecord) /\ dir \in {"log", "either", "snap"}
    /\ phase \in {"up", "down", "loading", "refused"} /\ pos \in 0 .. Len(log)
    /\ IndexTypeOK
    /\ failed \in BOOLEAN /\ closed \in BOOLEAN
    /\ lastAge \in 0 .. now /\ lastPurge \in 0 .. now
    /\ mu \in {"free", "tick", "sync", "renamed", "installed"}
    /\ tickPos \in Nat
    /\ waiting \subseteq Wait_
    /\ born \in Seq(Birth) /\ Len(born) <= MaxMsgs
    /\ enqOK \subseteq Ids /\ dupOK \subseteq Ids /\ ackOK \subseteq Ids
    /\ acked \subseteq Ids
    /\ deliveries \in [Ids -> Nat] /\ compactions \in 0 .. MaxCompactions
    /\ stops \in 0 .. MaxStops

\* A queue just created: its META record is durable.
Init ==
    /\ now = 0
    /\ log = <<Meta(0)>> /\ durable = 1 /\ fatal = FALSE
    /\ snap = <<>> /\ dir = "log"
    /\ phase = "up" /\ pos = 0
    /\ ix = EmptyIndex
    /\ failed = FALSE /\ closed = FALSE
    /\ lastAge = 0 /\ lastPurge = 0
    /\ mu = "free" /\ tickPos = 0
    /\ waiting = {}
    /\ born = <<>> /\ enqOK = {} /\ dupOK = {} /\ ackOK = {} /\ acked = {}
    /\ deliveries = [id \in Ids |-> 0] /\ compactions = 0 /\ stops = 0

-----------------------------------------------------------------------------
\* checkLocked, with the mutex.
Accepts == phase = "up" /\ mu = "free" /\ ~closed /\ ~failed

\* A request whose Append is refused marks the queue failed.
AppendRefused ==
    /\ fatal
    /\ failed' = TRUE
    /\ UNCHANGED <<now, logV, disk, proc, ix, closed, timers, mu, tickPos,
                   waiting, history>>

\* Append a record, apply it, and leave the request waiting for it.
AppendAndApply(r, newIx, op, id) ==
    /\ Cardinality(waiting) < MaxWaiting
    /\ Log!LogAppend(r)
    /\ ix' = newIx
    /\ waiting' = waiting \cup {[op |-> op, id |-> id, pos |-> Len(log')]}
    /\ UNCHANGED <<now, disk, proc, flags, timers, mu, tickPos, answers,
                   deliveries, compactions, stops>>

Fresh(d, p, delay) ==
    [dedup |-> d, seq |-> ix.nextSeq, prio |-> p, visible |-> now + delay,
     created |-> now, attempts |-> 0, state |-> "ready", eff |-> 0,
     deadline |-> 0]

\* Enqueue of a dedup id whose window is open: answered at once, nothing
\* appended and nothing waited for.
EnqueueDuplicate(d) ==
    /\ Accepts
    /\ isDuplicate(ix, d, now)
    /\ dupOK' = IF "duplicates" \in Watch
                THEN dupOK \cup ({ix.dedup[d].msg} \ enqOK) ELSE dupOK
    /\ UNCHANGED <<now, logV, disk, proc, ix, flags, timers, mu, tickPos,
                   waiting, born, enqOK, ackOK, acked, deliveries,
                   compactions, stops>>

Enqueue(d, p, delay) ==
    /\ Accepts
    /\ ~isDuplicate(ix, d, now)
    /\ Len(born) < MaxMsgs
    /\ LET id == Len(born) + 1
           m == Fresh(d, p, delay)
       IN \/ AppendRefused
          \/ /\ AppendAndApply(EnqueueRec(id, m), applyEnqueue(ix, id, m, now),
                               "enqueue", id)
             /\ born' = Append(born, [dedup |-> d, at |-> now, seq |-> m.seq])
             /\ UNCHANGED acked

\* The ready heap popped max times.
TakeBest(i, max, S) ==
    /\ S \subseteq i.held["ready"]
    /\ \/ Cardinality(S) = max
       \/ Cardinality(S) < max /\ S = i.held["ready"]
    /\ \A a \in S, b \in i.held["ready"] \ S : less(i.msgs[a], i.msgs[b])

Deliver(i, max, visibility) ==
    \E S \in SUBSET i.held["ready"] :
        /\ TakeBest(i, max, S)
        /\ ix' = lease(i, S, now + visibility)
        /\ deliveries' = IF "deliveries" \in Watch
                         THEN [id \in Ids |->
                                 deliveries[id] + (IF id \in S THEN 1 ELSE 0)]
                         ELSE deliveries
        /\ UNCHANGED <<now, logV, disk, proc, flags, timers, mu, tickPos,
                       waiting, born, answers, acked, compactions, stops>>

\* Faulty: leaves promotion to the background timer.
DequeueNoPromote(max, visibility) == Accepts /\ Deliver(ix, max, visibility)

Dequeue(max, visibility) == Accepts /\ Deliver(promoteDue(ix, now), max, visibility)

\* Faulty: appends the record before it looks for the message.
AckUnchecked(id) ==
    /\ Accepts /\ id <= Len(born)
    /\ AppendAndApply(AckRec(id),
                      IF id \in DOMAIN ix.msgs THEN applyAck(ix, id) ELSE ix,
                      "ack", id)
    /\ acked' = acked \cup {id}
    /\ UNCHANGED born

Ack(id) ==
    /\ Accepts
    /\ id \in DOMAIN ix.msgs
    /\ ix.msgs[id].state \in {"inflight", "dead"}
    /\ \/ AppendRefused
       \/ /\ AppendAndApply(AckRec(id), applyAck(ix, id), "ack", id)
          /\ acked' = acked \cup {id}
          /\ UNCHANGED born

Nack(id) ==
    /\ Accepts
    /\ id \in DOMAIN ix.msgs
    /\ ix.msgs[id].state = "inflight"
    /\ \/ AppendRefused
       \/ /\ AppendAndApply(NackRec(id), applyAttempt(ix, id, now), "nack", id)
          /\ UNCHANGED <<born, acked>>

\* waitDurable returns nil, and the request is answered.
Return(w) ==
    /\ phase = "up" /\ w \in waiting
    /\ Log!WaitOK(w.pos)
    /\ waiting' = waiting \ {w}
    /\ enqOK' = IF w.op = "enqueue" THEN enqOK \cup {w.id} ELSE enqOK
    /\ ackOK' = IF w.op = "ack" THEN ackOK \cup {w.id} ELSE ackOK
    /\ UNCHANGED <<now, logV, disk, proc, ix, flags, timers, mu, tickPos,
                   dupOK, born, acked, deliveries, compactions, stops>>

\* waitDurable returns the log's failure and marks the queue failed.
ReturnError(w) ==
    /\ phase = "up" /\ w \in waiting /\ mu = "free"
    /\ Log!WaitErr(w.pos)
    /\ waiting' = waiting \ {w}
    /\ failed' = TRUE
    /\ UNCHANGED <<now, logV, disk, proc, ix, closed, timers, mu, tickPos,
                   history>>

-----------------------------------------------------------------------------
\* tick: lock, promote, then expire leases one by one, oldest deadline first.
TickStart ==
    /\ Accepts /\ tickPos = 0
    /\ mu' = "tick"
    /\ ix' = promoteDue(ix, now)
    /\ UNCHANGED <<now, logV, disk, proc, flags, timers, tickPos, waiting,
                   history>>

Expired == {id \in ix.held["inflight"] : ix.msgs[id].deadline <= now}

\* Faulty: the attempt of an expired lease is not logged.
TickExpireUnlogged ==
    /\ phase = "up" /\ mu = "tick" /\ ~failed
    /\ \E id \in Expired : ix' = applyAttempt(ix, id, now)
    /\ UNCHANGED <<now, logV, disk, proc, flags, timers, mu, tickPos, waiting,
                   history>>

TickExpire ==
    /\ phase = "up" /\ mu = "tick" /\ ~failed
    /\ \E id \in Expired :
         /\ \A o \in ix.held["inflight"] \ {id} : leaseLess(ix.msgs[id], ix.msgs[o])
         /\ \/ fatal /\ failed' = TRUE /\ UNCHANGED <<logV, ix, tickPos>>
            \/ /\ Log!LogAppend(LeaseExpireRec(id))
               /\ ix' = applyAttempt(ix, id, now)
               /\ tickPos' = Len(log')
               /\ UNCHANGED failed
    /\ UNCHANGED <<now, disk, proc, closed, timers, mu, waiting, history>>

\* tick: age, purge, unlock.  Whether the log is long enough for a compaction
\* to follow is left open: Compact may begin at any time.
TickFinish ==
    /\ phase = "up" /\ mu = "tick"
    /\ failed \/ Expired = {}
    /\ LET ages == /\ AgingInterval > 0 /\ ix.held["ready"] # {}
                   /\ now - lastAge >= AgingInterval
           aged == IF ages THEN agePriorities(ix, now) ELSE ix
           purges == now - lastPurge >= PurgeInterval
       IN /\ lastAge' = IF ages THEN now ELSE lastAge
          /\ lastPurge' = IF purges THEN now ELSE lastPurge
          /\ ix' = IF purges THEN purgeDedup(aged, now) ELSE aged
    /\ mu' = "free"
    /\ UNCHANGED <<now, logV, disk, proc, flags, tickPos, waiting, history>>

\* Faulty: waits for the batch after the one that has its records.
TickAwaitNextBatch ==
    /\ phase = "up" /\ mu # "tick" /\ tickPos > 0
    /\ \/ Log!WaitOK(tickPos + 1) /\ UNCHANGED failed
       \/ mu = "free" /\ Log!WaitErr(tickPos) /\ failed' = TRUE
    /\ tickPos' = 0
    /\ UNCHANGED <<now, logV, disk, proc, ix, closed, timers, mu, waiting,
                   history>>

\* tick: wait for its records; a failure marks the queue failed and is dropped.
TickAwait ==
    /\ phase = "up" /\ mu # "tick" /\ tickPos > 0
    /\ \/ Log!WaitOK(tickPos) /\ UNCHANGED failed
       \/ mu = "free" /\ Log!WaitErr(tickPos) /\ failed' = TRUE
    /\ tickPos' = 0
    /\ UNCHANGED <<now, logV, disk, proc, ix, closed, timers, mu, waiting,
                   history>>

-----------------------------------------------------------------------------
\* Compact takes the mutex, for an API call or for the background loop.
CompactBegin ==
    /\ Accepts
    /\ compactions < MaxCompactions
    /\ compactions' = compactions + 1
    /\ mu' = "sync"
    /\ UNCHANGED <<now, logV, disk, proc, ix, flags, timers, tickPos, waiting,
                   born, answers, acked, deliveries, stops>>

\* What Sync waits for: every record that this process has appended is durable.
\* Each has a waiter until it is, so records that no waiter is after, the tail
\* that Load found in the file, may not be.
Synced == tickPos <= durable /\ \A w \in waiting : w.pos <= durable

\* A record that is durable already is waited for no longer, whatever file
\* the log goes on in.
Settled == {[w EXCEPT !.pos = 0] : w \in waiting}

\* Dedup entries whose message is gone and whose window is open.
orphans == {d \in DOMAIN ix.dedup : /\ now < ix.dedup[d].expires
                                    /\ ix.dedup[d].msg \notin DOMAIN ix.msgs}

\* What Compact writes: META with the counter, the live messages by Seq, then
\* the entries of dedup ids D.  The order of these does not matter, their keys
\* are distinct.
SnapshotWith(s, D) ==
    \E live \in [1 .. Cardinality(DOMAIN ix.msgs) -> DOMAIN ix.msgs],
       rest \in [1 .. Cardinality(D) -> D] :
        /\ \A i, j \in DOMAIN live :
              i < j => ix.msgs[live[i]].seq < ix.msgs[live[j]].seq
        /\ \A i, j \in DOMAIN rest : i # j => rest[i] # rest[j]
        /\ s = <<Meta(ix.nextSeq)>>
               \o [i \in DOMAIN live |-> EnqueueRec(live[i], ix.msgs[live[i]])]
               \o [i \in DOMAIN rest |-> DedupRec(rest[i], ix.dedup[rest[i]])]

\* Faulty: only live messages are written, dedup entries are not.
SnapshotNoOrphans(s) == SnapshotWith(s, {})

Snapshot(s) == SnapshotWith(s, orphans)

\* Sync has answered; the snapshot is written, fsynced and renamed over the
\* log.  Until the directory is fsynced a restart may find either file.
Installs ==
    /\ Snapshot(snap')
    /\ dir' = "either" /\ mu' = "renamed"
    /\ waiting' = Settled /\ tickPos' = 0
    /\ UNCHANGED failed

\* Faulty: Sync does not notice that the log has failed.
CompactSyncDeaf ==
    /\ phase = "up" /\ mu = "sync"
    /\ ~fatal /\ Synced /\ Installs
    /\ UNCHANGED <<now, logV, proc, ix, closed, timers, history>>

\* log.Sync answers.  Its error fails the queue; an error in writing the
\* snapshot, up to the rename, leaves the old log in place.
CompactSync ==
    /\ phase = "up" /\ mu = "sync"
    /\ \/ ~fatal /\ Synced /\ Installs
       \/ /\ fatal /\ failed' = TRUE /\ mu' = "free"
          /\ UNCHANGED <<disk, waiting, tickPos>>
       \/ /\ DiskFaults /\ ~fatal /\ Synced /\ mu' = "free"
          /\ UNCHANGED <<disk, failed, waiting, tickPos>>
    /\ UNCHANGED <<now, logV, proc, ix, closed, timers, history>>

\* Faulty: carries on with the old descriptor after a failed directory fsync.
CompactDirSyncCarryOn ==
    /\ phase = "up" /\ mu = "renamed"
    /\ \/ dir' = "snap" /\ mu' = "installed" /\ UNCHANGED failed
       \/ mu' = "free" /\ UNCHANGED <<dir, failed>>
    /\ UNCHANGED <<now, logV, snap, proc, ix, closed, timers, tickPos, waiting,
                   history>>

\* Install's fsync of the directory.
CompactDirSync ==
    /\ phase = "up" /\ mu = "renamed"
    /\ \/ dir' = "snap" /\ mu' = "installed" /\ UNCHANGED failed
       \/ DiskFaults /\ failed' = TRUE /\ mu' = "free" /\ UNCHANGED dir
    /\ UNCHANGED <<now, logV, snap, proc, ix, closed, timers, tickPos, waiting,
                   history>>

\* Faulty: the log keeps the length of the file it has left.
CompactReopenKeepsSize ==
    /\ phase = "up" /\ mu = "installed"
    /\ mu' = "free"
    /\ log' = snap /\ snap' = <<>> /\ dir' = "log"
    /\ UNCHANGED <<now, durable, fatal, proc, ix, flags, timers, tickPos,
                   waiting, history>>

\* log.Reopen: the log goes on in the snapshot.  It fails at closing the old
\* descriptor or at opening the new one; only the latter fails the log.
CompactReopen ==
    /\ phase = "up" /\ mu = "installed"
    /\ mu' = "free"
    /\ \/ /\ log' = snap /\ durable' = Len(snap)
          /\ snap' = <<>> /\ dir' = "log"
          /\ UNCHANGED <<fatal, failed>>
       \/ /\ DiskFaults /\ failed' = TRUE /\ fatal' \in BOOLEAN
          /\ UNCHANGED <<log, durable, snap, dir>>
    /\ UNCHANGED <<now, proc, ix, closed, timers, tickPos, waiting, history>>

-----------------------------------------------------------------------------
\* The flusher commits or fails while the log has something to write.
Flush ==
    /\ phase = "up"
    /\ Log!LogCommit \/ (DiskFaults /\ durable < Len(log) /\ Log!LogFail)
    /\ UNCHANGED <<now, disk, proc, ix, flags, timers, mu, tickPos, waiting,
                   history>>

Advance ==
    /\ mu = "free" /\ now < MaxTime
    /\ now' = now + 1
    /\ UNCHANGED <<logV, disk, proc, ix, flags, timers, mu, tickPos, waiting,
                   history>>

\* The contents a restart may find at the log's path.
DiskImages ==
    (IF dir # "snap" THEN {SubSeq(log, 1, k) : k \in durable .. Len(log)} ELSE {})
    \cup (IF dir # "log" THEN {snap} ELSE {})

\* The ids whose message is in a log and not acked there.
Unacked(s) ==
    {s[k].m.id : k \in {j \in DOMAIN s : s[j].type = "ENQUEUE"}}
    \ {s[k].id : k \in {j \in DOMAIN s : s[j].type = "ACK"}}

\* The process is gone and the file at the path is one of those.  An ack that
\* is not in it did not happen.
Stops ==
    /\ stops < MaxStops
    /\ stops' = stops + 1
    /\ log' \in DiskImages
    /\ durable' = IF dir # "log" /\ log' = snap THEN Len(snap) ELSE durable
    /\ fatal' = FALSE
    /\ snap' = <<>> /\ dir' = "log"
    /\ phase' = "down" /\ pos' = 0
    /\ ix' = EmptyIndex
    /\ failed' = FALSE /\ closed' = FALSE
    /\ lastAge' = 0 /\ lastPurge' = 0
    /\ mu' = "free" /\ tickPos' = 0
    /\ waiting' = {}
    /\ acked' = acked \ Unacked(log')
    /\ UNCHANGED <<now, born, answers, deliveries, compactions>>

Crash ==
    /\ phase = "up"
    /\ Stops

\* Close: no request is accepted from here on, and the background loop ends.
Close ==
    /\ phase = "up" /\ mu = "free" /\ ~closed
    /\ closed' = TRUE
    /\ UNCHANGED <<now, logV, disk, proc, ix, failed, timers, mu, tickPos,
                   waiting, history>>

\* Close returns once the log is drained, and the process exits.
Exit ==
    /\ phase = "up" /\ closed /\ tickPos = 0 /\ mu = "free"
    /\ fatal \/ Synced
    /\ Stops

-----------------------------------------------------------------------------
\* Load.
LoadBegin ==
    /\ phase = "down"
    /\ phase' = "loading" /\ pos' = 0
    /\ UNCHANGED <<now, logV, disk, ix, flags, timers, mu, tickPos, waiting,
                   history>>

\* Replay hands over one record.
LoadRecord ==
    /\ phase = "loading" /\ pos < Len(log)
    /\ IF Refuses(ix, log[pos + 1])
       THEN phase' = "refused" /\ UNCHANGED <<pos, ix>>
       ELSE /\ ix' = apply(ix, log[pos + 1], now)
            /\ pos' = pos + 1
            /\ UNCHANGED phase
    /\ UNCHANGED <<now, logV, disk, flags, timers, mu, tickPos, waiting,
                   history>>

\* The log is opened for appending and the background loop started.
LoadDone ==
    /\ phase = "loading" /\ pos = Len(log)
    /\ Log!LogOpen
    /\ phase' = "up" /\ pos' = 0
    /\ lastAge' = now /\ lastPurge' = now
    /\ UNCHANGED <<now, disk, ix, flags, mu, tickPos, waiting, history>>

Request ==
    \/ \E d \in DedupId \cup {NoDedup}, p \in Priority, delay \in Delay :
          Enqueue(d, p, delay)
    \/ \E d \in DedupId : EnqueueDuplicate(d)
    \/ \E max \in 1 .. MaxDequeue, v \in Lease : Dequeue(max, v)
    \/ \E id \in Ids : Ack(id) \/ Nack(id)

Answer == \E w \in waiting : Return(w) \/ ReturnError(w)

Tick == TickStart \/ TickExpire \/ TickFinish \/ TickAwait

Compact ==
    \/ CompactBegin \/ CompactSync \/ CompactDirSync \/ CompactReopen

Load == LoadBegin \/ LoadRecord \/ LoadDone

Next ==
    \/ Request \/ Answer \/ Tick \/ Compact
    \/ Flush \/ Advance \/ Crash \/ Close \/ Exit \/ Load

Spec == Init /\ [][Next]_vars

\* The flusher and the holder of the mutex go on, the background loop keeps
\* ticking, and Go's mutex starves no one, so a waiter that needs it to record
\* a failure gets it.  No client has to send a request.
AnswerTo(op, id) ==
    \E w \in waiting : w.op = op /\ w.id = id /\ (Return(w) \/ ReturnError(w))

Fairness ==
    /\ WF_vars(Flush)
    /\ SF_vars(TickStart) /\ WF_vars(TickExpire) /\ WF_vars(TickFinish)
    /\ SF_vars(TickAwait)
    /\ WF_vars(CompactSync) /\ WF_vars(CompactDirSync) /\ WF_vars(CompactReopen)
    /\ \A op \in {"enqueue", "ack", "nack"}, id \in Ids : SF_vars(AnswerTo(op, id))

FairSpec == Spec /\ Fairness

-----------------------------------------------------------------------------
\* A message is in exactly one of the heaps and the DLQ, the one its state
\* names; detach finds it nowhere else.
OneHome == Consistent(ix)

\* Between two restarts a message is handed out at most MaxAttempts times.
DeliveryBound == \A id \in Ids : deliveries[id] <= MaxAttempts * (stops + 1)

\* The comparator needs Seq to grow with enqueue order: over compactions,
\* crashes and restarts a message confirmed later has the larger Seq.
SeqIncreases ==
    \A a, b \in enqOK : a < b => born[a].seq < born[b].seq

\* Two confirmed messages with one dedup id are a window apart, whatever was
\* acked, purged, compacted or replayed in between.
DedupHonoured ==
    \A a, b \in enqOK :
        a < b /\ born[a].dedup # NoDedup /\ born[a].dedup = born[b].dedup
            => born[b].at - born[a].at >= DedupWindow

\* Aging: a message comes to the ready heap with the priority of its age at that
\* moment, also after a lease that an aging pass fell into; a pass leaves every
\* ready message with that of its age; in between, and while a load puts the heap
\* together, the stored priority that orders the heap neither falls behind what it
\* was nor runs ahead of the clock.
AgingCurrent ==
    [][\A id \in ix'.held["ready"] :
         LET m == ix'.msgs[id]
             ranked == \/ id \notin ix.held["ready"]
                       \/ phase = "up" /\ lastAge' # lastAge
         IN /\ ranked => m.eff = effectivePriority(m, now)
            /\ ~ranked => ix.msgs[id].eff <= m.eff
            /\ m.eff <= effectivePriority(m, now')]_vars

\* Every request that waits for the disk is answered, also when it fails, and
\* although a compaction waits for the same disk with the mutex held: whoever
\* holds the mutex lets it go.
RequestAnswered ==
    /\ mu # "free" ~> mu = "free"
    /\ \A op \in {"enqueue", "ack", "nack"}, id \in Ids :
         (\E w \in waiting : w.op = op /\ w.id = id)
             ~> ~(\E w \in waiting : w.op = op /\ w.id = id)

\* A lease that has run out ends, unless the queue stops serving.
LeaseEnds ==
    \A id \in Ids :
        (id \in ix.held["inflight"] /\ ix.msgs[id].deadline <= now)
            ~> (id \notin ix.held["inflight"] \/ failed \/ closed)
=============================================================================
