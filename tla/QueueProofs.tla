---------------------------- MODULE QueueProofs ----------------------------
(***************************************************************************)
(* What one queue keeps for every configuration, every clock, every number *)
(* of messages and any interleaving of requests, ticks, compactions, disk  *)
(* failures, crashes and restarts.                                         *)
(***************************************************************************)
EXTENDS Queue, QueueIndexProofs, FiniteSetTheorems, SequenceTheorems

-----------------------------------------------------------------------------
(***************************************************************************)
(* The type invariant, made inductive: in parts, and with what relates the *)
(* parts.                                                                  *)
(***************************************************************************)
ClockOK == now \in 0 .. MaxTime /\ lastAge \in 0 .. now /\ lastPurge \in 0 .. now

\* A snapshot lies beside the log only while a compaction holds the mutex or
\* after one has failed the queue, and only a running process holds it.
ModeOK ==
    /\ phase \in {"up", "down", "loading", "refused"}
    /\ dir \in {"log", "either", "snap"}
    /\ mu \in {"free", "tick", "sync", "renamed", "installed"}
    /\ failed \in BOOLEAN /\ closed \in BOOLEAN /\ fatal \in BOOLEAN
    /\ mu # "free" => phase = "up"
    /\ mu = "renamed" => dir = "either"
    /\ mu = "installed" => dir = "snap"
    /\ dir # "log" => /\ phase = "up"
                      /\ mu \in {"renamed", "installed"} \/ (mu = "free" /\ failed)

ModeVars == <<phase, dir, mu, failed, closed, fatal>>

LEMMA ModeStep ==
    ASSUME ModeOK, [Next]_vars
    PROVE  ModeOK'
  <1> USE DEF ModeOK
  <1>1. CASE Request
    <2>1. CASE \E d \in DedupId \cup {NoDedup}, p \in Priority, delay \in Delay :
                 Enqueue(d, p, delay)
        BY <2>1, Zenon DEF Enqueue, AppendRefused, AppendAndApply, Log!LogAppend,
           logV, disk, proc, flags, Accepts
    <2>2. CASE \E d \in DedupId : EnqueueDuplicate(d)
      <3> HIDE DEF ModeOK
      <3>1. UNCHANGED ModeVars
          BY <2>2, Zenon DEF EnqueueDuplicate, logV, disk, proc, flags, ModeVars
      <3>2. QED
          BY <3>1, Zenon DEF ModeOK, ModeVars
    <2>3. CASE \E max \in 1 .. MaxDequeue, v \in Lease : Dequeue(max, v)
      <3> HIDE DEF ModeOK
      <3>1. UNCHANGED ModeVars
          BY <2>3, Zenon DEF Dequeue, Deliver, logV, disk, proc, flags, ModeVars
      <3>2. QED
          BY <3>1, Zenon DEF ModeOK, ModeVars
    <2>4. CASE \E id \in Ids : Ack(id) \/ Nack(id)
        BY <2>4, Zenon DEF Ack, Nack, AppendRefused, AppendAndApply, Log!LogAppend,
           logV, disk, proc, flags, Accepts
    <2>5. QED
        BY <1>1, <2>1, <2>2, <2>3, <2>4, Zenon DEF Request
  <1>2. CASE Answer
    <2>1. UNCHANGED <<phase, dir, mu, closed, fatal>> /\ (failed' = failed \/ failed' = TRUE)
        BY <1>2, Zenon DEF Answer, Return, ReturnError, logV, disk, proc, flags
    <2>2. QED
        BY <2>1, Zenon
  <1>3. CASE Tick
    <2>1. CASE TickStart
        BY <2>1, Zenon DEF TickStart, Accepts, logV, disk, proc, flags
    <2>2. CASE TickExpire
        BY <2>2, Zenon DEF TickExpire, Log!LogAppend, logV, disk, proc
    <2>3. CASE TickFinish
        BY <2>3, Zenon DEF TickFinish, logV, disk, proc, flags
    <2>4. CASE TickAwait
      <3>1. UNCHANGED <<phase, dir, mu, closed, fatal>> /\ (failed' = failed \/ failed' = TRUE)
          BY <2>4, Zenon DEF TickAwait, logV, disk, proc
      <3>2. QED
          BY <3>1, Zenon
    <2>5. QED
        BY <1>3, <2>1, <2>2, <2>3, <2>4 DEF Tick
  <1>4. CASE Compact
    <2>1. CASE CompactBegin
        BY <2>1, Zenon DEF CompactBegin, Accepts, logV, disk, proc, flags
    <2>2. CASE CompactSync
        BY <2>2, Zenon DEF CompactSync, Installs, logV, disk, proc
    <2>3. CASE CompactDirSync
        BY <2>3, Zenon DEF CompactDirSync, logV, proc
    <2>4. CASE CompactReopen
        BY <2>4, Zenon DEF CompactReopen, proc
    <2>5. QED
        BY <1>4, <2>1, <2>2, <2>3, <2>4 DEF Compact
  <1>5. CASE Flush
      BY <1>5, Zenon DEF Flush, Log!LogCommit, Log!LogFail, disk, proc, flags
  <1>6. CASE Advance
      BY <1>6, Zenon DEF Advance, logV, disk, proc, flags
  <1>7. CASE Crash \/ Exit
      BY <1>7, Zenon DEF Crash, Exit, Stops
  <1>8. CASE Close
      BY <1>8, Zenon DEF Close, logV, disk, proc
  <1>9. CASE Load
      BY <1>9, Zenon DEF Load, LoadBegin, LoadRecord, LoadDone, Log!LogOpen,
         logV, disk, flags
  <1>10. CASE UNCHANGED vars
      BY <1>10, Zenon DEF vars, logV, disk, proc, flags
  <1>11. QED
      BY <1>1, <1>2, <1>3, <1>4, <1>5, <1>6, <1>7, <1>8, <1>9, <1>10, Zenon DEF Next

\* The messages that the ENQUEUE and DEDUP records of a log name were all born.
Knows(r, n) ==
    /\ r.type = "ENQUEUE" => r.m.id \in 1 .. n
    /\ r.type = "DEDUP" => r.e.msg \in 1 .. n

IdsKnown(s) == \A k \in 1 .. Len(s) : Knows(s[k], Len(born))

StoreOK ==
    /\ log \in Seq(LogRecord) /\ durable \in 0 .. Len(log) /\ snap \in Seq(LogRecord)
    /\ IdsKnown(log) /\ IdsKnown(snap)
    /\ pos \in 0 .. Len(log) /\ (phase = "up" => pos = 0)

IndexOK ==
    /\ ix \in Index(Ids) /\ Consistent(ix)
    /\ IsFiniteSet(DOMAIN ix.dedup)
    /\ DOMAIN ix.msgs \subseteq 1 .. Len(born)
    /\ \A d \in DOMAIN ix.dedup : ix.dedup[d].msg \in 1 .. Len(born)

HistoryOK ==
    /\ waiting \subseteq Wait_
    /\ born \in Seq(Birth) /\ Len(born) <= MaxMsgs
    /\ enqOK \subseteq Ids /\ ackOK \subseteq Ids /\ acked \subseteq Ids
    /\ deliveries \in [Ids -> Nat]

CountersOK ==
    /\ tickPos \in Nat /\ compactions \in 0 .. MaxCompactions /\ stops \in 0 .. MaxStops
    /\ dupOK \subseteq Ids

TypeInv == ClockOK /\ ModeOK /\ StoreOK /\ IndexOK /\ HistoryOK /\ CountersOK

-----------------------------------------------------------------------------
(***************************************************************************)
(* The steps, sorted by what they do to the log, the index and the         *)
(* answers.  Most of them do nothing to any of them.                       *)
(***************************************************************************)
\* The index j is i with nothing but promotions, aging and a purge at time t.
Calm(i, j, t) ==
    /\ j \in Index(Ids) /\ Consistent(j)
    /\ DOMAIN j.msgs = DOMAIN i.msgs
    /\ \A x \in DOMAIN i.msgs :
         /\ SameEntry(i.msgs[x], j.msgs[x])
         /\ \/ j.msgs[x].state = i.msgs[x].state
            \/ i.msgs[x].state = "delayed" /\ j.msgs[x].state = "ready"
    /\ j.nextSeq = i.nextSeq
    /\ DOMAIN j.dedup \subseteq DOMAIN i.dedup
    /\ \A d \in DOMAIN j.dedup : j.dedup[d] = i.dedup[d]
    /\ \A d \in DOMAIN i.dedup \ DOMAIN j.dedup : i.dedup[d].expires <= t

Quiet ==
    /\ UNCHANGED <<log, snap, phase, pos, born, enqOK, ackOK, acked, deliveries, stops>>
    /\ durable' \in durable .. Len(log)
    /\ now' \in now .. MaxTime
    /\ dir' = dir \/ (dir = "either" /\ dir' = "snap")
    /\ waiting' \subseteq waiting
    /\ Calm(ix, ix', now)
    /\ phase # "up" \/ dir # "log" => ix' = ix

\* Dequeue hands out the messages of S.
Serve(S) ==
    /\ phase = "up" /\ dir = "log"
    /\ UNCHANGED <<now, log, durable, snap, dir, phase, pos, waiting, born, enqOK,
                   ackOK, acked, stops>>
    /\ S \subseteq DOMAIN ix.msgs
    /\ ix' \in Index(Ids) /\ Consistent(ix')
    /\ DOMAIN ix'.msgs = DOMAIN ix.msgs
    /\ ix'.nextSeq = ix.nextSeq /\ ix'.dedup = ix.dedup
    /\ \A x \in DOMAIN ix.msgs : SameEntry(ix.msgs[x], ix'.msgs[x])
    /\ \A x \in S : /\ ix.msgs[x].state \in {"ready", "delayed"}
                    /\ ix'.msgs[x].state = "inflight"
    /\ \A x \in DOMAIN ix.msgs \ S :
         \/ ix'.msgs[x].state = ix.msgs[x].state
         \/ ix.msgs[x].state = "delayed" /\ ix'.msgs[x].state = "ready"
    /\ \/ deliveries' = deliveries
       \/ deliveries' = [id \in Ids |-> deliveries[id] + (IF id \in S THEN 1 ELSE 0)]

EnqueueStep(d, p, delay) ==
    LET id == Len(born) + 1
        m == Fresh(d, p, delay)
    IN /\ phase = "up" /\ dir = "log"
       /\ ~isDuplicate(ix, d, now) /\ Len(born) < MaxMsgs
       /\ log' = Append(log, EnqueueRec(id, m))
       /\ ix' = applyEnqueue(ix, id, m, now)
       /\ waiting' = waiting \cup {[op |-> "enqueue", id |-> id, pos |-> Len(log')]}
       /\ born' = Append(born, [dedup |-> d, at |-> now, seq |-> m.seq])
       /\ UNCHANGED <<now, durable, snap, dir, phase, pos, enqOK, ackOK, acked,
                      deliveries, stops>>

AckStep(id) ==
    /\ phase = "up" /\ dir = "log"
    /\ id \in DOMAIN ix.msgs /\ ix.msgs[id].state \in {"inflight", "dead"}
    /\ log' = Append(log, AckRec(id))
    /\ ix' = applyAck(ix, id)
    /\ waiting' = waiting \cup {[op |-> "ack", id |-> id, pos |-> Len(log')]}
    /\ acked' = acked \cup {id}
    /\ UNCHANGED <<now, durable, snap, dir, phase, pos, born, enqOK, ackOK,
                   deliveries, stops>>

\* A nack or the end of a lease.
AttemptStep(id, r) ==
    /\ phase = "up" /\ dir = "log"
    /\ id \in DOMAIN ix.msgs /\ ix.msgs[id].state = "inflight"
    /\ r = NackRec(id) \/ r = LeaseExpireRec(id)
    /\ log' = Append(log, r)
    /\ ix' = applyAttempt(ix, id, now)
    /\ \/ waiting' = waiting
       \/ waiting' = waiting \cup {[op |-> "nack", id |-> id, pos |-> Len(log')]}
    /\ UNCHANGED <<now, durable, snap, dir, phase, pos, born, enqOK, ackOK, acked,
                   deliveries, stops>>

InstallStep ==
    /\ phase = "up" /\ dir = "log" /\ dir' = "either"
    /\ \A w \in waiting : w.pos <= durable
    /\ Snapshot(snap')
    /\ waiting' = Settled
    /\ UNCHANGED <<now, log, durable, ix, phase, pos, born, enqOK, ackOK, acked,
                   deliveries, stops>>

ReopenStep ==
    /\ phase = "up" /\ dir = "snap" /\ mu = "installed" /\ dir' = "log"
    /\ log' = snap /\ durable' = Len(snap) /\ snap' = <<>>
    /\ UNCHANGED <<now, ix, phase, pos, waiting, born, enqOK, ackOK, acked,
                   deliveries, stops>>

StopStep == phase = "up" /\ Stops

LEMMA CalmSame ==
    ASSUME NEW i \in Index(Ids), Consistent(i), NEW t
    PROVE  Calm(i, i, t)
  BY DEF Calm, SameEntry

LEMMA CalmMoved ==
    ASSUME NEW i \in Index(Ids), NEW j, NEW S, NEW t,
           Moved(Ids, i, j, S, "ready"),
           \A x \in S : x \in DOMAIN i.msgs => i.msgs[x].state = "delayed"
    PROVE  Calm(i, j, t)
  BY DEF Calm, Moved

LEMMA QuietSame ==
    ASSUME TypeInv,
           UNCHANGED <<now, log, durable, snap, dir, phase, pos, ix, waiting, born, enqOK,
                       ackOK, acked, deliveries, stops>>
    PROVE  Quiet
  <1>1. Calm(ix, ix', now)
      BY CalmSame, Zenon DEF TypeInv, IndexOK
  <1>2. durable \in durable .. Len(log) /\ now \in now .. MaxTime
      BY DEF TypeInv, StoreOK, ClockOK
  <1>3. QED
      BY <1>1, <1>2, Zenon DEF Quiet

Classified ==
    \/ Quiet
    \/ \E S \in SUBSET Ids : Serve(S)
    \/ \E w \in waiting : Return(w)
    \/ \E d \in DedupId \cup {NoDedup}, p \in Priority, delay \in Delay :
          EnqueueStep(d, p, delay)
    \/ \E id \in Ids : AckStep(id)
    \/ \E id \in Ids, r \in LogRecord : AttemptStep(id, r)
    \/ InstallStep \/ ReopenStep \/ StopStep
    \/ Load

LEMMA ClassifyRequest ==
    ASSUME TypeInv, Request
    PROVE  Classified
  <1>0. Accepts => phase = "up" /\ dir = "log"
      BY Zenon DEF TypeInv, ModeOK, Accepts
  <1>1. AppendRefused => Quiet
    <2> SUFFICES ASSUME AppendRefused PROVE Quiet
        OBVIOUS
    <2>1. UNCHANGED <<now, log, durable, snap, dir, phase, pos, ix, waiting, born, enqOK,
                      ackOK, acked, deliveries, stops>>
        BY Zenon DEF AppendRefused, logV, disk, proc, history, answers
    <2>2. QED
        BY <2>1, QuietSame
  <1>2. ASSUME NEW d \in DedupId \cup {NoDedup}, NEW p \in Priority, NEW delay \in Delay,
               Enqueue(d, p, delay)
        PROVE  Quiet \/ EnqueueStep(d, p, delay)
    <2> DEFINE id == Len(born) + 1
               m == Fresh(d, p, delay)
    <2>1. AppendRefused \/ ~AppendRefused
        OBVIOUS
    <2>2. CASE AppendRefused
        BY <1>1, <2>2
    <2>3. CASE ~AppendRefused
      <3>1. /\ Accepts /\ ~isDuplicate(ix, d, now) /\ Len(born) < MaxMsgs
            /\ AppendAndApply(EnqueueRec(id, m), applyEnqueue(ix, id, m, now), "enqueue", id)
            /\ born' = Append(born, [dedup |-> d, at |-> now, seq |-> m.seq])
            /\ acked' = acked
          BY <1>2, <2>3, Zenon DEF Enqueue
      <3> HIDE DEF m, id
      <3>2. EnqueueStep(d, p, delay)
          BY <1>0, <3>1, Zenon DEF EnqueueStep, AppendAndApply, Log!LogAppend, disk, proc,
             answers, id, m
      <3>3. QED
          BY <3>2
    <2>4. QED
        BY <2>2, <2>3
  <1>3. ASSUME NEW d \in DedupId, EnqueueDuplicate(d)
        PROVE  Quiet
    <2>1. UNCHANGED <<now, log, durable, snap, dir, phase, pos, ix, waiting, born, enqOK,
                      ackOK, acked, deliveries, stops>>
        BY <1>3, Zenon DEF EnqueueDuplicate, logV, disk, proc
    <2>2. QED
        BY <2>1, QuietSame
  <1>4. ASSUME NEW max \in 1 .. MaxDequeue, NEW v \in Lease, Dequeue(max, v)
        PROVE  \E S \in SUBSET Ids : Serve(S)
    <2> DEFINE i == promoteDue(ix, now)
               due == {x \in ix.held["delayed"] : ix.msgs[x].visible <= now}
    <2>1. /\ ix \in Index(Ids) /\ Consistent(ix) /\ now \in Nat /\ v \in Nat
        BY QueueAssumption DEF TypeInv, IndexOK, ClockOK
    <2>2. Moved(Ids, ix, i, due, "ready")
        BY <2>1, PromoteDue
    <2>3. \A x \in due : ix.msgs[x].state = "delayed"
        BY <2>1 DEF Consistent, MsgState
    <2>4. Accepts /\ Deliver(i, max, v)
        BY <1>4, Zenon DEF Dequeue
    <2> HIDE DEF i, due
    <2>5. PICK S \in SUBSET i.held["ready"] :
            /\ ix' = lease(i, S, now + v)
            /\ deliveries' = IF "deliveries" \in Watch
                             THEN [id \in Ids |-> deliveries[id] + (IF id \in S THEN 1 ELSE 0)]
                             ELSE deliveries
            /\ UNCHANGED <<now, logV, disk, proc, flags, timers, mu, tickPos,
                           waiting, born, answers, acked, compactions, stops>>
        BY <2>4, Zenon DEF Deliver
    <2>6. i \in Index(Ids) /\ Consistent(i) /\ now + v \in Nat
        BY <2>1, <2>2 DEF Moved
    <2>7. Moved(Ids, i, ix', S, "inflight")
      <3>1. Moved(Ids, i, lease(i, S, now + v), S, "inflight")
          BY <2>6, LeaseOut
      <3>2. QED
          BY <2>5, <3>1
    <2>8. /\ \A x \in S : x \in DOMAIN i.msgs /\ i.msgs[x].state = "ready"
        BY <2>6 DEF Consistent, MsgState
    <2>9. S \subseteq DOMAIN ix.msgs /\ DOMAIN ix.msgs \subseteq Ids
        BY <2>1, <2>2, <2>8, Fields DEF Moved
    <2>10. \A x \in DOMAIN ix.msgs : SameEntry(ix.msgs[x], ix'.msgs[x])
        BY <2>2, <2>7 DEF Moved, SameEntry
    <2>11. \A x \in S : /\ ix.msgs[x].state \in {"ready", "delayed"}
                        /\ ix'.msgs[x].state = "inflight"
        BY <2>2, <2>3, <2>7, <2>8, <2>9 DEF Moved
    <2>12. \A x \in DOMAIN ix.msgs \ S :
             \/ ix'.msgs[x].state = ix.msgs[x].state
             \/ ix.msgs[x].state = "delayed" /\ ix'.msgs[x].state = "ready"
        BY <2>2, <2>3, <2>7 DEF Moved
    <2>13. /\ ix' \in Index(Ids) /\ Consistent(ix') /\ DOMAIN ix'.msgs = DOMAIN ix.msgs
           /\ ix'.nextSeq = ix.nextSeq /\ ix'.dedup = ix.dedup
        BY <2>2, <2>7 DEF Moved
    <2>14. UNCHANGED <<now, log, durable, snap, dir, phase, pos, waiting, born, enqOK,
                       ackOK, acked, stops>>
        BY <2>5, Zenon DEF logV, disk, proc, answers
    <2>15. \/ deliveries' = deliveries
           \/ deliveries' = [id \in Ids |-> deliveries[id] + (IF id \in S THEN 1 ELSE 0)]
        BY <2>5, Zenon
    <2>16. Serve(S)
        BY <1>0, <2>4, <2>9, <2>10, <2>11, <2>12, <2>13, <2>14, <2>15, Zenon DEF Serve
    <2>17. QED
        BY <2>9, <2>16
  <1>5. ASSUME NEW id \in Ids, Ack(id)
        PROVE  Quiet \/ AckStep(id)
    <2>1. CASE AppendRefused
        BY <1>1, <2>1
    <2>2. CASE ~AppendRefused
      <3>1. /\ Accepts /\ id \in DOMAIN ix.msgs /\ ix.msgs[id].state \in {"inflight", "dead"}
            /\ AppendAndApply(AckRec(id), applyAck(ix, id), "ack", id)
            /\ acked' = acked \cup {id} /\ born' = born
          BY <1>5, <2>2, Zenon DEF Ack
      <3>2. AckStep(id)
          BY <1>0, <3>1, Zenon DEF AckStep, AppendAndApply, Log!LogAppend, disk, proc, answers
      <3>3. QED
          BY <3>2
    <2>3. QED
        BY <2>1, <2>2
  <1>6. ASSUME NEW id \in Ids, Nack(id)
        PROVE  Quiet \/ \E r \in LogRecord : AttemptStep(id, r)
    <2>1. CASE AppendRefused
        BY <1>1, <2>1
    <2>2. CASE ~AppendRefused
      <3>1. /\ Accepts /\ id \in DOMAIN ix.msgs /\ ix.msgs[id].state = "inflight"
            /\ AppendAndApply(NackRec(id), applyAttempt(ix, id, now), "nack", id)
            /\ acked' = acked /\ born' = born
          BY <1>6, <2>2, Zenon DEF Nack
      <3>2. AttemptStep(id, NackRec(id))
          BY <1>0, <3>1, Zenon DEF AttemptStep, AppendAndApply, Log!LogAppend, disk, proc,
             answers
      <3>3. NackRec(id) \in LogRecord
          BY DEF NackRec, LogRecord, Ids, Id
      <3>4. QED
          BY <3>2, <3>3
    <2>3. QED
        BY <2>1, <2>2
  <1>7. QED
      BY <1>2, <1>3, <1>4, <1>5, <1>6, Zenon DEF Request, Classified

LEMMA ClassifyTick ==
    ASSUME TypeInv, Tick
    PROVE  Classified
  <1>0. /\ ix \in Index(Ids) /\ Consistent(ix) /\ now \in Nat
        /\ durable \in durable .. Len(log) /\ now \in now .. MaxTime
      BY QueueAssumption DEF TypeInv, IndexOK, ClockOK, StoreOK
  <1>1. CASE TickStart
    <2> DEFINE due == {x \in ix.held["delayed"] : ix.msgs[x].visible <= now}
    <2>1. Moved(Ids, ix, promoteDue(ix, now), due, "ready")
        BY <1>0, PromoteDue
    <2>2. \A x \in due : ix.msgs[x].state = "delayed"
        BY <1>0 DEF Consistent, MsgState
    <2> HIDE DEF due
    <2>3. Calm(ix, promoteDue(ix, now), now)
        BY <1>0, <2>1, <2>2, CalmMoved
    <2>4. ix' = promoteDue(ix, now) /\ Accepts
        BY <1>1, Zenon DEF TickStart
    <2>5. UNCHANGED <<now, log, durable, snap, dir, phase, pos, waiting, born, enqOK,
                      ackOK, acked, deliveries, stops>>
        BY <1>1, Zenon DEF TickStart, logV, disk, proc, history, answers
    <2>6. phase = "up" /\ dir = "log"
        BY <2>4, Zenon DEF TypeInv, ModeOK, Accepts
    <2>7. Quiet
        BY <1>0, <2>3, <2>4, <2>5, <2>6, Zenon DEF Quiet
    <2>8. QED
        BY <2>7 DEF Classified
  <1>2. CASE TickExpire
    <2>0. phase = "up" /\ mu = "tick"
        BY <1>2, Zenon DEF TickExpire
    <2>1. dir = "log"
        BY <2>0, Zenon DEF TypeInv, ModeOK
    <2>2. PICK id \in Expired :
            \/ UNCHANGED <<logV, ix, tickPos>>
            \/ /\ Log!LogAppend(LeaseExpireRec(id))
               /\ ix' = applyAttempt(ix, id, now)
        BY <1>2, Zenon DEF TickExpire
    <2>3. UNCHANGED <<now, snap, dir, phase, pos, waiting, born, enqOK,
                      ackOK, acked, deliveries, stops>>
        BY <1>2, Zenon DEF TickExpire, disk, proc, history, answers
    <2>4. CASE UNCHANGED <<logV, ix, tickPos>>
      <3>1. UNCHANGED <<log, durable, ix>>
          BY <2>4, Zenon DEF logV
      <3>2. QED
          BY <2>3, <3>1, QuietSame DEF Classified
    <2>5. CASE Log!LogAppend(LeaseExpireRec(id)) /\ ix' = applyAttempt(ix, id, now)
      <3>1. id \in DOMAIN ix.msgs /\ ix.msgs[id].state = "inflight" /\ id \in Ids
          BY <1>0, Fields DEF Expired, Consistent, MsgState
      <3>2. AttemptStep(id, LeaseExpireRec(id))
          BY <2>0, <2>1, <2>3, <2>5, <3>1, Zenon DEF AttemptStep, Log!LogAppend
      <3>3. LeaseExpireRec(id) \in LogRecord
          BY <3>1 DEF LeaseExpireRec, LogRecord, Ids, Id
      <3>4. QED
          BY <3>1, <3>2, <3>3, Zenon DEF Classified
    <2>6. QED
        BY <2>2, <2>4, <2>5
  <1>3. CASE TickFinish
    <2>1. PICK aged : /\ aged = agePriorities(ix, now) \/ aged = ix
                      /\ ix' = purgeDedup(aged, now) \/ ix' = aged
      <3> DEFINE ages == /\ AgingInterval > 0 /\ ix.held["ready"] # {}
                         /\ now - lastAge >= AgingInterval
      <3> HIDE DEF ages
      <3>1. ix' = purgeDedup(IF ages THEN agePriorities(ix, now) ELSE ix, now)
            \/ ix' = IF ages THEN agePriorities(ix, now) ELSE ix
          BY <1>3, Zenon DEF TickFinish, ages
      <3>2. QED
          BY <3>1, Zenon
    <2>2. Moved(Ids, ix, agePriorities(ix, now), {}, "ready")
        BY <1>0, AgePriorities
    <2>3. Calm(ix, aged, now) /\ aged.dedup = ix.dedup
      <3>1. Calm(ix, ix, now)
          BY <1>0, CalmSame
      <3>2. Calm(ix, agePriorities(ix, now), now)
          BY <1>0, <2>2, CalmMoved
      <3>3. agePriorities(ix, now).dedup = ix.dedup
          BY <2>2 DEF Moved
      <3>4. QED
          BY <2>1, <3>1, <3>2, <3>3
    <2>4. aged \in Index(Ids) /\ Consistent(aged)
        BY <2>3 DEF Calm
    <2> DEFINE j == purgeDedup(aged, now)
    <2>6. /\ j \in Index(Ids) /\ Consistent(j)
          /\ j.msgs = aged.msgs /\ j.nextSeq = aged.nextSeq
          /\ DOMAIN j.dedup = {d \in DOMAIN aged.dedup : ~(aged.dedup[d].expires <= now)}
          /\ \A d \in DOMAIN j.dedup : j.dedup[d] = aged.dedup[d]
        BY <1>0, <2>4, PurgeDedup
    <2> HIDE DEF j
    <2>7. Calm(ix, j, now)
        BY <2>3, <2>6 DEF Calm
    <2>8. Calm(ix, ix', now)
        BY <2>1, <2>3, <2>7 DEF j
    <2>9. UNCHANGED <<now, log, durable, snap, dir, phase, pos, waiting, born, enqOK,
                      ackOK, acked, deliveries, stops>>
        BY <1>3, Zenon DEF TickFinish, logV, disk, proc, history, answers
    <2>10. phase = "up" /\ mu = "tick"
        BY <1>3, Zenon DEF TickFinish
    <2>11. dir = "log"
        BY <2>10, Zenon DEF TypeInv, ModeOK
    <2>12. Quiet
        BY <1>0, <2>8, <2>9, <2>10, <2>11, Zenon DEF Quiet
    <2>13. QED
        BY <2>12 DEF Classified
  <1>4. CASE TickAwait
    <2>1. UNCHANGED <<now, log, durable, snap, dir, phase, pos, ix, waiting, born, enqOK,
                      ackOK, acked, deliveries, stops>>
        BY <1>4, Zenon DEF TickAwait, logV, disk, proc, history, answers
    <2>2. QED
        BY <2>1, QuietSame DEF Classified
  <1>5. QED
      BY <1>1, <1>2, <1>3, <1>4 DEF Tick

LEMMA ClassifyRest ==
    ASSUME TypeInv, [Next]_vars, ~Request, ~Tick
    PROVE  Classified
  <1>0. /\ ix \in Index(Ids) /\ Consistent(ix) /\ now \in Nat /\ Calm(ix, ix, now)
        /\ durable \in durable .. Len(log) /\ now \in now .. MaxTime
      BY QueueAssumption, CalmSame DEF TypeInv, IndexOK, ClockOK, StoreOK
  <1>1. CASE Answer
    <2>1. CASE \E w \in waiting : Return(w)
        BY <2>1 DEF Classified
    <2>2. CASE \E w \in waiting : ReturnError(w)
      <3>1. UNCHANGED <<now, log, durable, snap, dir, phase, pos, ix, born, enqOK,
                        ackOK, acked, deliveries, stops>>
          BY <2>2, Zenon DEF ReturnError, logV, disk, proc, history, answers
      <3>2. waiting' \subseteq waiting
          BY <2>2 DEF ReturnError
      <3>3. Quiet
          BY <1>0, <3>1, <3>2, Zenon DEF Quiet
      <3>4. QED
          BY <3>3 DEF Classified
    <2>3. QED
        BY <1>1, <2>1, <2>2 DEF Answer
  <1>2. CASE Compact
    <2>1. CASE CompactBegin
      <3>1. UNCHANGED <<now, log, durable, snap, dir, phase, pos, ix, waiting, born, enqOK,
                        ackOK, acked, deliveries, stops>>
          BY <2>1, Zenon DEF CompactBegin, logV, disk, proc, answers
      <3>2. QED
          BY <3>1, QuietSame DEF Classified
    <2>2. CASE CompactSync
      <3>1. UNCHANGED <<now, log, durable, phase, pos, ix, born, enqOK,
                        ackOK, acked, deliveries, stops>>
          BY <2>2, Zenon DEF CompactSync, logV, proc, history, answers
      <3>2. \/ (\A w \in waiting : w.pos <= durable) /\ Installs
            \/ UNCHANGED <<disk, waiting, tickPos>>
          BY <2>2, Zenon DEF CompactSync, Synced
      <3>3. phase = "up" /\ mu = "sync"
          BY <2>2, Zenon DEF CompactSync
      <3>4. dir = "log"
          BY <3>3, Zenon DEF TypeInv, ModeOK
      <3>5. CASE (\A w \in waiting : w.pos <= durable) /\ Installs
        <4>1. InstallStep
            BY <3>1, <3>3, <3>4, <3>5, Zenon DEF InstallStep, Installs
        <4>2. QED
            BY <4>1 DEF Classified
      <3>6. CASE UNCHANGED <<disk, waiting, tickPos>>
        <4>1. UNCHANGED <<snap, dir, waiting>>
            BY <3>6, Zenon DEF disk
        <4>2. QED
            BY <3>1, <4>1, QuietSame DEF Classified
      <3>7. QED
          BY <3>2, <3>5, <3>6
    <2>3. CASE CompactDirSync
      <3>1. UNCHANGED <<now, log, durable, snap, phase, pos, ix, waiting, born, enqOK,
                        ackOK, acked, deliveries, stops>>
          BY <2>3, Zenon DEF CompactDirSync, logV, proc, history, answers
      <3>2. mu = "renamed" /\ (dir' = "snap" \/ dir' = dir)
          BY <2>3, Zenon DEF CompactDirSync
      <3>3. dir = "either"
          BY <3>2, Zenon DEF TypeInv, ModeOK
      <3>4. waiting' \subseteq waiting
          BY <3>1
      <3>5. Quiet
          BY <1>0, <3>1, <3>2, <3>3, <3>4, Zenon DEF Quiet
      <3>6. QED
          BY <3>5 DEF Classified
    <2>4. CASE CompactReopen
      <3>1. UNCHANGED <<now, phase, pos, ix, waiting, born, enqOK,
                        ackOK, acked, deliveries, stops>>
          BY <2>4, Zenon DEF CompactReopen, proc, history, answers
      <3>2. /\ phase = "up" /\ mu = "installed"
            /\ \/ log' = snap /\ durable' = Len(snap) /\ snap' = <<>> /\ dir' = "log"
               \/ UNCHANGED <<log, durable, snap, dir>>
          BY <2>4, Zenon DEF CompactReopen
      <3>3. dir = "snap"
          BY <3>2, Zenon DEF TypeInv, ModeOK
      <3>4. CASE log' = snap /\ durable' = Len(snap) /\ snap' = <<>> /\ dir' = "log"
        <4>1. ReopenStep
            BY <3>1, <3>2, <3>3, <3>4, Zenon DEF ReopenStep
        <4>2. QED
            BY <4>1 DEF Classified
      <3>5. CASE UNCHANGED <<log, durable, snap, dir>>
        <4>1. QED
            BY <3>1, <3>5, QuietSame DEF Classified
      <3>6. QED
          BY <3>2, <3>4, <3>5
    <2>5. QED
        BY <1>2, <2>1, <2>2, <2>3, <2>4 DEF Compact
  <1>3. CASE Flush
    <2>1. UNCHANGED <<now, log, snap, dir, phase, pos, ix, waiting, born, enqOK,
                      ackOK, acked, deliveries, stops>>
        BY <1>3, Zenon DEF Flush, Log!LogCommit, Log!LogFail, disk, proc, history, answers
    <2>2. durable' \in (durable + 1) .. Len(log) \/ durable' = durable
        BY <1>3, Zenon DEF Flush, Log!LogCommit, Log!LogFail
    <2>3. durable' \in durable .. Len(log)
        BY <1>0, <2>2 DEF TypeInv, StoreOK
    <2>4. waiting' \subseteq waiting
        BY <2>1
    <2>5. Quiet
        BY <1>0, <2>1, <2>3, <2>4, Zenon DEF Quiet
    <2>6. QED
        BY <2>5 DEF Classified
  <1>4. CASE Advance
    <2>1. UNCHANGED <<log, durable, snap, dir, phase, pos, ix, waiting, born, enqOK,
                      ackOK, acked, deliveries, stops>>
        BY <1>4, Zenon DEF Advance, logV, disk, proc, history, answers
    <2>2. now < MaxTime /\ now' = now + 1
        BY <1>4, Zenon DEF Advance
    <2>3. now' \in now .. MaxTime
        BY <1>0, <2>2, QueueAssumption
    <2>4. waiting' \subseteq waiting
        BY <2>1
    <2>5. Quiet
        BY <1>0, <2>1, <2>3, <2>4, Zenon DEF Quiet
    <2>6. QED
        BY <2>5 DEF Classified
  <1>5. CASE Crash \/ Exit
      BY <1>5, Zenon DEF Crash, Exit, StopStep, Classified
  <1>6. CASE Close
    <2>1. UNCHANGED <<now, log, durable, snap, dir, phase, pos, ix, waiting, born, enqOK,
                      ackOK, acked, deliveries, stops>>
        BY <1>6, Zenon DEF Close, logV, disk, proc, history, answers
    <2>2. QED
        BY <2>1, QuietSame DEF Classified
  <1>7. CASE Load
      BY <1>7 DEF Classified
  <1>8. CASE UNCHANGED vars
    <2>1. UNCHANGED <<now, log, durable, snap, dir, phase, pos, ix, waiting, born, enqOK,
                      ackOK, acked, deliveries, stops>>
        BY <1>8, Zenon DEF vars, logV, disk, proc, history, answers
    <2>2. QED
        BY <2>1, QuietSame DEF Classified
  <1>9. QED
      BY <1>1, <1>2, <1>3, <1>4, <1>5, <1>6, <1>7, <1>8, Zenon DEF Next

LEMMA Classify ==
    ASSUME TypeInv, [Next]_vars
    PROVE  Classified
  BY ClassifyRequest, ClassifyTick, ClassifyRest

-----------------------------------------------------------------------------
(***************************************************************************)
(* The snapshot that a compaction writes: the counter, then every live     *)
(* message L[1], L[2], ... by Seq, then every orphaned dedup id R[1], ...  *)
(***************************************************************************)
Written(s, a, b, L, R) ==
    /\ s \in Seq(LogRecord) /\ Len(s) = 1 + a + b
    /\ a \in Nat /\ b \in Nat
    /\ L \in [1 .. a -> DOMAIN ix.msgs] /\ R \in [1 .. b -> orphans]
    /\ s[1] = Meta(ix.nextSeq)
    /\ \A i \in 1 .. a : s[1 + i] = EnqueueRec(L[i], ix.msgs[L[i]])
    /\ \A i \in 1 .. b : s[1 + a + i] = DedupRec(R[i], ix.dedup[R[i]])
    /\ \A i, j \in 1 .. a : i < j => ix.msgs[L[i]].seq < ix.msgs[L[j]].seq
    /\ \A id \in DOMAIN ix.msgs : \E i \in 1 .. a : L[i] = id
    /\ \A d \in orphans : \E i \in 1 .. b : R[i] = d

LEMMA ThreeParts ==
    ASSUME NEW X, NEW e \in X, NEW A \in Seq(X), NEW B \in Seq(X)
    PROVE  LET s == <<e>> \o A \o B
           IN /\ s \in Seq(X) /\ Len(s) = 1 + Len(A) + Len(B) /\ s[1] = e
              /\ \A i \in 1 .. Len(A) : s[1 + i] = A[i]
              /\ \A i \in 1 .. Len(B) : s[1 + Len(A) + i] = B[i]
  OBVIOUS

LEMMA SeqOfFcn ==
    ASSUME NEW X, NEW n \in Nat, NEW f \in [1 .. n -> X]
    PROVE  f \in Seq(X) /\ Len(f) = n
  OBVIOUS

\* An enumeration of a finite set without repetition leaves nothing out.
LEMMA Enumerates ==
    ASSUME NEW D, IsFiniteSet(D), NEW f \in [1 .. Cardinality(D) -> D],
           \A i, j \in 1 .. Cardinality(D) : i # j => f[i] # f[j]
    PROVE  \A x \in D : \E i \in 1 .. Cardinality(D) : f[i] = x
  <1> DEFINE n == Cardinality(D)
  <1>1. n \in Nat
      BY FS_CardinalityType
  <1>2. IsFiniteSet(1 .. n) /\ Cardinality(1 .. n) = n
      BY <1>1, FS_Interval
  <1>3. f \in Injection(1 .. n, D)
      BY DEF Injection, IsInjective
  <1> HIDE DEF n
  <1>4. f \in Surjection(1 .. n, D)
      BY <1>2, <1>3, FS_Injection, Zenon DEF n
  <1>5. QED
      BY <1>4 DEF Surjection, n

LEMMA SnapshotWritten ==
    ASSUME TypeInv, NEW s, Snapshot(s)
    PROVE  \E a, b, L, R : Written(s, a, b, L, R)
  <1> DEFINE M == DOMAIN ix.msgs
             D == orphans
             a == Cardinality(M)
             b == Cardinality(D)
  <1>0. /\ ix \in Index(Ids) /\ M \subseteq Ids /\ \A x \in M : ix.msgs[x] \in Message
        /\ ix.nextSeq \in Nat /\ ix.dedup \in DedupMap
      BY Fields DEF TypeInv, IndexOK
  <1>1. MaxMsgs \in Nat
      BY QueueAssumption
  <1>2. IsFiniteSet(M) /\ a \in Nat
    <2>1. IsFiniteSet(Ids)
        BY <1>1, FS_Interval DEF Ids
    <2>2. QED
        BY <1>0, <2>1, FS_Subset, FS_CardinalityType
  <1>3. IsFiniteSet(D) /\ b \in Nat
    <2>1. IsFiniteSet(DOMAIN ix.dedup) /\ D \subseteq DOMAIN ix.dedup
        BY DEF TypeInv, IndexOK, orphans
    <2>2. QED
        BY <2>1, FS_Subset, FS_CardinalityType
  <1>4. \A d \in D : d \in DedupId /\ ix.dedup[d] \in DedupEntry
      BY <1>0, DedupFacts DEF orphans
  <1> HIDE DEF a, b, M, D
  <1>5. PICK L \in [1 .. a -> M], R \in [1 .. b -> D] :
          /\ \A i, j \in DOMAIN L : i < j => ix.msgs[L[i]].seq < ix.msgs[L[j]].seq
          /\ \A i, j \in DOMAIN R : i # j => R[i] # R[j]
          /\ s = <<Meta(ix.nextSeq)>>
                 \o [i \in DOMAIN L |-> EnqueueRec(L[i], ix.msgs[L[i]])]
                 \o [i \in DOMAIN R |-> DedupRec(R[i], ix.dedup[R[i]])]
      BY Zenon DEF Snapshot, SnapshotWith, a, b, M, D
  <1> DEFINE LL == [i \in 1 .. a |-> EnqueueRec(L[i], ix.msgs[L[i]])]
             RR == [i \in 1 .. b |-> DedupRec(R[i], ix.dedup[R[i]])]
  <1>6. DOMAIN L = 1 .. a /\ DOMAIN R = 1 .. b
      BY <1>5
  <1>7. s = <<Meta(ix.nextSeq)>> \o LL \o RR
      BY <1>5, <1>6, Zenon
  <1>8. LL \in Seq(LogRecord) /\ Len(LL) = a
    <2>1. \A i \in 1 .. a : EnqueueRec(L[i], ix.msgs[L[i]]) \in LogRecord
      <3> TAKE i \in 1 .. a
      <3>1. L[i] \in M
          BY <1>5
      <3>2. L[i] \in Id /\ ix.msgs[L[i]] \in Message
        <4>1. \A x \in M : x \in Ids /\ ix.msgs[x] \in Message
            BY <1>0
        <4>2. \A x \in Ids : x \in Id
            BY <1>1 DEF Ids, Id
        <4>3. QED
            BY <3>1, <4>1, <4>2, Zenon
      <3>3. QED
          BY <3>2, EnqueueTyped
    <2>2. LL \in [1 .. a -> LogRecord]
        BY <2>1
    <2> HIDE DEF LL
    <2>3. QED
        BY <1>2, <2>2, SeqOfFcn
  <1>9. RR \in Seq(LogRecord) /\ Len(RR) = b
    <2>1. \A i \in 1 .. b : DedupRec(R[i], ix.dedup[R[i]]) \in LogRecord
        BY <1>4, <1>5 DEF DedupRec, LogRecord
    <2>2. RR \in [1 .. b -> LogRecord]
        BY <2>1
    <2> HIDE DEF RR
    <2>3. QED
        BY <1>3, <2>2, SeqOfFcn
  <1>10. Meta(ix.nextSeq) \in LogRecord
      BY <1>0 DEF Meta, LogRecord
  <1>11. /\ \A i \in 1 .. a : LL[i] = EnqueueRec(L[i], ix.msgs[L[i]])
         /\ \A i \in 1 .. b : RR[i] = DedupRec(R[i], ix.dedup[R[i]])
      OBVIOUS
  <1> HIDE DEF LL, RR
  <1>12. /\ s \in Seq(LogRecord) /\ Len(s) = 1 + a + b /\ s[1] = Meta(ix.nextSeq)
         /\ \A i \in 1 .. a : s[1 + i] = LL[i]
         /\ \A i \in 1 .. b : s[1 + a + i] = RR[i]
    <2>1. PICK e : e = Meta(ix.nextSeq)
        OBVIOUS
    <2>2. e \in LogRecord /\ s = <<e>> \o LL \o RR
        BY <1>7, <1>10, <2>1
    <2>3. /\ s \in Seq(LogRecord) /\ Len(s) = 1 + Len(LL) + Len(RR) /\ s[1] = e
          /\ \A i \in 1 .. Len(LL) : s[1 + i] = LL[i]
          /\ \A i \in 1 .. Len(RR) : s[1 + Len(LL) + i] = RR[i]
        BY <1>8, <1>9, <2>2, ThreeParts
    <2>4. QED
        BY <1>8, <1>9, <2>1, <2>3
  <1>13. \A i, j \in 1 .. a : i # j => L[i] # L[j]
    <2>1. \A i \in 1 .. a : ix.msgs[L[i]].seq \in Nat
        BY <1>0, <1>5 DEF Message
    <2> SUFFICES ASSUME NEW i \in 1 .. a, NEW j \in 1 .. a, i < j
                 PROVE  L[i] # L[j]
        BY <1>2
    <2>2. ix.msgs[L[i]].seq < ix.msgs[L[j]].seq
        BY <1>5, <1>6
    <2>3. QED
        BY <2>1, <2>2
  <1>14. \A id \in M : \E i \in 1 .. a : L[i] = id
      BY <1>2, <1>13, Enumerates DEF a
  <1>15. \A d \in D : \E i \in 1 .. b : R[i] = d
    <2>1. \A i, j \in 1 .. b : i # j => R[i] # R[j]
        BY <1>5, <1>6
    <2>2. QED
        BY <1>3, <2>1, Enumerates DEF b
  <1>16. Written(s, a, b, L, R)
      BY <1>2, <1>3, <1>5, <1>6, <1>11, <1>12, <1>14, <1>15 DEF Written, M, D
  <1>17. QED
      BY <1>16

-----------------------------------------------------------------------------
(***************************************************************************)
(* The type invariant is inductive.                                        *)
(***************************************************************************)
\* What the steps do to the clock, the counters and the duplicates.
Small ==
    /\ now' = now \/ (now < MaxTime /\ now' = now + 1)
    /\ lastAge' = lastAge \/ lastAge' = now \/ lastAge' = 0
    /\ lastPurge' = lastPurge \/ lastPurge' = now \/ lastPurge' = 0
    /\ tickPos' = tickPos \/ tickPos' = 0 \/ tickPos' = Len(log')
    /\ compactions' = compactions
       \/ (compactions < MaxCompactions /\ compactions' = compactions + 1)
    /\ stops' = stops \/ (stops < MaxStops /\ stops' = stops + 1)
    /\ \/ dupOK' = dupOK
       \/ \E d \in DOMAIN ix.dedup : dupOK' = dupOK \cup ({ix.dedup[d].msg} \ enqOK)

LEMMA SmallSame ==
    ASSUME UNCHANGED <<now, lastAge, lastPurge, tickPos, compactions, stops, dupOK>>
    PROVE  Small
  BY Zenon DEF Small

LEMMA SmallStep ==
    ASSUME [Next]_vars
    PROVE  Small
  <1>1. CASE Request
    <2>1. CASE \E d \in DedupId \cup {NoDedup}, p \in Priority, delay \in Delay :
                 Enqueue(d, p, delay)
      <3>1. UNCHANGED <<now, lastAge, lastPurge, tickPos, compactions, stops, dupOK>>
          BY <2>1, Zenon DEF Enqueue, AppendRefused, AppendAndApply, timers, history, answers
      <3>2. QED
          BY <3>1, SmallSame
    <2>2. CASE \E d \in DedupId : EnqueueDuplicate(d)
      <3>1. PICK d \in DedupId : EnqueueDuplicate(d)
          BY <2>2
      <3>2. UNCHANGED <<now, lastAge, lastPurge, tickPos, compactions, stops>>
          BY <3>1, Zenon DEF EnqueueDuplicate, timers
      <3>3. /\ d \in DOMAIN ix.dedup
            /\ dupOK' = dupOK \/ dupOK' = dupOK \cup ({ix.dedup[d].msg} \ enqOK)
          BY <3>1, Zenon DEF EnqueueDuplicate, isDuplicate
      <3>4. QED
          BY <3>2, <3>3, Zenon DEF Small
    <2>3. CASE \E max \in 1 .. MaxDequeue, v \in Lease : Dequeue(max, v)
      <3>1. UNCHANGED <<now, lastAge, lastPurge, tickPos, compactions, stops, dupOK>>
          BY <2>3, Zenon DEF Dequeue, Deliver, timers, answers
      <3>2. QED
          BY <3>1, SmallSame
    <2>4. CASE \E id \in Ids : Ack(id) \/ Nack(id)
      <3>1. UNCHANGED <<now, lastAge, lastPurge, tickPos, compactions, stops, dupOK>>
          BY <2>4, Zenon DEF Ack, Nack, AppendRefused, AppendAndApply, timers, history, answers
      <3>2. QED
          BY <3>1, SmallSame
    <2>5. QED
        BY <1>1, <2>1, <2>2, <2>3, <2>4, Zenon DEF Request
  <1>2. CASE Answer
    <2>1. UNCHANGED <<now, lastAge, lastPurge, tickPos, compactions, stops, dupOK>>
        BY <1>2, Zenon DEF Answer, Return, ReturnError, timers, history, answers
    <2>2. QED
        BY <2>1, SmallSame
  <1>3. CASE Tick
    <2>1. CASE TickStart
        BY <2>1, Zenon DEF TickStart, timers, history, answers, Small
    <2>2. CASE TickExpire
        BY <2>2, Zenon DEF TickExpire, timers, history, answers, Small
    <2>3. CASE TickFinish
      <3>1. UNCHANGED <<now, tickPos, compactions, stops, dupOK>>
          BY <2>3, Zenon DEF TickFinish, history, answers
      <3>2. /\ lastAge' = lastAge \/ lastAge' = now
            /\ lastPurge' = lastPurge \/ lastPurge' = now
          BY <2>3, Zenon DEF TickFinish
      <3>3. QED
          BY <3>1, <3>2, Zenon DEF Small
    <2>4. CASE TickAwait
      <3>1. UNCHANGED <<now, lastAge, lastPurge, compactions, stops, dupOK>> /\ tickPos' = 0
          BY <2>4, Zenon DEF TickAwait, timers, history, answers
      <3>2. QED
          BY <3>1, Zenon DEF Small
    <2>5. QED
        BY <1>3, <2>1, <2>2, <2>3, <2>4 DEF Tick
  <1>4. CASE Compact
    <2>1. CASE CompactBegin
        BY <2>1, Zenon DEF CompactBegin, timers, answers, Small
    <2>2. CASE CompactSync
      <3>1. UNCHANGED <<now, lastAge, lastPurge, compactions, stops, dupOK>>
          BY <2>2, Zenon DEF CompactSync, timers, history, answers
      <3>2. tickPos' = 0 \/ tickPos' = tickPos
          BY <2>2, Zenon DEF CompactSync, Installs
      <3>3. QED
          BY <3>1, <3>2, Zenon DEF Small
    <2>3. CASE CompactDirSync
      <3>1. UNCHANGED <<now, lastAge, lastPurge, tickPos, compactions, stops, dupOK>>
          BY <2>3, Zenon DEF CompactDirSync, timers, history, answers
      <3>2. QED
          BY <3>1, SmallSame
    <2>4. CASE CompactReopen
      <3>1. UNCHANGED <<now, lastAge, lastPurge, tickPos, compactions, stops, dupOK>>
          BY <2>4, Zenon DEF CompactReopen, timers, history, answers
      <3>2. QED
          BY <3>1, SmallSame
    <2>5. QED
        BY <1>4, <2>1, <2>2, <2>3, <2>4 DEF Compact
  <1>5. CASE Flush
    <2>1. UNCHANGED <<now, lastAge, lastPurge, tickPos, compactions, stops, dupOK>>
        BY <1>5, Zenon DEF Flush, timers, history, answers
    <2>2. QED
        BY <2>1, SmallSame
  <1>6. CASE Advance
      BY <1>6, Zenon DEF Advance, timers, history, answers, Small
  <1>7. CASE Crash \/ Exit
      BY <1>7, Zenon DEF Crash, Exit, Stops, answers, Small
  <1>8. CASE Close
    <2>1. UNCHANGED <<now, lastAge, lastPurge, tickPos, compactions, stops, dupOK>>
        BY <1>8, Zenon DEF Close, timers, history, answers
    <2>2. QED
        BY <2>1, SmallSame
  <1>9. CASE Load
      BY <1>9, Zenon DEF Load, LoadBegin, LoadRecord, LoadDone, timers, history, answers, Small
  <1>10. CASE UNCHANGED vars
    <2>1. UNCHANGED <<now, lastAge, lastPurge, tickPos, compactions, stops, dupOK>>
        BY <1>10, Zenon DEF vars, timers, history, answers
    <2>2. QED
        BY <2>1, SmallSame
  <1>11. QED
      BY <1>1, <1>2, <1>3, <1>4, <1>5, <1>6, <1>7, <1>8, <1>9, <1>10, Zenon DEF Next

LEMMA ClockStep ==
    ASSUME TypeInv, [Next]_vars
    PROVE  ClockOK'
  BY SmallStep, QueueAssumption DEF Small, TypeInv, ClockOK

LEMMA CountersStep ==
    ASSUME TypeInv, [Next]_vars, StoreOK'
    PROVE  CountersOK'
  <1>1. Len(log') \in Nat /\ Len(born) <= MaxMsgs /\ Len(born) \in Nat /\ MaxMsgs \in Nat
      BY QueueAssumption DEF StoreOK, TypeInv, HistoryOK
  <1>2. \A d \in DOMAIN ix.dedup : ix.dedup[d].msg \in Ids
      BY <1>1 DEF TypeInv, IndexOK, Ids
  <1>3. dupOK' \subseteq Ids
      BY <1>2, SmallStep DEF Small, TypeInv, CountersOK
  <1>4. QED
      BY <1>1, <1>3, SmallStep, QueueAssumption DEF Small, TypeInv, CountersOK

LEMMA AppendFacts ==
    ASSUME NEW s \in Seq(LogRecord), NEW r \in LogRecord
    PROVE  /\ Append(s, r) \in Seq(LogRecord) /\ Len(Append(s, r)) = Len(s) + 1
           /\ \A k \in 1 .. Len(s) : Append(s, r)[k] = s[k]
           /\ Append(s, r)[Len(s) + 1] = r
  OBVIOUS

LEMMA PrefixFacts ==
    ASSUME NEW s \in Seq(LogRecord), NEW n \in 0 .. Len(s)
    PROVE  /\ SubSeq(s, 1, n) \in Seq(LogRecord) /\ Len(SubSeq(s, 1, n)) = n
           /\ \A k \in 1 .. n : SubSeq(s, 1, n)[k] = s[k]
  OBVIOUS

\* The parts of TypeInv that the classes of steps are about.
CoreOK == StoreOK /\ IndexOK /\ HistoryOK

LEMMA QuietCore ==
    ASSUME TypeInv, Quiet
    PROVE  CoreOK'
  <1> USE DEF TypeInv
  <1>1. StoreOK'
    <2>1. IdsKnown(log)' /\ IdsKnown(snap)'
        BY DEF Quiet, StoreOK, IdsKnown
    <2>2. durable' \in 0 .. Len(log)
        BY DEF Quiet, StoreOK
    <2>3. QED
        BY <2>1, <2>2 DEF Quiet, StoreOK
  <1>2. IndexOK'
    <2>1. IsFiniteSet(DOMAIN ix'.dedup)
        BY FS_Subset DEF IndexOK, Quiet, Calm
    <2>2. QED
        BY <2>1 DEF Quiet, Calm, IndexOK
  <1>3. HistoryOK'
      BY DEF Quiet, HistoryOK
  <1>4. QED
      BY <1>1, <1>2, <1>3 DEF CoreOK

LEMMA ServeCore ==
    ASSUME TypeInv, NEW S \in SUBSET Ids, Serve(S)
    PROVE  CoreOK'
  <1> USE DEF TypeInv
  <1>1. StoreOK'
      BY DEF Serve, StoreOK, IdsKnown
  <1>2. IndexOK'
      BY DEF Serve, IndexOK
  <1>3. HistoryOK'
    <2>1. deliveries' \in [Ids -> Nat]
        BY DEF Serve, HistoryOK
    <2>2. QED
        BY <2>1 DEF Serve, HistoryOK
  <1>4. QED
      BY <1>1, <1>2, <1>3 DEF CoreOK

LEMMA ReturnCore ==
    ASSUME TypeInv, NEW w \in waiting, Return(w)
    PROVE  CoreOK'
  <1> USE DEF TypeInv
  <1>0. /\ UNCHANGED <<log, durable, snap, phase, pos, ix, born, acked, deliveries>>
        /\ waiting' = waiting \ {w}
        /\ enqOK' = enqOK \/ enqOK' = enqOK \cup {w.id}
        /\ ackOK' = ackOK \/ ackOK' = ackOK \cup {w.id}
      BY Zenon DEF Return, logV, disk, proc
  <1>1. StoreOK'
      BY <1>0 DEF StoreOK, IdsKnown
  <1>2. IndexOK'
      BY <1>0 DEF IndexOK
  <1>3. HistoryOK'
      BY <1>0 DEF HistoryOK, Wait_
  <1>4. QED
      BY <1>1, <1>2, <1>3 DEF CoreOK

LEMMA FreshTyped ==
    ASSUME TypeInv, NEW d \in DedupId \cup {NoDedup}, NEW p \in Priority, NEW delay \in Delay
    PROVE  Fresh(d, p, delay) \in Message
  <1>1. ix.nextSeq \in Nat
      BY Fields DEF TypeInv, IndexOK
  <1>2. now \in Nat /\ p \in Int /\ delay \in Nat
    <2>1. IntMax \in Nat
        BY ConfigAssumption DEF ValidConfig
    <2>2. QED
        BY <2>1, QueueAssumption DEF TypeInv, ClockOK
  <1>3. QED
      BY <1>1, <1>2 DEF Fresh, Message, MsgState

\* What Enqueue does, in terms of the index alone.
LEMMA EnqueueFacts ==
    ASSUME TypeInv, NEW d \in DedupId \cup {NoDedup}, NEW p \in Priority, NEW delay \in Delay,
           EnqueueStep(d, p, delay)
    PROVE  LET id == Len(born) + 1
               m == Fresh(d, p, delay)
           IN /\ id \in Ids /\ id \in Id /\ id \notin DOMAIN ix.msgs
              /\ m \in Message /\ EnqueueRec(id, m) \in LogRecord
              /\ m.seq = ix.nextSeq /\ m.attempts = 0 /\ m.state = "ready"
              /\ m.created = now /\ m.dedup = d
              /\ log' = Append(log, EnqueueRec(id, m))
              /\ ix' \in Index(Ids) /\ Consistent(ix')
              /\ DOMAIN ix'.msgs = DOMAIN ix.msgs \cup {id}
              /\ SameBut(ix, ix', id) /\ SameEntry(m, ix'.msgs[id])
              /\ ix'.msgs[id].state \in {"ready", "delayed"}
              /\ ix'.nextSeq = ix.nextSeq + 1
              /\ ix'.dedup = IF d = NoDedup THEN ix.dedup
                             ELSE Put(ix.dedup, d, [msg |-> id, expires |-> now + DedupWindow])
  <1> DEFINE id == Len(born) + 1
             m == Fresh(d, p, delay)
  <1>1. m \in Message
      BY FreshTyped
  <1>2. /\ m.seq = ix.nextSeq /\ m.attempts = 0 /\ m.state = "ready"
        /\ m.created = now /\ m.dedup = d
      BY DEF Fresh
  <1>3. /\ log' = Append(log, EnqueueRec(id, m)) /\ ix' = applyEnqueue(ix, id, m, now)
        /\ Len(born) < MaxMsgs
      BY Zenon DEF EnqueueStep
  <1>4. id \in Ids /\ id \in Id /\ id \notin DOMAIN ix.msgs
      BY <1>3, QueueAssumption DEF TypeInv, HistoryOK, IndexOK, Ids, Id
  <1>5. EnqueueRec(id, m) \in LogRecord
      BY <1>1, <1>4, EnqueueTyped
  <1>6. ix \in Index(Ids) /\ Consistent(ix) /\ now \in Nat /\ ix.nextSeq \in Nat
      BY Fields DEF TypeInv, IndexOK, ClockOK
  <1> HIDE DEF m, id
  <1> DEFINE j == applyEnqueue(ix, id, m, now)
  <1>7. /\ j \in Index(Ids) /\ Consistent(j)
        /\ DOMAIN j.msgs = DOMAIN ix.msgs \cup {id}
        /\ SameBut(ix, j, id) /\ SameEntry(m, j.msgs[id])
        /\ j.msgs[id].state = IF m.state = "dead" THEN "dead"
                              ELSE IF m.visible > now THEN "delayed" ELSE "ready"
        /\ j.nextSeq = IF m.seq >= ix.nextSeq THEN m.seq + 1 ELSE ix.nextSeq
        /\ j.dedup = IF m.dedup = NoDedup THEN ix.dedup
                     ELSE Put(ix.dedup, m.dedup,
                              [msg |-> id, expires |-> m.created + DedupWindow])
      BY <1>1, <1>4, <1>6, ApplyEnqueue
  <1> HIDE DEF j
  <1>8. j = ix'
      BY <1>3 DEF j
  <1>9. j.msgs[id].state \in {"ready", "delayed"} /\ j.nextSeq = ix.nextSeq + 1
      BY <1>2, <1>6, <1>7
  <1>10. j.dedup = IF d = NoDedup THEN ix.dedup
                   ELSE Put(ix.dedup, d, [msg |-> id, expires |-> now + DedupWindow])
      BY <1>2, <1>7, Zenon
  <1>11. QED
      BY <1>1, <1>2, <1>3, <1>4, <1>5, <1>7, <1>8, <1>9, <1>10, Zenon DEF id, m

\* One record more: the log is still a log of born messages.
LEMMA StoreAppend ==
    ASSUME TypeInv, NEW r \in LogRecord, log' = Append(log, r),
           UNCHANGED <<durable, snap, phase, pos>>,
           Len(born') \in Nat, Len(born') >= Len(born), Knows(r, Len(born'))
    PROVE  StoreOK'
  <1>0. Len(born) \in Nat /\ log \in Seq(LogRecord) /\ snap \in Seq(LogRecord)
      BY DEF TypeInv, HistoryOK, StoreOK
  <1>1. \A s : Knows(s, Len(born)) => Knows(s, Len(born'))
      BY <1>0 DEF Knows
  <1>2. IdsKnown(snap)'
      BY <1>1 DEF IdsKnown, TypeInv, StoreOK
  <1>3. /\ log' \in Seq(LogRecord) /\ Len(log') = Len(log) + 1
        /\ \A k \in 1 .. Len(log) : log'[k] = log[k]
        /\ log'[Len(log) + 1] = r
      BY <1>0, AppendFacts
  <1>4. IdsKnown(log)'
    <2> SUFFICES ASSUME NEW k \in 1 .. Len(log')
                 PROVE  Knows(log'[k], Len(born'))
        BY DEF IdsKnown
    <2>1. CASE k \in 1 .. Len(log)
        BY <1>1, <1>3, <2>1 DEF IdsKnown, TypeInv, StoreOK
    <2>2. CASE k = Len(log) + 1
        BY <1>3, <2>2
    <2>3. QED
        BY <1>0, <1>3, <2>1, <2>2
  <1>5. QED
      BY <1>0, <1>2, <1>3, <1>4 DEF TypeInv, StoreOK

LEMMA EnqueueCore ==
    ASSUME TypeInv, NEW d \in DedupId \cup {NoDedup}, NEW p \in Priority, NEW delay \in Delay,
           EnqueueStep(d, p, delay)
    PROVE  CoreOK'
  <1> DEFINE id == Len(born) + 1
             m == Fresh(d, p, delay)
             r == EnqueueRec(id, m)
             e == [msg |-> id, expires |-> now + DedupWindow]
  <1>1. /\ id \in Ids /\ id \in Id
        /\ r \in LogRecord /\ m.seq = ix.nextSeq
        /\ log' = Append(log, r)
        /\ ix' \in Index(Ids) /\ Consistent(ix')
        /\ DOMAIN ix'.msgs = DOMAIN ix.msgs \cup {id}
        /\ ix'.dedup = IF d = NoDedup THEN ix.dedup ELSE Put(ix.dedup, d, e)
      BY EnqueueFacts, ZenonT(30)
  <1>2. /\ UNCHANGED <<durable, snap, phase, pos, enqOK, ackOK, acked, deliveries>>
        /\ waiting' = waiting \cup {[op |-> "enqueue", id |-> id, pos |-> Len(log')]}
        /\ born' = Append(born, [dedup |-> d, at |-> now, seq |-> m.seq])
        /\ Len(born) < MaxMsgs
      BY Zenon DEF EnqueueStep
  <1>3. ix.nextSeq \in Nat /\ now \in Nat /\ born \in Seq(Birth)
      BY Fields DEF TypeInv, IndexOK, ClockOK, HistoryOK
  <1>4. born' \in Seq(Birth) /\ Len(born') = Len(born) + 1 /\ Len(born) \in Nat
    <2>1. [dedup |-> d, at |-> now, seq |-> m.seq] \in Birth
        BY <1>1, <1>3 DEF Birth
    <2>2. QED
        BY <1>2, <1>3, <2>1
  <1>5. Knows(r, Len(born'))
    <2> HIDE DEF m, id
    <2>1. r.type = "ENQUEUE" /\ r.m.id = id
        BY DEF EnqueueRec, encodeMessage
    <2>2. QED
        BY <1>4, <2>1 DEF Knows, id
  <1> HIDE DEF r, m
  <1>6. StoreOK'
      BY <1>1, <1>2, <1>4, <1>5, StoreAppend
  <1>7. IndexOK'
    <2>1. DOMAIN ix'.msgs \subseteq 1 .. Len(born')
        BY <1>1, <1>4 DEF TypeInv, IndexOK
    <2>2. /\ IsFiniteSet(DOMAIN ix'.dedup)
          /\ \A x \in DOMAIN ix'.dedup : ix'.dedup[x].msg \in 1 .. Len(born')
      <3>1. /\ IsFiniteSet(DOMAIN ix.dedup)
            /\ \A x \in DOMAIN ix.dedup : ix.dedup[x].msg \in 1 .. Len(born')
          BY <1>4 DEF TypeInv, IndexOK
      <3>2. CASE d = NoDedup
          BY <1>1, <3>1, <3>2
      <3>3. CASE d # NoDedup
        <4>1. ix'.dedup = Put(ix.dedup, d, e)
            BY <1>1, <3>3
        <4>2. e.msg \in 1 .. Len(born')
            BY <1>4
        <4> HIDE DEF e
        <4>3. /\ DOMAIN ix'.dedup = DOMAIN ix.dedup \cup {d}
              /\ \A x \in DOMAIN ix'.dedup : ix'.dedup[x] = IF x = d THEN e ELSE ix.dedup[x]
            BY <4>1 DEF Put
        <4>4. IsFiniteSet(DOMAIN ix'.dedup)
            BY <3>1, <4>3, FS_AddElement
        <4>5. QED
            BY <3>1, <4>2, <4>3, <4>4
      <3>4. QED
          BY <3>2, <3>3
    <2>3. QED
        BY <1>1, <2>1, <2>2 DEF IndexOK
  <1>8. HistoryOK'
    <2>1. Len(log') \in Nat
        BY <1>6 DEF StoreOK
    <2>2. [op |-> "enqueue", id |-> id, pos |-> Len(log')] \in Wait_
        BY <1>1, <2>1 DEF Wait_
    <2>3. Len(born') <= MaxMsgs
        BY <1>2, <1>4, QueueAssumption
    <2>4. QED
        BY <1>2, <1>4, <2>2, <2>3 DEF HistoryOK, TypeInv
  <1>9. QED
      BY <1>6, <1>7, <1>8 DEF CoreOK

\* What Ack does to the index.
LEMMA AckFacts ==
    ASSUME TypeInv, NEW id \in Ids, AckStep(id)
    PROVE  /\ AckRec(id) \in LogRecord
           /\ ix' \in Index(Ids) /\ Consistent(ix')
           /\ DOMAIN ix'.msgs = DOMAIN ix.msgs \ {id}
           /\ SameBut(ix, ix', id)
           /\ ix'.dedup = ix.dedup /\ ix'.nextSeq = ix.nextSeq
  <1>1. AckRec(id) \in LogRecord
      BY QueueAssumption DEF AckRec, LogRecord, Ids, Id
  <1>2. /\ ix' = applyAck(ix, id) /\ id \in DOMAIN ix.msgs
        /\ ix \in Index(Ids) /\ Consistent(ix)
      BY Zenon DEF AckStep, TypeInv, IndexOK
  <1>3. QED
      BY <1>1, <1>2, ApplyAck

\* What a nack or the end of a lease does to the index.
LEMMA AttemptFacts ==
    ASSUME TypeInv, NEW id \in Ids, NEW r \in LogRecord, AttemptStep(id, r)
    PROVE  LET m == ix.msgs[id]
               n == ix'.msgs[id]
           IN /\ r.type \in {"NACK", "LEASE_EXPIRE"} /\ r.id = id
              /\ ix' \in Index(Ids) /\ Consistent(ix')
              /\ DOMAIN ix'.msgs = DOMAIN ix.msgs
              /\ SameBut(ix, ix', id)
              /\ n.dedup = m.dedup /\ n.seq = m.seq /\ n.prio = m.prio
              /\ n.created = m.created /\ n.attempts = m.attempts + 1
              /\ IF m.attempts + 1 >= MaxAttempts
                 THEN n.state = "dead" /\ n.visible = m.visible
                 ELSE n.state = "ready" /\ n.visible = now
              /\ ix'.dedup = ix.dedup /\ ix'.nextSeq = ix.nextSeq
  <1>1. r.type \in {"NACK", "LEASE_EXPIRE"} /\ r.id = id
      BY DEF AttemptStep, NackRec, LeaseExpireRec
  <1>2. ix' = applyAttempt(ix, id, now) /\ id \in DOMAIN ix.msgs
      BY Zenon DEF AttemptStep
  <1>3. ix \in Index(Ids) /\ Consistent(ix) /\ now \in Nat
      BY DEF TypeInv, IndexOK, ClockOK
  <1> DEFINE j == applyAttempt(ix, id, now)
             m == ix.msgs[id]
             n == j.msgs[id]
  <1>4. /\ j \in Index(Ids) /\ Consistent(j)
        /\ DOMAIN j.msgs = DOMAIN ix.msgs
        /\ SameBut(ix, j, id)
        /\ n.dedup = m.dedup /\ n.seq = m.seq /\ n.prio = m.prio
        /\ n.created = m.created /\ n.attempts = m.attempts + 1
        /\ IF m.attempts + 1 >= MaxAttempts
           THEN n.state = "dead" /\ n.visible = m.visible
           ELSE n.state = "ready" /\ n.visible = now
        /\ j.dedup = ix.dedup /\ j.nextSeq = ix.nextSeq
      BY <1>2, <1>3, ApplyAttempt
  <1>5. j = ix'
      BY <1>2
  <1> HIDE DEF j
  <1>6. QED
      BY <1>1, <1>4, <1>5, Zenon

LEMMA AckCore ==
    ASSUME TypeInv, NEW id \in Ids, AckStep(id)
    PROVE  CoreOK'
  <1>1. /\ AckRec(id) \in LogRecord
        /\ ix' \in Index(Ids) /\ Consistent(ix')
        /\ DOMAIN ix'.msgs = DOMAIN ix.msgs \ {id}
        /\ ix'.dedup = ix.dedup
      BY AckFacts
  <1>2. /\ UNCHANGED <<durable, snap, phase, pos, born, enqOK, ackOK, deliveries>>
        /\ log' = Append(log, AckRec(id))
        /\ waiting' = waiting \cup {[op |-> "ack", id |-> id, pos |-> Len(log')]}
        /\ acked' = acked \cup {id}
      BY Zenon DEF AckStep
  <1>3. Knows(AckRec(id), Len(born')) /\ Len(born') \in Nat /\ Len(born') >= Len(born)
      BY <1>2 DEF Knows, AckRec, TypeInv, HistoryOK
  <1>4. StoreOK'
      BY <1>1, <1>2, <1>3, StoreAppend
  <1>5. IndexOK'
      BY <1>1, <1>2 DEF IndexOK, TypeInv
  <1>6. HistoryOK'
    <2>1. Len(log') \in Nat
        BY <1>4 DEF StoreOK
    <2>2. [op |-> "ack", id |-> id, pos |-> Len(log')] \in Wait_
        BY <2>1 DEF Wait_
    <2>3. QED
        BY <1>2, <2>2 DEF HistoryOK, TypeInv
  <1>7. QED
      BY <1>4, <1>5, <1>6 DEF CoreOK

LEMMA AttemptCore ==
    ASSUME TypeInv, NEW id \in Ids, NEW r \in LogRecord, AttemptStep(id, r)
    PROVE  CoreOK'
  <1>1. /\ r.type \in {"NACK", "LEASE_EXPIRE"}
        /\ ix' \in Index(Ids) /\ Consistent(ix')
        /\ DOMAIN ix'.msgs = DOMAIN ix.msgs
        /\ ix'.dedup = ix.dedup
      BY AttemptFacts, Zenon
  <1>2. /\ UNCHANGED <<durable, snap, phase, pos, born, enqOK, ackOK, acked, deliveries>>
        /\ log' = Append(log, r)
        /\ \/ waiting' = waiting
           \/ waiting' = waiting \cup {[op |-> "nack", id |-> id, pos |-> Len(log')]}
      BY Zenon DEF AttemptStep
  <1>3. Knows(r, Len(born')) /\ Len(born') \in Nat /\ Len(born') >= Len(born)
      BY <1>1, <1>2 DEF Knows, TypeInv, HistoryOK
  <1>4. StoreOK'
      BY <1>2, <1>3, StoreAppend
  <1>5. IndexOK'
      BY <1>1, <1>2 DEF IndexOK, TypeInv
  <1>6. HistoryOK'
    <2>1. Len(log') \in Nat
        BY <1>4 DEF StoreOK
    <2>2. [op |-> "nack", id |-> id, pos |-> Len(log')] \in Wait_
        BY <2>1 DEF Wait_
    <2>3. QED
        BY <1>2, <2>2 DEF HistoryOK, TypeInv
  <1>7. QED
      BY <1>4, <1>5, <1>6 DEF CoreOK

LEMMA InstallCore ==
    ASSUME TypeInv, InstallStep
    PROVE  CoreOK'
  <1>0. /\ UNCHANGED <<log, durable, ix, phase, pos, born, enqOK, ackOK, acked, deliveries>>
        /\ Snapshot(snap') /\ waiting' = Settled
      BY Zenon DEF InstallStep
  <1>1. PICK a, b, L, R : Written(snap', a, b, L, R)
      BY <1>0, SnapshotWritten
  <1>2. snap' \in Seq(LogRecord)
      BY <1>1 DEF Written
  <1>3. IdsKnown(snap')
    <2> SUFFICES ASSUME NEW k \in 1 .. Len(snap')
                 PROVE  Knows(snap'[k], Len(born))
        BY DEF IdsKnown
    <2>0. Len(snap') = 1 + a + b /\ a \in Nat /\ b \in Nat
        BY <1>1 DEF Written
    <2>1. CASE k = 1
      <3>1. snap'[k].type = "META"
          BY <1>1, <2>1 DEF Written, Meta
      <3>2. QED
          BY <3>1 DEF Knows
    <2>2. ASSUME NEW i \in 1 .. a, k = 1 + i PROVE Knows(snap'[k], Len(born))
      <3>1. snap'[k] = EnqueueRec(L[i], ix.msgs[L[i]]) /\ L[i] \in DOMAIN ix.msgs
          BY <1>1, <2>2 DEF Written
      <3>2. snap'[k].type = "ENQUEUE" /\ snap'[k].m.id = L[i]
          BY <3>1 DEF EnqueueRec, encodeMessage
      <3>3. QED
          BY <3>1, <3>2 DEF Knows, TypeInv, IndexOK
    <2>3. ASSUME NEW i \in 1 .. b, k = 1 + a + i PROVE Knows(snap'[k], Len(born))
      <3>1. snap'[k] = DedupRec(R[i], ix.dedup[R[i]]) /\ R[i] \in DOMAIN ix.dedup
          BY <1>1, <2>3 DEF Written, orphans
      <3>2. snap'[k].type = "DEDUP" /\ snap'[k].e = ix.dedup[R[i]]
          BY <3>1 DEF DedupRec
      <3>3. QED
          BY <3>1, <3>2 DEF Knows, TypeInv, IndexOK
    <2>4. k = 1 \/ (k - 1 \in 1 .. a /\ k = 1 + (k - 1))
          \/ (k - 1 - a \in 1 .. b /\ k = 1 + a + (k - 1 - a))
        BY <2>0
    <2>5. QED
        BY <2>1, <2>2, <2>3, <2>4
  <1>4. StoreOK'
    <2>1. IdsKnown(snap)' /\ IdsKnown(log)'
        BY <1>0, <1>3 DEF IdsKnown, TypeInv, StoreOK
    <2>2. QED
        BY <1>0, <1>2, <2>1 DEF StoreOK, TypeInv
  <1>5. IndexOK'
      BY <1>0 DEF IndexOK, TypeInv
  <1>6. HistoryOK'
    <2>1. Settled \subseteq Wait_
        BY DEF Settled, Wait_, TypeInv, HistoryOK
    <2>2. QED
        BY <1>0, <2>1 DEF HistoryOK, TypeInv
  <1>7. QED
      BY <1>4, <1>5, <1>6 DEF CoreOK

LEMMA ReopenCore ==
    ASSUME TypeInv, ReopenStep
    PROVE  CoreOK'
  <1>0. /\ UNCHANGED <<ix, phase, pos, waiting, born, enqOK, ackOK, acked, deliveries>>
        /\ log' = snap /\ durable' = Len(snap) /\ snap' = <<>> /\ phase = "up"
      BY Zenon DEF ReopenStep
  <1>1. StoreOK'
    <2>1. IdsKnown(snap)' /\ IdsKnown(log)'
        BY <1>0 DEF IdsKnown, TypeInv, StoreOK
    <2>2. snap' \in Seq(LogRecord) /\ durable' \in 0 .. Len(log') /\ pos' = 0
        BY <1>0 DEF TypeInv, StoreOK
    <2>3. QED
        BY <1>0, <2>1, <2>2 DEF StoreOK, TypeInv
  <1>2. IndexOK'
      BY <1>0 DEF IndexOK, TypeInv
  <1>3. HistoryOK'
      BY <1>0 DEF HistoryOK, TypeInv
  <1>4. QED
      BY <1>1, <1>2, <1>3 DEF CoreOK

LEMMA EmptyIndexFacts ==
    /\ EmptyIndex \in Index(Ids) /\ Consistent(EmptyIndex)
    /\ EmptyIndex.msgs = [id \in {} |-> 0] /\ EmptyIndex.dedup = [d \in {} |-> 0]
    /\ DOMAIN EmptyIndex.msgs = {} /\ DOMAIN EmptyIndex.dedup = {}
    /\ EmptyIndex.nextSeq = 1
  <1> DEFINE f == [id \in {} |-> 0]
             h == [s \in MsgState |-> {}]
  <1>1. f \in MsgMap(Ids) /\ f \in DedupMap /\ DOMAIN f = {}
      BY DEF MsgMap, DedupMap
  <1>2. h \in [MsgState -> SUBSET Ids] /\ \A s \in MsgState : h[s] = {}
      OBVIOUS
  <1>3. EmptyIndex = [msgs |-> f, held |-> h, dedup |-> f, nextSeq |-> 1]
      BY Zenon DEF EmptyIndex
  <1> HIDE DEF f, h
  <1>4. /\ EmptyIndex \in Index(Ids) /\ EmptyIndex.msgs = f /\ EmptyIndex.dedup = f
        /\ EmptyIndex.held = h /\ EmptyIndex.nextSeq = 1
      BY <1>1, <1>2, <1>3 DEF Index
  <1>5. Consistent(EmptyIndex)
      BY <1>1, <1>2, <1>4 DEF Consistent
  <1>6. QED
      BY <1>1, <1>4, <1>5 DEF f

\* The log that a stopped process leaves: a prefix with all that was durable,
\* or the snapshot.
LEMMA StopFacts ==
    ASSUME TypeInv, StopStep
    PROVE  /\ UNCHANGED <<now, born, enqOK, ackOK, deliveries>>
           /\ acked' = acked \ Unacked(log')
           /\ stops' = stops + 1 /\ phase = "up" /\ phase' = "down" /\ pos' = 0
           /\ snap' = <<>> /\ dir' = "log" /\ waiting' = {} /\ ix' = EmptyIndex
           /\ \/ /\ dir # "snap" /\ durable' = durable
                 /\ \E k \in durable .. Len(log) : log' = SubSeq(log, 1, k)
              \/ dir # "log" /\ log' = snap /\ durable' = Len(snap)
  <1>1. /\ UNCHANGED <<now, born, enqOK, ackOK, deliveries>>
        /\ acked' = acked \ Unacked(log')
        /\ stops' = stops + 1 /\ phase = "up" /\ phase' = "down" /\ pos' = 0
        /\ snap' = <<>> /\ dir' = "log" /\ waiting' = {} /\ ix' = EmptyIndex
      BY Zenon DEF StopStep, Stops, answers
  <1>2. /\ log' \in DiskImages
        /\ durable' = IF dir # "log" /\ log' = snap THEN Len(snap) ELSE durable
      BY Zenon DEF StopStep, Stops
  <1>3. \/ dir # "snap" /\ \E k \in durable .. Len(log) : log' = SubSeq(log, 1, k)
        \/ dir # "log" /\ log' = snap
    <2> DEFINE P == {SubSeq(log, 1, k) : k \in durable .. Len(log)}
    <2>1. log' \in (IF dir # "snap" THEN P ELSE {}) \cup (IF dir # "log" THEN {snap} ELSE {})
        BY <1>2, Zenon DEF DiskImages
    <2>2. log' \in P => \E k \in durable .. Len(log) : log' = SubSeq(log, 1, k)
        BY Zenon
    <2> HIDE DEF P
    <2>3. QED
        BY <2>1, <2>2, Zenon
  <1>4. CASE dir # "log" /\ log' = snap
      BY <1>1, <1>2, <1>4, Zenon
  <1>5. CASE ~(dir # "log" /\ log' = snap)
      BY <1>1, <1>2, <1>3, <1>5, Zenon
  <1>6. QED
      BY <1>4, <1>5

LEMMA StopCore ==
    ASSUME TypeInv, StopStep
    PROVE  CoreOK'
  <1>0. /\ UNCHANGED <<now, born, enqOK, ackOK, deliveries>> /\ acked' \subseteq acked
        /\ phase = "up" /\ phase' = "down" /\ pos' = 0
        /\ snap' = <<>> /\ waiting' = {} /\ ix' = EmptyIndex
        /\ \/ /\ durable' = durable
              /\ \E k \in durable .. Len(log) : log' = SubSeq(log, 1, k)
           \/ log' = snap /\ durable' = Len(snap)
      BY StopFacts, Zenon
  <1>1. /\ log \in Seq(LogRecord) /\ durable \in 0 .. Len(log) /\ snap \in Seq(LogRecord)
        /\ \A k \in 1 .. Len(log) : Knows(log[k], Len(born))
        /\ \A k \in 1 .. Len(snap) : Knows(snap[k], Len(born))
      BY DEF TypeInv, StoreOK, IdsKnown
  <1>2. /\ log' \in Seq(LogRecord) /\ durable' \in 0 .. Len(log')
        /\ \A k \in 1 .. Len(log') : Knows(log'[k], Len(born))
    <2>1. CASE log' = snap /\ durable' = Len(snap)
        BY <1>1, <2>1
    <2>2. ASSUME NEW k \in durable .. Len(log), log' = SubSeq(log, 1, k), durable' = durable
          PROVE  /\ log' \in Seq(LogRecord) /\ durable' \in 0 .. Len(log')
                 /\ \A j \in 1 .. Len(log') : Knows(log'[j], Len(born))
      <3>1. k \in 0 .. Len(log)
          BY <1>1
      <3>2. /\ log' \in Seq(LogRecord) /\ Len(log') = k
            /\ \A x \in 1 .. k : log'[x] = log[x]
          BY <1>1, <2>2, <3>1, PrefixFacts
      <3>3. QED
          BY <1>1, <2>2, <3>1, <3>2
    <2>3. QED
        BY <1>0, <2>1, <2>2
  <1>3. StoreOK'
    <2>1. IdsKnown(snap)' /\ IdsKnown(log)'
        BY <1>0, <1>2 DEF IdsKnown
    <2>2. snap' \in Seq(LogRecord) /\ pos' \in 0 .. Len(log')
        BY <1>0, <1>2
    <2>3. QED
        BY <1>0, <1>2, <2>1, <2>2 DEF StoreOK
  <1>4. IndexOK'
      BY <1>0, EmptyIndexFacts, FS_EmptySet DEF IndexOK
  <1>5. HistoryOK'
      BY <1>0 DEF HistoryOK, TypeInv
  <1>6. QED
      BY <1>3, <1>4, <1>5 DEF CoreOK

\* Replay of one record, when it is not refused.
LoadStep ==
    /\ phase = "loading" /\ pos < Len(log)
    /\ ~Refuses(ix, log[pos + 1])
    /\ ix' = apply(ix, log[pos + 1], now)
    /\ pos' = pos + 1
    /\ UNCHANGED <<now, log, durable, snap, dir, phase, waiting, born, enqOK, ackOK, acked,
                   deliveries, stops>>

RefusedStep ==
    /\ phase = "loading" /\ phase' = "refused" /\ pos < Len(log)
    /\ Refuses(ix, log[pos + 1])
    /\ UNCHANGED <<now, log, durable, snap, dir, pos, ix, waiting, born, enqOK, ackOK, acked,
                   deliveries, stops>>

LEMMA LoadCases ==
    ASSUME Load
    PROVE  \/ /\ phase = "down" /\ phase' = "loading" /\ pos' = 0
              /\ UNCHANGED <<now, log, durable, snap, dir, ix, waiting, born, enqOK, ackOK,
                             acked, deliveries, stops>>
           \/ LoadStep
           \/ RefusedStep
           \/ /\ phase = "loading" /\ phase' = "up" /\ pos = Len(log) /\ pos' = 0
              /\ durable' = durable \/ durable' = Len(log)
              /\ UNCHANGED <<now, log, snap, dir, ix, waiting, born, enqOK, ackOK, acked,
                             deliveries, stops>>
  <1>1. CASE LoadBegin
      BY <1>1, Zenon DEF LoadBegin, logV, disk, history, answers
  <1>2. CASE LoadRecord
    <2>1. /\ phase = "loading" /\ pos < Len(log)
          /\ UNCHANGED <<now, log, durable, snap, dir, waiting, born, enqOK, ackOK,
                         acked, deliveries, stops>>
        BY <1>2, Zenon DEF LoadRecord, logV, disk, history, answers
    <2>2. CASE Refuses(ix, log[pos + 1])
        BY <1>2, <2>1, <2>2, Zenon DEF LoadRecord, RefusedStep
    <2>3. CASE ~Refuses(ix, log[pos + 1])
        BY <1>2, <2>1, <2>3, Zenon DEF LoadRecord, LoadStep
    <2>4. QED
        BY <2>2, <2>3
  <1>3. CASE LoadDone
    <2>1. durable' = durable \/ durable' = Len(log)
        BY <1>3 DEF LoadDone, Log!LogOpen
    <2>2. QED
        BY <1>3, <2>1, Zenon DEF LoadDone, Log!LogOpen, disk, history, answers
  <1>4. QED
      BY <1>1, <1>2, <1>3 DEF Load

LEMMA LoadFacts ==
    ASSUME TypeInv, LoadStep
    PROVE  LET r == log[pos + 1]
           IN /\ r \in LogRecord /\ Knows(r, Len(born)) /\ pos + 1 \in 1 .. Len(log)
              /\ ix' \in Index(Ids) /\ Consistent(ix')
              /\ Replayed(ix, ix', r, now)
  <1>1. /\ pos + 1 \in 1 .. Len(log) /\ log \in Seq(LogRecord)
      BY DEF LoadStep, TypeInv, StoreOK
  <1>2. log[pos + 1] \in LogRecord /\ Knows(log[pos + 1], Len(born))
      BY <1>1 DEF TypeInv, StoreOK, IdsKnown
  <1>3. PICK r \in LogRecord : r = log[pos + 1]
      BY <1>2
  <1>4. /\ ~Refuses(ix, r) /\ ix' = apply(ix, r, now)
      BY <1>3, Zenon DEF LoadStep
  <1>5. /\ ix \in Index(Ids) /\ Consistent(ix) /\ now \in Nat
        /\ Len(born) \in Nat /\ Len(born) <= MaxMsgs
      BY DEF TypeInv, IndexOK, ClockOK, HistoryOK
  <1>6. Ids \subseteq Id /\ (r.type = "ENQUEUE" => r.m.id \in Ids)
      BY <1>2, <1>3, <1>5, QueueAssumption DEF Knows, Ids, Id
  <1>7. /\ apply(ix, r, now) \in Index(Ids) /\ Consistent(apply(ix, r, now))
        /\ Replayed(ix, apply(ix, r, now), r, now)
      BY <1>4, <1>5, <1>6, ApplyFacts
  <1>8. QED
      BY <1>1, <1>2, <1>3, <1>4, <1>7

LEMMA PutKnown ==
    ASSUME NEW f, NEW d, NEW e, NEW n, IsFiniteSet(DOMAIN f), e.msg \in 1 .. n,
           \A x \in DOMAIN f : f[x].msg \in 1 .. n
    PROVE  /\ IsFiniteSet(DOMAIN Put(f, d, e))
           /\ \A x \in DOMAIN Put(f, d, e) : Put(f, d, e)[x].msg \in 1 .. n
  <1>1. /\ DOMAIN Put(f, d, e) = DOMAIN f \cup {d}
        /\ \A x \in DOMAIN f \cup {d} : Put(f, d, e)[x] = IF x = d THEN e ELSE f[x]
      BY DEF Put
  <1>2. IsFiniteSet(DOMAIN f \cup {d})
      BY FS_AddElement
  <1>3. QED
      BY <1>1, <1>2

LEMMA LoadStepIndex ==
    ASSUME TypeInv, LoadStep
    PROVE  IndexOK'
  <1> DEFINE r == log[pos + 1]
             n == Len(born)
  <1>1. /\ r \in LogRecord /\ Knows(r, n) /\ pos + 1 \in 1 .. Len(log)
        /\ ix' \in Index(Ids) /\ Consistent(ix')
        /\ Replayed(ix, ix', r, now)
      BY LoadFacts
  <1>2. born' = born
      BY Zenon DEF LoadStep
  <1>3. /\ IsFiniteSet(DOMAIN ix.dedup) /\ DOMAIN ix.msgs \subseteq 1 .. n
        /\ \A d \in DOMAIN ix.dedup : ix.dedup[d].msg \in 1 .. n
      BY DEF TypeInv, IndexOK
  <1>4. r.type \in {"META", "ENQUEUE", "ACK", "NACK", "LEASE_EXPIRE", "DEDUP"}
      BY <1>1, RecordFacts
  <1> HIDE DEF r, n
  <1> DEFINE G == /\ IsFiniteSet(DOMAIN ix'.dedup) /\ DOMAIN ix'.msgs \subseteq 1 .. n
                  /\ \A d \in DOMAIN ix'.dedup : ix'.dedup[d].msg \in 1 .. n
  <1> SUFFICES G
      BY <1>1, <1>2 DEF IndexOK, n
  <1>5. CASE r.type = "META"
      BY <1>1, <1>3, <1>5 DEF Replayed
  <1>6. CASE r.type = "ENQUEUE"
    <2> DEFINE e == [msg |-> r.m.id, expires |-> r.m.created + DedupWindow]
    <2>1. /\ DOMAIN ix'.msgs = DOMAIN ix.msgs \cup {r.m.id}
          /\ ix'.dedup = IF r.m.dedup = NoDedup THEN ix.dedup ELSE Put(ix.dedup, r.m.dedup, e)
        BY <1>1, <1>6, Zenon DEF Replayed
    <2>2. r.m.id \in 1 .. n /\ e.msg \in 1 .. n
        BY <1>1, <1>6 DEF Knows
    <2> HIDE DEF e
    <2>3. DOMAIN ix'.msgs \subseteq 1 .. n
        BY <1>3, <2>1, <2>2
    <2>4. CASE r.m.dedup = NoDedup
        BY <1>3, <2>1, <2>3, <2>4
    <2>5. CASE r.m.dedup # NoDedup
      <3>1. ix'.dedup = Put(ix.dedup, r.m.dedup, e)
          BY <2>1, <2>5
      <3>2. /\ IsFiniteSet(DOMAIN ix'.dedup)
            /\ \A d \in DOMAIN ix'.dedup : ix'.dedup[d].msg \in 1 .. n
          BY <1>3, <2>2, <3>1, PutKnown
      <3>3. QED
          BY <2>3, <3>2
    <2>6. QED
        BY <2>4, <2>5
  <1>7. CASE r.type = "ACK"
      BY <1>1, <1>3, <1>7 DEF Replayed
  <1>8. CASE r.type \in {"NACK", "LEASE_EXPIRE"}
    <2>1. DOMAIN ix'.msgs = DOMAIN ix.msgs /\ ix'.dedup = ix.dedup
        BY <1>1, <1>8, Zenon DEF Replayed
    <2>2. QED
        BY <1>3, <2>1
  <1>9. CASE r.type = "DEDUP"
    <2>1. ix'.msgs = ix.msgs /\ ix'.dedup = Put(ix.dedup, r.d, r.e)
        BY <1>1, <1>9, Zenon DEF Replayed
    <2>2. r.e.msg \in 1 .. n
        BY <1>1, <1>9 DEF Knows
    <2>3. /\ IsFiniteSet(DOMAIN ix'.dedup)
          /\ \A d \in DOMAIN ix'.dedup : ix'.dedup[d].msg \in 1 .. n
        BY <1>3, <2>1, <2>2, PutKnown
    <2>4. QED
        BY <1>3, <2>1, <2>3
  <1>10. QED
      BY <1>4, <1>5, <1>6, <1>7, <1>8, <1>9

LEMMA LoadCore ==
    ASSUME TypeInv, Load
    PROVE  CoreOK'
  <1>1. CASE LoadStep
    <2>1. StoreOK'
        BY <1>1 DEF LoadStep, StoreOK, TypeInv, IdsKnown
    <2>2. HistoryOK'
        BY <1>1 DEF LoadStep, HistoryOK, TypeInv
    <2>3. QED
        BY <1>1, <2>1, <2>2, LoadStepIndex DEF CoreOK
  <1>2. CASE ~LoadStep
    <2>1. /\ UNCHANGED <<log, snap, ix, waiting, born, enqOK, ackOK, acked, deliveries>>
          /\ durable' = durable \/ durable' = Len(log)
          /\ pos' = 0 \/ (pos' = pos /\ phase' = "refused")
        BY <1>2, LoadCases, Zenon DEF RefusedStep
    <2>2. StoreOK'
        BY <2>1 DEF StoreOK, TypeInv, IdsKnown
    <2>3. IndexOK' /\ HistoryOK'
        BY <2>1 DEF IndexOK, HistoryOK, TypeInv
    <2>4. QED
        BY <2>2, <2>3 DEF CoreOK
  <1>3. QED
      BY <1>1, <1>2

LEMMA NextTypeInv ==
    ASSUME TypeInv, [Next]_vars
    PROVE  TypeInv'
  <1>1. CoreOK'
      BY Classify, QuietCore, ServeCore, ReturnCore, EnqueueCore, AckCore, AttemptCore,
         InstallCore, ReopenCore, StopCore, LoadCore DEF Classified
  <1>2. ClockOK' /\ ModeOK'
      BY ClockStep, ModeStep DEF TypeInv
  <1>3. CountersOK'
      BY <1>1, CountersStep DEF CoreOK
  <1>4. QED
      BY <1>1, <1>2, <1>3 DEF CoreOK, TypeInv

LEMMA InitTypeInv == Init => TypeInv
  <1> SUFFICES ASSUME Init PROVE TypeInv
      OBVIOUS
  <1>1. ClockOK /\ CountersOK
      BY QueueAssumption DEF Init, ClockOK, CountersOK
  <1>2. ModeOK
      BY Zenon DEF Init, ModeOK
  <1>3. IndexOK
      BY EmptyIndexFacts, FS_EmptySet DEF Init, IndexOK
  <1>4. HistoryOK
      BY QueueAssumption DEF Init, HistoryOK
  <1>5. StoreOK
    <2>1. Meta(0) \in LogRecord /\ Meta(0).type = "META"
        BY DEF Meta, LogRecord
    <2>2. PICK r \in LogRecord : r = Meta(0) /\ r.type = "META"
        BY <2>1
    <2>3. log = <<r>> /\ durable = 1 /\ snap = <<>> /\ pos = 0
        BY <2>2 DEF Init
    <2>4. Knows(r, Len(born))
        BY <2>2 DEF Knows
    <2>5. QED
        BY <2>3, <2>4 DEF StoreOK, IdsKnown
  <1>6. QED
      BY <1>1, <1>2, <1>3, <1>4, <1>5 DEF TypeInv

LEMMA TypeInvariant == Spec => []TypeInv
  BY InitTypeInv, NextTypeInv, PTL DEF Spec

\* Type correctness of the queue: its clock, its log, its index, its mutex and
\* its history have their types in every reachable state.
THEOREM QueueTypes == Spec => []TypeOK
  <1>1. TypeInv => TypeOK
    <2> SUFFICES ASSUME TypeInv PROVE TypeOK
        OBVIOUS
    <2>1. IndexTypeOK
      <3>1. /\ ix.msgs \in MsgMap(Ids) /\ ix.held \in [MsgState -> SUBSET Ids]
            /\ ix.dedup \in DedupMap /\ ix.nextSeq \in Nat
            /\ DOMAIN ix = {"msgs", "held", "dedup", "nextSeq"}
            /\ DOMAIN ix.msgs \subseteq Ids
            /\ \A x \in DOMAIN ix.msgs : ix.msgs[x] \in Message
          BY Fields DEF TypeInv, IndexOK
      <3>2. DOMAIN ix.dedup \subseteq DedupId /\ \A d \in DOMAIN ix.dedup : ix.dedup[d] \in DedupEntry
          BY <3>1, DedupFacts
      <3>3. QED
          BY <3>1, <3>2 DEF IndexTypeOK
    <2>2. Log!LogTypeOK
        BY Zenon DEF Log!LogTypeOK, TypeInv, StoreOK, ModeOK
    <2>3. QED
        BY <2>1, <2>2, Zenon
        DEF TypeOK, TypeInv, ClockOK, ModeOK, StoreOK, HistoryOK, CountersOK
  <1>2. QED
      BY <1>1, TypeInvariant, PTL

\* A message is never in two of the ready, delayed and lease heaps and the
\* dead-letter list, nor in none: each holds exactly the messages whose state
\* names it, over every request, tick, compaction, crash and replay.  detach
\* and the single heap index of a Message rest on it.
THEOREM OneHomeAlways == Spec => []OneHome
  <1>1. TypeInv => OneHome
      BY DEF TypeInv, IndexOK, OneHome
  <1>2. QED
      BY <1>1, TypeInvariant, PTL
=============================================================================
