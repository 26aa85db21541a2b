----------------------------- MODULE QueueIndex -----------------------------
(***************************************************************************)
(* The in-memory index of one queue and the transitions on it: the apply*  *)
(* methods of internal/queue/queue.go, the comparator of message.go and    *)
(* the record encoding of codec.go.                                        *)
(*                                                                         *)
(* The live write path and replay share these operators, as they share the *)
(* methods in the code.  An index is a record                              *)
(*    msgs     byID: a function from the ids of live messages              *)
(*    held     the ready, delayed and lease heaps and the DLQ, as the sets *)
(*             of ids they hold                                            *)
(*    dedup    the dedup table                                             *)
(*    nextSeq  the sequence counter                                        *)
(* A heap is the set it holds; its head is chosen by its Less.  Ids are    *)
(* numbers in the order newID drew them, payloads are left out, and time   *)
(* is a number of ticks.                                                   *)
(***************************************************************************)
EXTENDS Integers, Sequences, FiniteSets

CONSTANTS
    DedupId,          \* client-supplied dedup ids
    NoDedup,          \* the empty dedup id
    Ordering,         \* Config.Ordering: "fifo" or "lifo"
    PriorityEnabled,  \* Config.PriorityEnabled
    MaxAttempts,      \* Config.MaxAttempts
    DedupWindow,      \* Config.DedupWindowMS, in ticks
    AgingInterval,    \* Config.AgingIntervalMS, in ticks; 0 is off
    AgingMaxBoost,    \* Config.AgingMaxBoost
    IntMax            \* largest value of the build's int

\* What Config.Validate leaves.
ValidConfig ==
    /\ NoDedup \notin DedupId
    /\ Ordering \in {"fifo", "lifo"}
    /\ PriorityEnabled \in BOOLEAN
    /\ MaxAttempts \in Nat \ {0}
    /\ DedupWindow \in Nat \ {0}
    /\ AgingInterval \in Nat
    /\ AgingInterval > 0 => PriorityEnabled /\ AgingMaxBoost \in Nat \ {0}
    /\ AgingMaxBoost \in Nat
    /\ IntMax \in Nat \ {0}

ASSUME ConfigAssumption == ValidConfig

Id == Nat \ {0}
MsgState == {"ready", "delayed", "inflight", "dead"}

Message ==
    [dedup : DedupId \cup {NoDedup}, seq : Nat, prio : Int, visible : Nat,
     created : Nat, attempts : Nat, state : MsgState, eff : Int,
     deadline : Nat]

\* dedupEntry.  Its DedupID is the key it is stored under.
DedupEntry == [msg : Id, expires : Nat]

EmptyIndex ==
    [msgs |-> [id \in {} |-> 0],
     held |-> [s \in MsgState |-> {}],
     dedup |-> [d \in {} |-> 0],
     nextSeq |-> 1]

Put(f, k, v) == [x \in DOMAIN f \cup {k} |-> IF x = k THEN v ELSE f[x]]
Without(f, K) == [x \in DOMAIN f \ K |-> f[x]]

-----------------------------------------------------------------------------
\* Two's complement: what an int addition leaves of a sum.
Wrap(n) == ((n + IntMax + 1) % (2 * IntMax + 2)) - IntMax - 1

effectivePriority(m, t) ==
    IF AgingInterval = 0 \/ ~PriorityEnabled
    THEN m.prio
    ELSE LET age == (t - m.created) \div AgingInterval
             boost == CASE age > AgingMaxBoost -> AgingMaxBoost
                        [] age < 0 -> 0
                        [] OTHER -> age
         IN Wrap(m.prio + boost)

\* Config.less: the order of the ready heap.
less(a, b) ==
    IF PriorityEnabled /\ a.eff # b.eff
    THEN a.eff > b.eff
    ELSE IF Ordering = "lifo" THEN a.seq > b.seq ELSE a.seq < b.seq

\* leaseHeap.Less.
leaseLess(a, b) ==
    IF a.deadline # b.deadline THEN a.deadline < b.deadline ELSE a.seq < b.seq

-----------------------------------------------------------------------------
\* Faulty: a snapshot forgets how often a message was tried.
encodeMessageNoAttempts(id, m) ==
    [id |-> id, dedup |-> m.dedup, seq |-> m.seq, prio |-> m.prio,
     visible |-> m.visible, created |-> m.created, attempts |-> 0,
     dead |-> m.state = "dead"]

\* codec.go.  An ENQUEUE payload holds the dead flag and no lease; decoding
\* starts the effective priority from the priority.
encodeMessage(id, m) ==
    [id |-> id, dedup |-> m.dedup, seq |-> m.seq, prio |-> m.prio,
     visible |-> m.visible, created |-> m.created, attempts |-> m.attempts,
     dead |-> m.state = "dead"]

decodeMessage(e) ==
    [dedup |-> e.dedup, seq |-> e.seq, prio |-> e.prio, visible |-> e.visible,
     created |-> e.created, attempts |-> e.attempts,
     state |-> IF e.dead THEN "dead" ELSE "ready",
     eff |-> e.prio, deadline |-> 0]

Encoded ==
    [id : Id, dedup : DedupId \cup {NoDedup}, seq : Nat, prio : Int,
     visible : Nat, created : Nat, attempts : Nat, dead : BOOLEAN]

\* The records of the log.
Meta(n) == [type |-> "META", nextSeq |-> n]
EnqueueRec(id, m) == [type |-> "ENQUEUE", m |-> encodeMessage(id, m)]
AckRec(id) == [type |-> "ACK", id |-> id]
NackRec(id) == [type |-> "NACK", id |-> id]
LeaseExpireRec(id) == [type |-> "LEASE_EXPIRE", id |-> id]
DedupRec(d, e) == [type |-> "DEDUP", d |-> d, e |-> e]

LogRecord ==
    [type : {"META"}, nextSeq : Nat]
    \cup [type : {"ENQUEUE"}, m : Encoded]
    \cup [type : {"ACK", "NACK", "LEASE_EXPIRE"}, id : Id]
    \cup [type : {"DEDUP"}, d : DedupId, e : DedupEntry]

-----------------------------------------------------------------------------
\* detach: take a message out of the structure its state names.
detach(ix, id) ==
    [ix EXCEPT !.held[ix.msgs[id].state] = @ \ {id}]

\* Faulty: a message that returns keeps the effective priority it left with.
placeKeepsBoost(ix, id, m, t) ==
    LET s == IF m.visible > t THEN "delayed" ELSE "ready"
        placed == [m EXCEPT !.state = s, !.deadline = 0,
                            !.eff = IF s = "ready" /\ m.attempts = 0
                                    THEN effectivePriority(m, t) ELSE @]
    IN [ix EXCEPT !.msgs = Put(@, id, placed), !.held[s] = @ \cup {id}]

\* place: route a message, held by nothing, to the delayed or the ready heap.
\* A deadline means something only in flight, so the model forgets a past one.
place(ix, id, m, t) ==
    LET s == IF m.visible > t THEN "delayed" ELSE "ready"
        placed == [m EXCEPT !.state = s, !.deadline = 0,
                            !.eff = IF s = "ready"
                                    THEN effectivePriority(m, t) ELSE @]
    IN [ix EXCEPT !.msgs = Put(@, id, placed), !.held[s] = @ \cup {id}]

\* Put a message on the dead-letter list.
bury(ix, id, m) ==
    [ix EXCEPT !.msgs = Put(@, id, [m EXCEPT !.state = "dead", !.deadline = 0]),
               !.held["dead"] = @ \cup {id}]

\* Faulty: a dead message of a snapshot comes back to life.
applyEnqueueRevives(ix, id, m, t) ==
    LET counted == [ix EXCEPT !.nextSeq = IF m.seq >= @ THEN m.seq + 1 ELSE @,
                              !.dedup = IF m.dedup = NoDedup THEN @
                                        ELSE Put(@, m.dedup,
                                                 [msg |-> id,
                                                  expires |-> m.created + DedupWindow])]
    IN place(counted, id, m, t)

applyEnqueue(ix, id, m, t) ==
    LET counted == [ix EXCEPT !.nextSeq = IF m.seq >= @ THEN m.seq + 1 ELSE @,
                              !.dedup = IF m.dedup = NoDedup THEN @
                                        ELSE Put(@, m.dedup,
                                                 [msg |-> id,
                                                  expires |-> m.created + DedupWindow])]
    IN IF m.state = "dead" THEN bury(counted, id, m) ELSE place(counted, id, m, t)

applyAck(ix, id) == [detach(ix, id) EXCEPT !.msgs = Without(@, {id})]

\* Faulty: the message stays on the lease heap.
applyAttemptNoDetach(ix, id, t) ==
    LET m == [ix.msgs[id] EXCEPT !.attempts = @ + 1]
    IN IF m.attempts >= MaxAttempts
       THEN bury(ix, id, m)
       ELSE place(ix, id, [m EXCEPT !.visible = t], t)

\* Faulty: one attempt too many.
applyAttemptLate(ix, id, t) ==
    LET m == [ix.msgs[id] EXCEPT !.attempts = @ + 1]
    IN IF m.attempts > MaxAttempts
       THEN bury(detach(ix, id), id, m)
       ELSE place(detach(ix, id), id, [m EXCEPT !.visible = t], t)

\* A delivery that did not succeed: nack and lease expiry.
applyAttempt(ix, id, t) ==
    LET m == [ix.msgs[id] EXCEPT !.attempts = @ + 1]
    IN IF m.attempts >= MaxAttempts
       THEN bury(detach(ix, id), id, m)
       ELSE place(detach(ix, id), id, [m EXCEPT !.visible = t], t)

\* What apply refuses: an id enqueued twice, or a record about no message.
Refuses(ix, r) ==
    \/ r.type = "ENQUEUE" /\ r.m.id \in DOMAIN ix.msgs
    \/ r.type \in {"ACK", "NACK", "LEASE_EXPIRE"} /\ r.id \notin DOMAIN ix.msgs

\* Faulty: the counter of a snapshot's META record is not read.
applyDropsNextSeq(ix, r, t) ==
    CASE r.type = "META" -> ix
      [] r.type = "ENQUEUE" -> applyEnqueue(ix, r.m.id, decodeMessage(r.m), t)
      [] r.type = "ACK" -> applyAck(ix, r.id)
      [] r.type \in {"NACK", "LEASE_EXPIRE"} -> applyAttempt(ix, r.id, t)
      [] r.type = "DEDUP" -> [ix EXCEPT !.dedup = Put(@, r.d, r.e)]

\* apply: replay of one record at time t.
apply(ix, r, t) ==
    CASE r.type = "META" -> [ix EXCEPT !.nextSeq = IF r.nextSeq > @ THEN r.nextSeq ELSE @]
      [] r.type = "ENQUEUE" -> applyEnqueue(ix, r.m.id, decodeMessage(r.m), t)
      [] r.type = "ACK" -> applyAck(ix, r.id)
      [] r.type \in {"NACK", "LEASE_EXPIRE"} -> applyAttempt(ix, r.id, t)
      [] r.type = "DEDUP" -> [ix EXCEPT !.dedup = Put(@, r.d, r.e)]

-----------------------------------------------------------------------------
\* promoteDue: everything due leaves the delayed heap.
promoteDue(ix, t) ==
    LET due == {id \in ix.held["delayed"] : ix.msgs[id].visible <= t}
    IN [ix EXCEPT
          !.msgs = [id \in DOMAIN @ |->
                      IF id \in due
                      THEN [@[id] EXCEPT !.state = "ready",
                                         !.eff = effectivePriority(ix.msgs[id], t)]
                      ELSE @[id]],
          !.held["delayed"] = @ \ due,
          !.held["ready"] = @ \cup due]

\* The ready heap popped for the messages of S.
lease(ix, S, deadline) ==
    [ix EXCEPT
       !.msgs = [id \in DOMAIN @ |->
                   IF id \in S
                   THEN [@[id] EXCEPT !.state = "inflight", !.deadline = deadline]
                   ELSE @[id]],
       !.held["ready"] = @ \ S,
       !.held["inflight"] = @ \cup S]

\* agePriorities, once its interval has passed.
agePriorities(ix, t) ==
    [ix EXCEPT !.msgs = [id \in DOMAIN @ |->
                           IF id \in ix.held["ready"]
                           THEN [@[id] EXCEPT !.eff = effectivePriority(ix.msgs[id], t)]
                           ELSE @[id]]]

\* tick's purge of the dedup table.
purgeDedup(ix, t) ==
    [ix EXCEPT !.dedup = Without(@, {d \in DOMAIN @ : @[d].expires <= t})]

\* Enqueue's test: the dedup id was used and its window is open.
isDuplicate(ix, d, t) == d \in DOMAIN ix.dedup /\ t < ix.dedup[d].expires

-----------------------------------------------------------------------------
\* A message is in exactly the structure its state names, which is what the
\* single heap index of a Message and the switch in detach rely on.
Consistent(ix) ==
    \A s \in MsgState :
        ix.held[s] = {id \in DOMAIN ix.msgs : ix.msgs[id].state = s}
=============================================================================
