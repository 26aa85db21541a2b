------------------------------ MODULE RunLoop ------------------------------
(***************************************************************************)
(* The background goroutine of one queue (internal/queue/queue.go: run,    *)
(* tick, nextDeadlineLocked, signal) and what it shares with requests: the *)
(* delayed and lease heaps, the dedup table, the wake channel, the done    *)
(* channel, and the size of the log, which starts automatic compactions.   *)
(*                                                                         *)
(* Nothing polls: the goroutine sleeps until the earliest deadline it saw, *)
(* so a request that adds an earlier one has to wake it.  Module Queue has *)
(* the contents and the durability of what tick does; here a message is    *)
(* the heap it is in and the time left to its deadline.                    *)
(*                                                                         *)
(* Times are countdowns, in milliseconds, that stop at zero: t stands for  *)
(* the instant that is t from now, 0 for now or any instant passed.        *)
(***************************************************************************)
EXTENDS Integers, FiniteSets

CONSTANTS
    Msg,             \* messages
    Delay, Lease,    \* delays and visibility timeouts of requests
    AgingInterval,   \* agingInterval, 0 when aging is off
    PurgeInterval,   \* dedupPurgeInterval
    Hour,            \* the sleep of a loop with nothing to wait for
    Threshold,       \* compactThreshold, in records
    MaxSize,         \* bound: the size of the log stops growing here
    MaxWaiting,      \* bound: requests between unlock and signal
    NoTime           \* the zero time.Time

ASSUME RunLoopAssumption ==
    /\ IsFiniteSet(Msg)
    /\ Delay \subseteq Nat /\ Lease \subseteq Nat \ {0}
    /\ AgingInterval \in Nat /\ PurgeInterval \in Nat \ {0}
    /\ Hour \in Nat \ {0}
    /\ Threshold \in Nat /\ MaxSize \in Nat \ {0} /\ MaxWaiting \in Nat
    /\ NoTime \notin Nat

VARIABLES
    place,           \* the heap or list each message is in, "out" for none
    left,            \* time left to VisibleAt or to the lease's deadline
    ageLeft,         \* time left to lastAge + agingInterval
    purgeLeft,       \* time left to lastPurge + dedupPurgeInterval
    dedup,           \* the dedup table has an entry
    failed, closed, done,   \* Queue.failed, Queue.closed, done is closed
    durably,         \* Enqueues and Nacks in waitDurable, yet to signal
    leasing,         \* Dequeues that unlocked and are yet to signal
    wake,            \* the wake channel holds its token
    pc,              \* where the goroutine is
    next,            \* what tick returned
    timer,           \* time left on the timer, 0 once it fired
    trigger,         \* shouldCompact
    size, floor,     \* the log's size, compactFloor
    \* History.
    compacted,       \* the size the last compaction left, 0 before the first
    raced            \* a requested compaction came after tick's decision

index == <<place, left, ageLeft, purgeLeft, dedup>>
flags == <<failed, closed, done>>
chans == <<durably, leasing, wake>>
loop == <<pc, next, timer, trigger>>
compaction == <<size, floor, compacted, raced>>
vars == <<index, flags, chans, loop, compaction>>

Place == {"delayed", "ready", "inflight", "dead", "out"}
In(h) == {m \in Msg : place[m] = h}
Smaller(a, b) == IF a <= b THEN a ELSE b
Larger(a, b) == IF a >= b THEN a ELSE b
Grown(n) == Smaller(size + n, MaxSize)

\* Types: every countdown is a number, every flag a Boolean.
TypeOK ==
    /\ place \in [Msg -> Place] /\ left \in [Msg -> Nat]
    /\ ageLeft \in Nat /\ purgeLeft \in Nat /\ dedup \in BOOLEAN
    /\ failed \in BOOLEAN /\ closed \in BOOLEAN /\ done \in BOOLEAN
    /\ durably \in Nat /\ leasing \in Nat /\ wake \in BOOLEAN
    /\ pc \in {"tick", "settle", "compact", "reset", "select", "exited"}
    /\ next \in Nat \cup {NoTime} /\ timer \in Nat /\ trigger \in BOOLEAN
    /\ size \in Nat /\ floor \in Nat /\ compacted \in Nat /\ raced \in BOOLEAN

\* newQueue and start, after a Load that filled the index.
Init ==
    /\ place \in [Msg -> Place \ {"inflight"}]
    /\ left \in [Msg -> Delay \cup {0}]
    /\ \A m \in Msg : place[m] # "delayed" => left[m] = 0
    /\ ageLeft = AgingInterval /\ purgeLeft = PurgeInterval /\ dedup \in BOOLEAN
    /\ failed = FALSE /\ closed = FALSE /\ done = FALSE
    /\ durably = 0 /\ leasing = 0 /\ wake = FALSE
    /\ pc = "tick" /\ next = NoTime /\ timer = Hour /\ trigger = FALSE
    /\ size = 1 /\ floor = 0 /\ compacted = 0 /\ raced = FALSE

-----------------------------------------------------------------------------
\* Requests.

\* checkLocked.
Accepts == ~closed /\ ~failed

\* Enqueue up to the unlock: the message is in its heap before its record is
\* durable, and before the goroutine hears of it.
Enqueue(m, d) ==
    /\ Accepts /\ place[m] = "out" /\ durably < MaxWaiting
    /\ place' = [place EXCEPT ![m] = IF d > 0 THEN "delayed" ELSE "ready"]
    /\ left' = [left EXCEPT ![m] = d]
    /\ dedup' \in {dedup, TRUE}
    /\ durably' = durably + 1
    /\ size' = Grown(1)
    /\ UNCHANGED <<ageLeft, purgeLeft, flags, leasing, wake, loop, floor, compacted, raced>>

\* promoteDue, for Dequeue and tick: what is in the ready heap after it.
Visible == In("ready") \cup {m \in In("delayed") : left[m] = 0}

\* Dequeue up to the unlock: promotes, then leases some of what is visible.
\* With nothing visible it changes nothing and does not signal.
Dequeue(S, d) ==
    /\ Accepts /\ S # {} /\ S \subseteq Visible /\ leasing < MaxWaiting
    /\ place' = [m \in Msg |-> IF m \in S THEN "inflight"
                               ELSE IF m \in Visible THEN "ready" ELSE place[m]]
    /\ left' = [m \in Msg |-> IF m \in S THEN d ELSE left[m]]
    /\ leasing' = leasing + 1
    /\ UNCHANGED <<ageLeft, purgeLeft, dedup, flags, durably, wake, loop, compaction>>

\* Ack takes a deadline away, or purges a dead message: neither needs a signal.
Ack(m) ==
    /\ Accepts /\ place[m] \in {"inflight", "dead"}
    /\ place' = [place EXCEPT ![m] = "out"]
    /\ left' = [left EXCEPT ![m] = 0]
    /\ size' = Grown(1)
    /\ UNCHANGED <<ageLeft, purgeLeft, dedup, flags, chans, loop, floor, compacted, raced>>

\* Nack up to the unlock: ready again, or dead-lettered.
Nack(m) ==
    /\ Accepts /\ place[m] = "inflight" /\ durably < MaxWaiting
    /\ \E h \in {"ready", "dead"} : place' = [place EXCEPT ![m] = h]
    /\ left' = [left EXCEPT ![m] = 0]
    /\ durably' = durably + 1
    /\ size' = Grown(1)
    /\ UNCHANGED <<ageLeft, purgeLeft, dedup, flags, leasing, wake, loop, floor, compacted, raced>>

\* signal: a post that does nothing when the token is there already.
signal == wake' = TRUE

\* The end of an Enqueue or a Nack whose record is durable.
ReturnDurable ==
    /\ durably > 0 /\ durably' = durably - 1
    /\ signal
    /\ UNCHANGED <<index, flags, leasing, loop, compaction>>

\* Faulty: a signal goes only to a goroutine that is asleep already.
ReturnLeaseUnheard ==
    /\ leasing > 0 /\ leasing' = leasing - 1
    /\ wake' = (wake \/ pc = "select")
    /\ UNCHANGED <<index, flags, durably, loop, compaction>>

\* The end of a Dequeue that leased something.
ReturnLease ==
    /\ leasing > 0 /\ leasing' = leasing - 1
    /\ signal
    /\ UNCHANGED <<index, flags, durably, loop, compaction>>

\* The log failed: a refused append, or a waitDurable that returns an error.
\* A request that was to signal returns without.
RequestFails ==
    /\ failed' = TRUE
    /\ \/ ~failed /\ UNCHANGED durably
       \/ durably > 0 /\ durably' = durably - 1
    /\ UNCHANGED <<index, closed, done, leasing, wake, loop, compaction>>

-----------------------------------------------------------------------------
\* The goroutine.

\* The instants nextDeadlineLocked considers, of an index p, l.
Deadlines(p, l, a, u, dd) ==
    {l[m] : m \in {m \in Msg : p[m] \in {"delayed", "inflight"}}}
    \cup (IF AgingInterval > 0 /\ \E m \in Msg : p[m] = "ready" THEN {a} ELSE {})
    \cup (IF dd THEN {u} ELSE {})

Pending == Deadlines(place, left, ageLeft, purgeLeft, dedup)

\* The first of a set of instants, the zero time if there is none.
Earliest(D) == IF D = {} THEN {NoTime} ELSE {t \in D : \A d \in D : t <= d}

\* nextDeadlineLocked.
nextDeadline == Earliest(Pending)

\* Leases that ran out.
Due == {m \in In("inflight") : left[m] = 0}

\* The index after the locked part of tick: what is due is promoted, the leases
\* of E end, D of them dead-lettered, an aging and a purge that are due are done.
Ticked(E, D) ==
    /\ place' = [m \in Msg |->
            IF m \in D THEN "dead"
            ELSE IF m \in E \cup Visible THEN "ready" ELSE place[m]]
    /\ left' = left
    /\ ageLeft' = IF AgingInterval > 0 /\ ageLeft = 0 /\ (Visible \cup (E \ D)) # {}
                  THEN AgingInterval ELSE ageLeft
    /\ purgeLeft' = IF purgeLeft = 0 THEN PurgeInterval ELSE purgeLeft
    /\ IF purgeLeft = 0 THEN dedup' \in {dedup, FALSE} ELSE dedup' = dedup

\* Faulty: compacts whenever the log is long.
shouldCompactNoFloor(n) == Grown(n) >= Threshold

\* size >= compactThreshold && size >= compactFloor, with n more records.
shouldCompact(n) == Grown(n) >= Threshold /\ Grown(n) >= floor

\* Where tick goes when it unlocks, having logged the expiries of E.
Unlocked(E) ==
    pc' = IF E # {} THEN "settle" ELSE IF trigger' THEN "compact" ELSE "reset"

\* The locked part of tick.  An append that fails ends the expiries early.
TickWork ==
    \E E \in SUBSET Due : \E D \in SUBSET E :
        /\ Ticked(E, D)
        /\ failed' = (E # Due)
        /\ size' = Grown(Cardinality(E))
        /\ trigger' = (E = Due /\ shouldCompact(Cardinality(E)))
        /\ next' \in nextDeadline'
        /\ Unlocked(E)
        /\ UNCHANGED <<closed, done, chans, timer, floor, compacted, raced>>

\* The early return of a queue that failed or is closed.
TickNothing ==
    /\ next' = NoTime /\ trigger' = FALSE /\ pc' = "reset"
    /\ UNCHANGED <<index, flags, chans, timer, compaction>>

\* Faulty: no early return.  The log refuses every append.
TickSpins ==
    /\ pc = "tick"
    /\ IF closed THEN TickNothing
       ELSE IF ~failed THEN TickWork
       ELSE /\ Ticked({}, {}) /\ next' \in nextDeadline'
            /\ trigger' = FALSE /\ pc' = "reset"
            /\ UNCHANGED <<flags, chans, timer, compaction>>

Tick ==
    /\ pc = "tick"
    /\ IF failed \/ closed THEN TickNothing ELSE TickWork

\* waitDurable for the expiry records; its error marks the queue failed.
Settle ==
    /\ pc = "settle"
    /\ pc' = IF trigger THEN "compact" ELSE "reset"
    /\ failed' \in {failed, TRUE}
    /\ UNCHANGED <<index, closed, done, chans, next, timer, trigger, compaction>>

\* Compact as far as the loop sees it: refused, given up before the rename, fatal,
\* or done with a snapshot no longer than the log.
CompactRefused == ~Accepts /\ UNCHANGED <<failed, size, floor, compacted>>
CompactGivenUp == Accepts /\ UNCHANGED <<failed, size, floor, compacted>>
CompactFatal == Accepts /\ failed' = TRUE /\ UNCHANGED <<size, floor, compacted>>
CompactDone ==
    /\ Accepts
    /\ \E s \in 1 .. size : size' = s /\ floor' = 2 * s /\ compacted' = s
    /\ UNCHANGED failed

AutoCompact ==
    /\ pc = "compact" /\ pc' = "reset"
    /\ CompactRefused \/ CompactGivenUp \/ CompactFatal \/ CompactDone
    /\ trigger' = FALSE /\ raced' = FALSE
    /\ UNCHANGED <<index, closed, done, chans, next, timer>>

\* A compaction the API asked for, at any time.
RequestedCompact ==
    /\ \/ CompactFatal /\ UNCHANGED raced
       \/ CompactDone /\ raced' = (raced \/ trigger)
    /\ UNCHANGED <<index, closed, done, chans, loop>>

\* Faulty: takes the zero time for a deadline.
ResetUnchecked ==
    /\ pc = "reset" /\ pc' = "select"
    /\ timer' = next /\ next' = NoTime
    /\ UNCHANGED <<index, flags, chans, trigger, compaction>>

\* Stop, drain and Reset of the timer, at least a millisecond ahead.
Reset ==
    /\ pc = "reset" /\ pc' = "select"
    /\ timer' = IF next = NoTime THEN Hour ELSE Larger(next, 1)
    /\ next' = NoTime
    /\ UNCHANGED <<index, flags, chans, trigger, compaction>>

\* The three cases of the select.  The timer is read only here: what it does
\* after, Reset drains, so it does not run on.
SelectWake ==
    /\ pc = "select" /\ wake /\ wake' = FALSE
    /\ pc' = "tick" /\ timer' = Hour
    /\ UNCHANGED <<index, flags, durably, leasing, next, trigger, compaction>>

\* Faulty: sets the timer again without a tick.
SelectTimerRearms ==
    /\ pc = "select" /\ timer = 0
    /\ pc' = "reset" /\ timer' = Hour
    /\ UNCHANGED <<index, flags, chans, next, trigger, compaction>>

SelectTimer ==
    /\ pc = "select" /\ timer = 0
    /\ pc' = "tick" /\ timer' = Hour
    /\ UNCHANGED <<index, flags, chans, next, trigger, compaction>>

\* Faulty: a break that leaves the select and not the loop.
SelectDoneBreaks ==
    /\ pc = "select" /\ done
    /\ pc' = "tick" /\ timer' = Hour
    /\ UNCHANGED <<index, flags, chans, next, trigger, compaction>>

SelectDone ==
    /\ pc = "select" /\ done
    /\ pc' = "exited" /\ timer' = Hour
    /\ UNCHANGED <<index, flags, chans, next, trigger, compaction>>

-----------------------------------------------------------------------------
\* Close marks the queue under the mutex, then closes done, then waits.
CloseMark ==
    /\ ~closed /\ closed' = TRUE
    /\ UNCHANGED <<index, failed, done, chans, loop, compaction>>
CloseDone ==
    /\ closed /\ ~done /\ done' = TRUE
    /\ UNCHANGED <<index, failed, closed, chans, loop, compaction>>

\* A millisecond passes.
Less(t) == IF t = 0 THEN 0 ELSE t - 1
Advance ==
    /\ left' = [m \in Msg |-> Less(left[m])]
    /\ ageLeft' = Less(ageLeft) /\ purgeLeft' = Less(purgeLeft)
    /\ next' = IF next = NoTime THEN NoTime ELSE Less(next)
    /\ timer' = IF pc = "select" THEN Less(timer) ELSE timer
    /\ UNCHANGED <<place, dedup, flags, chans, pc, trigger, compaction>>

Request ==
    \/ \E m \in Msg : (\E d \in Delay : Enqueue(m, d)) \/ Ack(m) \/ Nack(m)
    \/ \E S \in SUBSET Msg, d \in Lease : Dequeue(S, d)
    \/ RequestFails \/ RequestedCompact
Signals == ReturnDurable \/ ReturnLease
Loop == Tick \/ Settle \/ AutoCompact \/ Reset \/ SelectWake \/ SelectTimer

Next == Request \/ Signals \/ Loop \/ SelectDone \/ CloseMark \/ CloseDone \/ Advance

Spec == Init /\ [][Next]_vars

\* The goroutine is scheduled, time passes, and a select whose done case is ready
\* again and again takes it: Go chooses among the ready cases at random.
FairSpec ==
    /\ Spec /\ WF_vars(Loop) /\ WF_vars(Signals) /\ WF_vars(Advance)
    /\ SF_vars(SelectDone)

-----------------------------------------------------------------------------
\* The token is there, or a request is about to post it.
Stirred == wake \/ durably > 0 \/ leasing > 0

\* A time t is early enough for every deadline there is.
Covers(t) == \A d \in Pending : t <= d

\* A goroutine asleep with nobody about to wake it has its timer at or before
\* every deadline (within the millisecond of Reset), whatever requests did between
\* the unlock of tick and the select.
NothingSleptPast ==
    pc = "select" /\ Accepts /\ ~Stirred => timer <= 1 \/ Covers(timer)

\* The same along the way from tick's unlock to the select.
DeadlineHeld ==
    pc \in {"settle", "compact", "reset"} /\ Accepts /\ ~Stirred =>
        IF next = NoTime THEN Pending = {} ELSE Covers(next)

\* Together they are inductive.
SleepInv == DeadlineHeld /\ NothingSleptPast

\* The floor is twice what the last compaction left, and a log that was long
\* enough for the trigger still is.
PaceInv ==
    /\ size <= MaxSize /\ floor = 2 * compacted
    /\ pc = "compact" => trigger
    /\ trigger => raced \/ size >= floor

\* The log at least doubled since the last compaction before tick's automatic one
\* rewrites it, unless a requested compaction came between decision and rewrite.
AutoCompactPaced ==
    [][AutoCompact /\ CompactDone => raced \/ size >= 2 * compacted]_vars

\* A lease that ran out ends without any request's help.
LeaseExpires ==
    \A m \in Msg : (m \in Due) ~> (m \notin Due \/ failed \/ closed)

\* A failed queue schedules nothing: from some time on every reset is for an hour.
NoSpinAfterFailure == failed ~> [](pc = "reset" => next = NoTime)

\* Close gets its goroutine back.
CloseReturns == done ~> (pc = "exited")
=============================================================================
