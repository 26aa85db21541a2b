# A verification of artie-queue in TLA+

artie-queue is a single-node message queue in Go: HTTP in front, one
write-ahead log per queue underneath, at-least-once delivery.  With it come the
commands to verify and repair a log, and a demo: a supervisor that runs the
server as a child, a fleet of workers, and a dashboard with a crash and
corruption lab.  This directory holds TLA+ modules that model the log, the
queues and their background loop, the manager of a data directory, the
consumers and the operator's side, TLC configurations that model-check them on
small instances, and TLAPS proofs about the log, the queue and its recovery,
the loop, the consumers and the operator's side.

`PROJECT.json` lists the parts of the system, the runs, the hazards the
properties are for, the source lines every definition models, and the theorems.
To run a check: `tlc -config MCWal.cfg MCWal`; to check the proofs:
`tlapm WalProofs.tla`, and so for each module of section 4.

## 1. The system

| Part | State | Operations | Modelled in |
|---|---|---|---|
| Group-commit log (`wal/log.go`) | buffer, batch counters, sticky failure, file, two channels, a condition variable | Append, Wait, Sync, flusher, Reopen, Close, Open | `Wal`, promise in `DurableLog` |
| Record framing and replay (`wal/record.go`, `wal/replay.go`) | file | Encode, Replay | `Framing`; `MCQueue` for what replay does to the index |
| Snapshot writer (`wal/replay.go`) | temporary file, the name it is renamed to | Append, Install, Abort | `Queue` (compaction) |
| Index and transitions (`queue/queue.go`, `message.go`, `heaps.go`, `codec.go`) | messages by id, ready/delayed/lease heaps, DLQ, dedup table, Seq counter | apply, applyEnqueue, applyAck, applyAttempt, place, detach, promoteDue, agePriorities, the comparators, the codec | `QueueIndex` |
| Queue operations (`queue/queue.go`) | the index, the mutex, `failed`, `closed` | Create, Load, Enqueue, Dequeue, Ack, Nack, Close | `Queue`, promise in `AtLeastOnce` |
| Background timer (`queue/queue.go`) | lastAge, lastPurge, timer, wake and done channels, compaction floor | run, tick, nextDeadlineLocked, signal | `RunLoop`; `Queue` for what tick does to the index and the log |
| Compaction (`queue/queue.go`) | the snapshot, the directory entry | Compact | `Queue`, `Wal` |
| Manager (`queue/manager.go`) | map of queues, its mutex | OpenManager, Create, Get, Close | `Manager` |
| Server process (`cmd/artie-queue/main.go`) | - | start, refusal, shutdown; verify, repair | `Manager`; `Operator` |
| HTTP API (`api/server.go`) | none of its own | create, enqueue, dequeue, ack, nack, compact | `Consumers`, `Manager`, `RunLoop` |
| Workers and producer (`demo/runner.go`, `demo/client.go`) | pool, board, counts | SetWorkers, Stop, workerLoop, Submit, the calls and their timeout | `Consumers` |
| Supervisor and lab (`demo/supervisor.go`, `demo/dashboard.go`) | `running`, the child | Start, Kill, flip, tear, Verify, Repair, EnsureQueues | `Operator` |

**How the parts interact.**  A request takes the queue's mutex, appends a record
to the log's buffer, applies the same transition to the index, releases the
mutex and only then waits for the log to say the record's batch is durable.  The
flusher goroutine takes the whole buffer as a batch, writes and fsyncs it, and
broadcasts.  The background loop promotes delayed messages, expires leases
(which it logs), ages priorities, purges dedup entries and starts compactions.
Compaction holds the queue's mutex while it waits for the log, writes a
snapshot, renames it over the log, fsyncs the directory and reopens the file.
At startup the manager replays every log through the same `apply` methods, cuts
a torn tail, passes over a log without a record, and refuses to start over a
damaged one.  A worker asks for a message over HTTP, works, and acks or nacks
it; its call may time out while the handler goes on.  The supervisor kills,
starts, damages, verifies and repairs on behalf of the dashboard.

**What is hard here.**  Requests, flusher, timer, compaction and shutdown
interleave; a crash can fall between any two steps, a write, fsync, rename or
directory fsync can fail, a power cut leaves pages of the tail missing, and a
message is visible to consumers before its own record is durable.  A lease can
end at any moment of its worker's job, and an answer can be lost after its
request took effect.  The hazards are listed one by one in `PROJECT.json`, with
the property that would catch each.

**What makes each part correct.**

* Log: nobody is told "durable" too early; order; after a failure nothing more
  is written; nobody sleeps forever; it implements the abstract log.
* Index: a message is in the one structure its state names.
* Queue: what was answered survives; what was acked stays gone; replay
  reproduces the index and never refuses a log a crash left; dedup holds over
  compaction and restart; deliveries come in the promised order and are bounded;
  it implements the abstract queue.
* Manager: a server that serves has all it ever confirmed; an interrupted create
  does not cost its name; a refused start is repaired without losing anything
  that was confirmed; its mutex is always given back.
* Consumers: a job is done once, none is lost, every job ends, a stopped worker
  leaves.
* Operator: damage is refused or repaired and never skipped; no step of a repair,
  failed or not, destroys the last copy of a message; logs change only under a dead server.

## 2. The modules

```
DurableLog      what the log promises
Wal             the group-commit log; implements DurableLog
  MCWal         instances for TLC
  WalProofs     theorems about Wal; Wal implements DurableLog
QueueIndex      index, transitions, comparators, codec (no state)
  QueueIndexProofs   lemmas about its operators
AtLeastOnce     what a queue promises
Queue           one queue over DurableLog's actions
  MCQueue       instances for TLC, properties about replay; Queue implements
                AtLeastOnce
  QueueProofs   theorems: types, one home; the steps sorted by what they do
  RecoveryProofs     theorems: deliveries, replay, answers, Seq, dedup
  PromiseProofs      theorems: replay reproduces the index, Queue implements
                     AtLeastOnce, the order of deliveries, aging
RunLoop         the background goroutine, its timer and channels
  RunLoopProofs theorems about RunLoop
Consumers       workers, producer and HTTP calls over AtLeastOnce's actions
  ConsumersProofs    theorems about AtLeastOnce and Consumers
Framing         a log file in units, and what Replay makes of it (no state)
Manager         the queues of a data directory and their server process
  Operator      the supervisor, the lab, verify and repair around that server
    OperatorProofs   theorems about Framing's Replay, Manager and Operator
```

### DurableLog
A sequence `log` with a durable prefix of length `durable`, and the sticky
`fatal`.  A crash keeps at least the durable prefix.  `Queue` instantiates it and
uses its actions; `Wal` refines it.  Composing the two by refinement instead of
by conjunction keeps the queue's state space small without giving up the
batches and goroutines of the log.

### Wal
One action per critical section of `Log.mu` and per system call.  `Append_` is
`Append` (the built-in operator has the name).  `Wait` and `Sync` are one test
of their loops, ending asleep or returned; a goroutine asleep goes on only after
a `Woken` (`cond.Broadcast`).  The flusher is `FlushTake` (the `select` and the
locked head of `flushOnce`), `FlushWrite`, `FlushSync` (the two calls of
`writeSync`) and `FlushPublish` (the locked tail).  Compaction is `SyncCall`,
`Sync`, then `Reopen` or, if it gives up before the rename, `SyncOnly`; shutdown
is `CloseMark`, `CloseDone`, `CloseFinish`; `Crash` and `Open` are the end of one
process and the start of the next.  A record is the number of its append; `file`
holds the whole records and `torn` says that a fragment follows.  A failed write
may leave any part of the batch.  `confirmed` is history.

### QueueIndex
Operators only, so that live requests and replay share them as they share the
methods in the code.  A heap is the set it holds.  The codec is modelled by what
it keeps: an ENQUEUE record has the dead flag, the attempts and no lease, and a
decoded message starts with its own priority.  `int` arithmetic wraps (`Wrap`,
with `IntMax` as a constant).

### Queue
A request's critical section is one action that appends and applies; it is then
in `waiting` until `Return` or `ReturnError` answers it.  `tick` is `TickStart`,
one `TickExpire` per lease, `TickFinish`, `TickAwait`; `Compact` is
`CompactBegin`, `CompactSync`, `CompactDirSync`, `CompactReopen`; both hold the
mutex `mu` over those steps.  `dir` says which file a restart would find at the
log's path: the old log, the snapshot, or, between the rename and the directory
fsync, either.  `DiskImages` is the set of file contents a crash can leave.
`Load` replays one record per step, and the clock goes on between them: `apply`
reads it for each record and `start` once more for `lastAge`.  `Synced` is the
condition `Sync` returns on; a tail that `Load` found in the file and did not
fsync is not part of it.

### RunLoop
`run` is a cycle of `Tick` (the locked section of `tick`), `Settle` (the wait for
the expiry records), `AutoCompact`, `Reset` (the timer) and one of `SelectWake`,
`SelectTimer`, `SelectDone`.  Requests are cut at their unlock: `Enqueue`,
`Dequeue` and `Nack` change the heaps, and only later `ReturnDurable` or
`ReturnLease` posts to the wake channel, or `RequestFails` returns without.  A
message is the heap it is in and the time left to its deadline.  All times are
countdowns, so the model has no clock and needs no bound on it; one unit is the
millisecond that `run` sleeps at least.  `Tick` is one step here because nobody
else can see the inside of a critical section; `Queue` has its parts.  `size` is
in records and a compaction leaves any length up to the old one.  `compacted`
and `raced` are history.

### AtLeastOnce
A message is unborn, waiting, leased, dead, acked or lost, with the attempts it
has used.  A change takes effect in one step and is confirmed in another (`sure`,
`gone`); `Fall` undoes what was not confirmed.  The refinement mapping of
`MCQueue` reads the index while the process is up, and only the log's records
while it is down, so that loading is a stutter: a replay that came out
different would be a step the abstract queue does not have.

### Consumers
A worker is where its loop is (`pc`) and the message it holds; a pool change is
`SetWorkers`, which starts and stops workers.  A call is a record in `calls`
that is sent, applied and answered in separate steps, each of them a step of
`AtLeastOnce` where the queue changes.  A client that gives up leaves its call an
orphan that still takes effect; a kill takes all calls with it.  A lease may end
at any time.  That any worker can ack any leased message is the code's own
behaviour: acks name a message and no lease.

`Submit` sends its jobs one after the other, all with the one dedup id it was
given.  An enqueue is answered 201 once its record is durable, or at once, with a
200, if it finds an earlier message in its window; both count as submitted, and a
batch that fails half way counts nothing.  So the runner's count is neither the
jobs it sent nor the messages it put, and `NoJobLost` says what it is.

### Framing and Manager
A log is a sequence of units, coarser than bytes: a header of two, the part under
the header checksum and the record checksum, and a payload.  `Replay` gives the
records, the verified length and the verdict: clean, torn or corrupt.
`OpenManager` is `StartServer`, one of `LoadRefuses`, `LoadSkips`, `LoadOpens`,
`LoadFails` per directory, and `Serving`.  `Create` is one step per system call,
with `Manager.mu` held from `CreateBegins` to the answer.  `synced` and `dirent`
say what of a log, and of the path to it, a power cut would leave; `Kill` leaves
any prefix past the fsync, `PowerCut` also damaged units there.

`queue.go:204-209` and `README.md:643-648` say that one interrupted create cannot
take every other queue down.  It can: a power cut that leaves META on disk in
length and not in content leaves no torn tail but a corrupt log, and
`LoadRefuses` it.  `RefusalRepairable` says what does hold: such a start is
refused over a log that `verify` names, and all that a client was ever told of,
in this queue and in every other, is in front of the damage.

### Operator
Extends `Manager`: the child is its process.  A request of the lab (`lab`) kills a
running child, waits for `Reap`, damages or repairs the log, starts the server
and creates its queues again, while the child boots, serves, creates, or dies by
itself.  `running` is what the supervisor believes.  A repair takes the offset
of the first failing log, as `parseOffset` does, and goes on as `RepairCopies`,
`RepairCuts` and `RepairSyncs`; at each of them it may fail or be killed
(`RepairFails`), while the rest of the system goes on.  The power stays on in
`Operator`: `copyFile` does not fsync the directory that its copy is in.

Definitions whose comment begins with "Faulty" are variants of the one that
follows, each with one plausible mistake; no specification uses them.  They show
that each property notices a mistake in the code it is about.

## 3. The runs

| Run | What happens in it | Properties |
|---|---|---|
| `wal` | 2 writers, 4 appends, 1 crash, failing disk, compaction, shutdown, with fairness | `TypeOK`, `ConfirmedDurable`, `WaitersLocated`, `CloseDrains`, `FailStop`, `ImplementsDurableLog`, `EveryCallReturns` |
| `queue_crash` | 2 messages, fifo, a compaction, 2 crashes or shutdowns anywhere, every disk operation may fail | `TypeOK`, `OneHome`, `SeqIncreases`, `ReplayReproducesIndex`, `ReplayNeverRefuses`, `AnswersSurvive`, `ImplementsAtLeastOnce` |
| `queue_order` | 2 messages, lifo, priorities, delays, batches, a dedup id with its window and purge, a compaction, a stop | `DeliveredIsBest`, `DedupHonoured` |
| `queue_time` | a message whose leases run out and race with requests and aging passes, a compaction, failing disk, with fairness | `DeliveryBound`, `ReplayReproducesIndex`, `AgingCurrent`, `RequestAnswered`, `LeaseEnds` |
| `run_loop` | timer and wake channel against every kind of request, requested compactions, a failing log and Close, with fairness | `TypeOK`, `NothingSleptPast`, `AutoCompactPaced`, `LeaseExpires`, `NoSpinAfterFailure`, `CloseReturns` |
| `consumers` | 2 workers, a job of 2 attempts, batches of up to 2 enqueues under one dedup id, a resized pool, 1 kill, 1 timeout, with fairness | `DoneForGood`, `NoJobLost`, `BoardIsPool`, `EveryJobEnds`, `StoppedWorkersExit` |
| `manager` | 2 queues created, loaded and written, kills, power cuts and disk faults without bound | `ServesAllConfirmed`, `NamesUsable`, `RefusalRepairable`, `CreateReturns` |
| `operator` | 2 queues, 2 damages, any number of kills, starts and repairs, which fail at any step, a child that dies by itself | `RefuseOrServe`, `NothingDestroyed`, `LabAsExplained`, `LogsChangedOffline` |

Four runs show where the code does not do what its documents or comments say:

* `duplicate_survives`: a duplicate is answered with the original's id before
  the original is durable; a crash then loses a message a producer was told is
  in the queue.
* `undercount`: an attempt count can come back short by two after one crash.
* `create_power_cut`: `wal.Open` fsyncs the queue's directory and nobody fsyncs
  the data directory.  Where a file system does not commit a directory's own
  entry with it (`ParentsFollow = FALSE`), a power cut takes a queue that was
  answered 201, and the server starts without it.
* `repair_wrong_queue`: repair of one queue cuts it at the offset that verify
  reported for another.

Besides, the boost of a message with nearly the largest priority overflows
(`queue.go:416`) and makes it the lowest; `QueueIndex` wraps as the code does, and
no run goes there.

**Bounds.**  `MaxAppends`, `MaxCrashes` (Wal), `MaxMsgs`, `MaxTime`,
`MaxWaiting`, `MaxDequeue`, `MaxCompactions`, `MaxStops` (Queue) cap counters in
guards.  Two writers and four appends give a batch being written, one being
collected and a third after a failure or a restart.  Two messages, two attempts
and one compaction give a compaction of an empty queue followed by an enqueue, a
dead message in a snapshot, and a nack of one message while the other is acked.
Two stops let the second crash take back what the first left half done: an ack
that was not confirmed and whose message came back, is acked again and lost
again. `RunLoop` has one message: aging, the purge and a second kind of request
give it several deadlines at once, and the proofs cover every set of messages.
Its `MaxSize` is where the log stops growing, and `MaxWaiting` the requests of a
kind between unlock and signal; intervals and delays of two, a lease of one and
an hour of three are enough for a new deadline to come before, with or after the
one the timer is set to. `Consumers` has one job: two workers, an orphan of a
timed-out call and the kill already let three parties act on it; `MaxWorkers`
caps the workers ever started, `MaxPool` the size asked for (32 in the code): 1,
so that the second worker takes the first one's place while that is still in its
loop, which is where the board could go wrong; `BoardTrue` proves it for every
pool.  `MaxBatch` (500 in the code) and `MaxSubmitted` are two: a new job and
its duplicate, in one batch or in two.  `Manager` has one record per queue
besides META, so a log is empty, META alone, or META and a message, whole, cut
or damaged at any unit.  `Operator`'s `MaxDamage` of two allows a second flip
that restores the first, a fragment behind a fragment, and both queues damaged.
Every run switches on only the dimensions its question is about; `Watch` selects
the history a run records.  `MaxTime = 0` is used where time plays no part, a
few ticks where windows, leases or aging do.  Deadlock is checked for
`operator`, where no request may get stuck.  Elsewhere it is not: a log that has
failed or closed, a fleet with all jobs done, and a model whose bounds are used
up, really stop.

**Fairness.**  Wal: every goroutine that can go on does (weak fairness of
`Wait`, `Sync`, the flusher's steps and the steps of a shutdown under way);
nobody has to append, crash, compact or shut down.  Queue: weak fairness for the
flusher and for the holder of the mutex; strong fairness for the actions that
first need the mutex, since Go's `sync.Mutex` hands over to a waiter that has
starved for a millisecond; `TickStart` because the run loop always sets its timer
to the next deadline, which is what `RunLoop` shows.  RunLoop: weak fairness for
the goroutine, for requests about to signal and for time; strong fairness for the
done case of the `select`, because Go chooses among ready cases at random.
Requests are not fair.  Consumers: the server is restarted, the handlers of the
workers' calls go on while it lives, every lease ends, and each worker goes on
with its loop; nobody has to submit, resize the pool or let a call time out, and
a worker may always choose to walk away.  Manager: a create that holds the mutex
goes on.  Operator states none and has no liveness property.

**Assumptions.**  A successful fsync makes the whole file durable.  In `Wal` and
`Queue` a crash keeps a prefix of what was written after it; `Manager` also has
damaged pages there.  A checksum notices every damage.  `ParentsFollow` is TRUE
in the passing runs of `Manager` and `Operator`.  The clock does not go back,
and it stands still while a running queue's mutex is held, but not during a
load; a deadline is forgotten when a message leaves the lease heap (nothing
reads it).  Message ids do not repeat.  The lab handles one request at a time,
and a data directory has one server.

## 4. The proofs

`WalProofs` proves, for every set of writers and every value of the bounds:

* `TypeCorrect`: `Spec => []TypeOK`.
* `Accounting`: `Spec => []WaitersLocated`.
* `Durability`: `Spec => []ConfirmedDurable`.
* `FailureIsFinal`: `Spec => FailStop`.

`ConfirmedDurable` is not inductive: that the record of a `Wait` about to return
nil is durable follows from the batch counters.  The inductive invariant is
`CommitInv == WaitersLocated /\ ConfirmedDurable`, with `TypeOK`.
`WaitersLocated` has two parts.  `BatchCount`: between `flushed` and `nextSeq`
lies one batch at most, the flusher's; a failure was in a batch already
published; there is none after a failure or while a compaction replaces the
file.  `Located`: a waiting record is in the buffer, with the flusher, in the
file or fsynced, according to its batch id.  A `Wait` returns nil either because
`wbatch <= flushed` with no failure, or because the failure came in a later
batch than its own; in both cases `Located` gives a fsynced record.  The lemma
`PlatterKept` says that no step takes away or changes a record of the fsynced
prefix; the cases that need work are a partial write, the crash and the cut of a
torn tail.  `FailureIsFinal` follows from `BatchCount`.  The only assumption is
`WalAssumption`, that the bounds are numbers.

`RunLoopProofs` proves, for every finite set of messages and every delay, lease,
interval and threshold (`RunLoopAssumption`):

* `LoopTypeCorrect`: `Spec => []TypeOK`.
* `NoDeadlineMissed`: `Spec => []NothingSleptPast`.
* `CompactionPaced`: `Spec => AutoCompactPaced`.

`NothingSleptPast` speaks of a goroutine that sleeps; to be inductive it needs
`DeadlineHeld`, the same fact about what `tick` returned on its way to the timer.
A request that adds a deadline in between is still to signal, or its token is in
the channel, and the loop takes it before it sleeps; a request that removes one
can only make the timer early; and time takes the same from a deadline and from
the timer (`AdvancePending`).  `PaceInv` ties the floor to the last snapshot, and
the trigger to a log that, until a compaction, only grows.

The last part of `WalProofs`, with the same assumption:

* `CloseLosesNothing`: `Spec => []CloseDrains`.
* `Refinement`: `Spec => ImplementsDurableLog`.

Both need `HandsInv`: what the flusher took is written before the next batch is
taken, unless the write failed.  The refinement mapping concatenates the file,
the flusher's batch and the buffer, so that a write and a publication are
stutters, an append is an append, and an fsync moves `durable`; a crash keeps
some prefix that includes the durable one.

`QueueIndexProofs` has no theorem of its own interest: its lemmas say, for each
operator of `QueueIndex` (`place`, `detach`, `promoteDue`, `agePriorities`, the
`apply` methods, the purge, the codec), the type of its result, what it leaves
alone, and that a consistent index stays one.  The next two modules cite them.

`QueueProofs` proves, for every configuration (`ConfigAssumption`, in the
main what the code's `Config` validation requires) and every bound (`QueueAssumption`):

* `QueueTypes`: `Spec => []TypeOK`.
* `OneHomeAlways`: `Spec => []OneHome`.

The inductive invariant is `TypeInv`.  Beyond types it has `ModeOK` (a snapshot
lies beside the log only while a compaction holds the mutex or after one failed
the queue), that log, snapshot, index and requests name only messages that were
born, and the consistency of the index.  `Classified` sorts the steps of `Next`
into ten kinds by what they do to log, index and answers: nothing (`Quiet`), a
delivery, an answer, an enqueue, an ack, an attempt, the rename and the reopen of
a compaction, a stop, a step of `Load`.  Every later invariant is proved kind by
kind, and the two dozen actions are expanded once.

`RecoveryProofs` proves, from the same assumptions:

* `DeliveriesBounded`: `Spec => []DeliveryBound`.
* `StartupNeverRefuses`: `Spec => []ReplayNeverRefuses`.
* `AnswersAreKept`: `Spec => []AnswersSurvive`.
* `SeqAlwaysIncreases`: `Spec => []SeqIncreases`.
* `DedupAlwaysHonoured`: `Spec => []DedupHonoured`.

*Deliveries.*  `DeliveryInv`: what has been handed out is within the attempts of
all earlier processes, plus the message's own attempts, plus one if it is leased;
and no record revives a message with all its attempts used (`Spared`).

*Replay.*  `Legal(s)` says of a log that no message is enqueued twice or after
its ack, and that every ACK, NACK and LEASE_EXPIRE names a message that is live
there.  `LiveInv`: the log is legal and so is a snapshot about to replace it, and
the index has the live messages of the log, or of its first `pos` records during
a load.  Prefixes of legal logs are legal, so every disk image is.  That a legal
log is not refused is proved of replay's recursive function without an
induction over logs: the least position at which replay's index would differ
from the live messages, or be refused, has a predecessor at which it does not.

*Answers.*  `AnswerInv`: behind each confirmed enqueue that nobody acked there is
a durable ENQUEUE record, behind each confirmed ack a durable ACK record or a log
that does not have the message any more, and a waiting request points at its
record or, after a compaction, is in the same position as one that was answered.

*Seq.*  `RecordInv` (records and index say of a message what it was born with),
`CountInv` (the counter is past all that the log counts, and a snapshot's META is
the counter), and `OrderInv`: every Seq that was answered is counted by a durable
record, also where the message is acked and compacted away.  So a restart goes on
above it, whichever file it finds.

*Dedup.*  `BirthInv` and `EntryInv` tie times and dedup entries to what messages
were born with, `WindowInv` says that the windows of one dedup id stand in the log
in the order they end in (so that replay, where the last one wins, keeps the
longest), `MemoryInv` that the table has every window that is still open, and
`GuardInv` that the durable log, and the snapshot that may take its place, guard
the open window of every answered message.  A second message can then only come
to be answered when the first one's window is over.

`PromiseProofs` goes on from there, with the same assumptions:

* `ReplayReproduces`: `Spec => []ReplayReproducesIndex`.
* `ImplementsPromise`: `Spec => ImplementsAtLeastOnce`.
* `BestComesFirst`: `Spec => DeliveredIsBest`, assuming
  `AgingInterval = 0 \/ ~PriorityEnabled`.
* `AgingKeepsUp`: `Spec => AgingCurrent`, assuming `NoOverflow`.

*Replay, again.*  What `Replay` returns for a log cannot be computed in a proof,
so `EchoInv` speaks of every run of it: `IndexRun(s, n, f, t)` says that `f` is a
sequence of indexes, empty at first, each made from the one before by the next
record of `s`, and `Echoes(s, n, i, t)` that whatever such a run ends in is alike
to `i`, that is, equal in all that a restart can tell.  A step that appends a
record and applies it to the index lengthens the run by one (`EnqueueReplayed`
and its like).  The step that needs work is `CompactSync`: the run of the new
snapshot is followed record by record, and the least record after which it is
not alike to that part of the index has a predecessor after which it is.  Dedup
entries need `ApartInv`: two messages in one log that share a dedup id are a
window apart, so that the entries a replay drops or overwrites are over.  At the
end the function that `Replay` itself uses is one such run.

*The refinement.*  `Seen` says what the mapping shows of a message in terms of
the index and the log; `SimInv` collects what a step needs to keep it in step with
the abstract queue.  `BuriedInv` (only a message without attempts left is dead,
also in a snapshot), `CapInv` (no log holds more attempts of a message than are
allowed), `AckedInv` (what counts as acked is gone from the log, and every ack
answered counts) come on top of `EchoInv` and of the invariants above.  The kinds
of `Classified` then map one by one: an answer to `Confirm`, a delivery to a
lease, a stop to `Fall`, and load and compaction to a stutter.

The first attempt at this proof failed, and so did TLC with a second stop: the
history variable `acked` of `Queue` kept an ack that a crash had undone, so that a
second crash could turn the message, in the abstract view, from lost to acked.
`Stops` now takes such acks back (`Unacked`), and `queue_crash` has two stops.

*Order and aging.*  The heap is ordered by a stored priority, so all depends on
how old that may be.  `Ranked` says of every operation of the index that a
message it leaves ready has the priority of now, or was ready before and was
left alone; `AgeRanked` that an aging pass leaves none alone.  Without aging the
priority never changes (`EvenInv`: what is stored is the message's own), and
`BestComesFirst` follows step by step along one `Dequeue`.  The assumption is
the run's, or that priorities are off: with aging the stored priorities lag
behind between two passes, and `DeliveredIsBest` is not what the code promises.
With aging, a message that comes to the heap gets the priority of that moment
and a pass gives every ready message that of its own, during a load too, whose
records are applied at different times; `AgeInv` has no stored priority ahead of
the clock, and `PriorityGrows` (the priority only grows with age) carries it
over the clock.  `NoOverflow`, that no priority is within `AgingMaxBoost` of the
largest int, is needed: `prio + boost` has no test for overflow, and beyond it
the property is false.

`ConsumersProofs` proves, for any jobs, workers, kills and timeouts
(`AttemptsAssumption`, `ConsumersAssumption`):

* `PromiseKept`: `ALOSpec => [](Kept /\ NotBack)`, about the abstract queue.
* `FleetTypes`: `Spec => []TypeOK`.
* `DoneOnce`: `Spec => []DoneForGood`.
* `JobsKept`: `Spec => []NoJobLost`.
* `BoardTrue`: `Spec => []BoardIsPool`.

`CallsInv` says that a client has one call at a time, of the kind its position
says.  `AckInv` adds that of all calls that ack a message, orphans included, at
most one took effect, and that it is counted only when its answer is read.
`PutInv` says that two enqueues under way never put the same message, that a 201
the producer has yet to read is of a confirmed message it has not counted, and
that its count, with the batch under way and the batches that failed, is the 201s
and the 200s it read.

`OperatorProofs` proves, for any number of queues, records and damages
(`ManagerAssumption`):

* `CreatedQueuesAreServed`: `Spec => []ServesAllConfirmed`, assuming
  `ParentsFollow \/ ~PowerCuts`; `create_power_cut` shows that it is false
  otherwise.
* `RefusalsAreRepairable`: `Spec => []RefusalRepairable`, with the same assumption.
* `InterruptedNamesAreFree`: `Spec => []NamesUsable`.
* `LabWorksOffline`: `OpSpec => LogsChangedOffline`.
* `NothingIsDestroyed`: `OpSpec => []NothingDestroyed`.
* `StartupDropsNothing`: `OpSpec => []RefuseOrServe`.
* `LabExplainsTheStart`: `OpSpec => []LabAsExplained`.

*What Replay makes of a file.*  The first part is about `Framing` alone.  A log
is `Straight` when it is whole records and the beginning of one more, `Shaped`
when it may have the beginnings that the lab adds besides, whatever of it is
damaged, and `Sound` when it is whole records without damage.  The lemmas say
what `Replay` does with each: it keeps every record that lies before the first
damage, a sound log is clean, a cut one is torn, damage of a unit that another
unit follows is corrupt, and what is verified stays verified when something is
appended, or lost, behind it.  Replay's recursive function is again reasoned
about by the least position at which it would differ.

*The directory.*  `Base(D)` has for each queue what is owed of it, records and
`META`, within the fsynced part of a log that replay does not pass over
(`Owing`), unless it is in `D[q]`; what a served log looks like (`Kept`); how far
a create has come (`Made`); and that what startup passes over is free for a create
(`Usable`).  It is proved once for every step of the server.  With nothing in `D`
it gives the first theorem, with everything the third, and with
`D = dropped` it is also kept by the steps of the lab (`OpInv`, with `LabInv`,
`RunningInv`, `RepairInv` and `CopyInv`), which gives `RefuseOrServe`.

*Refusals.*  `RefusalInv` adds to `Base(Nothing)` that what is owed of a queue is
`Firm`: within the fsynced prefix, with no damage in front of it.  A power cut
damages units past that prefix only, and an enqueue is confirmed by a server that
has loaded the log, damage and all past the prefix cut away.  That replay hands
over whatever is in front of the first damage (`Reaches`) then gives the theorem.

*Repair.*  `RepairInv`: a repair goes on only while no server runs, the offset it
was given stays that of `verify`, and when it comes to cut, all that the log holds
is in its copy.  This needs `RunningInv`, since a server that appended between
copy and cut would lose the record.  `CopyInv`: what was ever cut off is in a
copy.  With `Base(dropped)`, what is owed of a queue is in its log or was cut off,
so it is in the log or in a copy.

*The lab.*  `RunningInv == Alive => running`: the supervisor may believe a dead
child alive, never a live one dead.  `ClaimInv` is what the lab's explanation rests
on between the damage and the end of the start: a flipped log is `Barred` (corrupt,
fsynced, and not loaded yet by a server that is not up), a directory with a torn
tail is `Intact`.

Only model-checked are the liveness properties: fairness is out of the prover's
reach.  Every invariant and every action property of the runs is a theorem.

## 5. Not modelled

* The slice layout of the heaps and `Message.index`.
* Single bytes: which bits a checksum covers, an unknown record type and a length
  over `MaxRecordSize`.
* In `Queue`, when a tick or a compaction happens: there it may be any time, and
  `RunLoop` has the timer, the wake channel and the trigger.
* In `Manager`, group commit, compaction and acks: a queue there only grows.
* `Burst`, which is `Submit` from several goroutines; the switch of the target
  queue; rates and work times, which are free choices of the workers.
* Two requests of the lab at once, two servers on one data directory, and a
  stranger on the child's port: the code has no protection against the first
  two and its documents do not allow them.  That a request of the lab ends is
  checked as absence of deadlock only.
* Validation of requests and of queue names, flags, the page, the event stream,
  counters, statistics, `Peek`, `DLQ` and `List`, which change nothing; payloads.

## 6. Plan

1. (done) `DurableLog`, `Wal`, `QueueIndex`, `Queue`, `RunLoop`, the proofs about
   the log and the loop.
2. (done) `AtLeastOnce` and the refinement, `Consumers`, `Framing`, `Manager`,
   `Operator`.
3. (done) Proofs about the queue's types, heaps, replay, answers, Seq and dedup;
   `AtLeastOnce` and `Consumers`; the refinement of `DurableLog` by `Wal`;
   `NothingDestroyed`.
4. (done) Proofs that replay reproduces the index and that `Queue` implements
   `AtLeastOnce`; the order of deliveries and aging; what `Framing` makes of cut
   and damaged files, and with it the invariants of `Manager` and `Operator`.
5. (done) Duplicates in `Consumers`, a clock that goes on through loads, repair in
   its steps, and what a refused start costs.
6. Left: two requests of the lab at once.
