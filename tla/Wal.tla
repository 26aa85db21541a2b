-------------------------------- MODULE Wal --------------------------------
(***************************************************************************)
(* The group-commit log of internal/wal/log.go.                            *)
(*                                                                         *)
(* Writers append under Log.mu and then wait for the batch they were given.*)
(* One flusher goroutine takes the whole buffer as a batch, writes it,     *)
(* fsyncs it and publishes the outcome.  Compaction calls Sync and Reopen, *)
(* shutdown calls Close, and the process may be killed, or the machine     *)
(* lose power, between any two steps.                                      *)
(*                                                                         *)
(* A record is a number: the n-th record ever appended.  The file is the   *)
(* sequence of whole records it holds, plus a flag for a trailing fragment.*)
(* A mutex-protected section is one action; the condition variable is      *)
(* explicit, because a waiter that misses its broadcast sleeps forever.    *)
(* Log.size and the statistics, which nothing here reads, are left out.    *)
(***************************************************************************)
EXTENDS Naturals, Sequences

CONSTANTS
    Writer,        \* goroutines that append and wait
    MaxAppends,    \* bound: records ever appended
    MaxCrashes     \* bound: crashes

ASSUME WalAssumption ==
    /\ MaxAppends \in Nat
    /\ MaxCrashes \in Nat

VARIABLES
    file, torn,      \* the log file as the next reader would find it
    synced,          \* records of file that the last fsync covered
    fd,              \* Log.f is an open descriptor of that file
    up,              \* a process has the log open
    buf,             \* Log.buf: records of the batch being collected
    nextSeq,         \* Log.nextSeq: id of that batch
    flushed,         \* Log.flushed: highest batch whose outcome is published
    fatal, fatalSeq, \* Log.fatal, Log.fatalSeq
    closed,          \* Log.closed
    signal, done,    \* the two channels the flusher selects on
    flusher,         \* where the flusher is
    data, batch,     \* what flushOnce took: unwritten records, batch id
    ioErr,           \* err of writeSync
    last,            \* this flushOnce is the final drain
    wpc, wbatch, wrec, \* per writer: position, Append's answer, its record
    syncer,          \* the compaction that calls Sync and Reopen
    closer,          \* the shutdown that calls Close
    appended, crashes, \* counters behind the bounds
    confirmed        \* history: records whose Wait returned nil

disk == <<file, torn, synced>>
logFields == <<buf, nextSeq, flushed, fatal, fatalSeq, closed>>
chans == <<signal, done>>
flush == <<flusher, data, batch, ioErr, last>>
callers == <<wpc, wbatch, wrec, syncer, closer>>
history == <<appended, crashes, confirmed>>
vars == <<disk, fd, up, logFields, chans, flush, callers, history>>

Records == 1 .. MaxAppends

FlagsOK ==
    /\ torn \in BOOLEAN /\ fd \in BOOLEAN /\ up \in BOOLEAN
    /\ fatal \in BOOLEAN /\ closed \in BOOLEAN
    /\ signal \in BOOLEAN /\ done \in BOOLEAN
    /\ ioErr \in BOOLEAN /\ last \in BOOLEAN

FieldsOK ==
    /\ file \in Seq(Records) /\ synced \in 0 .. Len(file)
    /\ buf \in Seq(Records) /\ nextSeq \in Nat \ {0} /\ flushed \in Nat
    /\ fatalSeq \in Nat
    /\ flusher \in {"select", "write", "fsync", "publish", "exited"}
    /\ data \in Seq(Records) /\ batch \in Nat
    /\ wpc \in [Writer -> {"idle", "check", "asleep"}]
    /\ wbatch \in [Writer -> Nat]
    /\ wrec \in [Writer -> Records \cup {0}]
    /\ \A w \in Writer : wpc[w] # "idle" => wrec[w] \in Records
    /\ syncer \in {"idle", "check", "asleep", "synced"}
    /\ closer \in {"open", "marked", "draining", "closed"}
    /\ appended \in 0 .. MaxAppends /\ crashes \in 0 .. MaxCrashes
    /\ confirmed \in SUBSET Records

\* Every field has its type, and the fsynced prefix lies within the file.
TypeOK == FlagsOK /\ FieldsOK

-----------------------------------------------------------------------------
\* The fields wal.Open gives a new Log.
Fresh ==
    /\ buf' = <<>> /\ nextSeq' = 1 /\ flushed' = 0
    /\ fatal' = FALSE /\ fatalSeq' = 0 /\ closed' = FALSE
    /\ signal' = FALSE /\ done' = FALSE
    /\ flusher' = "select" /\ data' = <<>> /\ batch' = 0
    /\ ioErr' = FALSE /\ last' = FALSE

Init ==
    /\ file = <<>> /\ torn = FALSE /\ synced = 0 /\ fd = TRUE /\ up = TRUE
    /\ buf = <<>> /\ nextSeq = 1 /\ flushed = 0
    /\ fatal = FALSE /\ fatalSeq = 0 /\ closed = FALSE
    /\ signal = FALSE /\ done = FALSE
    /\ flusher = "select" /\ data = <<>> /\ batch = 0
    /\ ioErr = FALSE /\ last = FALSE
    /\ wpc = [w \in Writer |-> "idle"]
    /\ wbatch = [w \in Writer |-> 0] /\ wrec = [w \in Writer |-> 0]
    /\ syncer = "idle" /\ closer = "open"
    /\ appended = 0 /\ crashes = 0 /\ confirmed = {}

\* cond.Broadcast: every goroutine asleep in cond.Wait tests its loop again.
Woken(pc) == [w \in Writer |-> IF pc[w] = "asleep" THEN "check" ELSE pc[w]]
WokenSync(pc) == IF pc = "asleep" THEN "check" ELSE pc

\* Append.  Its error returns leave the log as it is, so they are stutters.
\* Compaction holds the queue's mutex from Sync to Reopen, under which every
\* Append happens.
Append_(w) ==
    /\ up /\ ~fatal /\ ~closed
    /\ wpc[w] = "idle" /\ syncer = "idle"
    /\ appended < MaxAppends
    /\ appended' = appended + 1
    /\ buf' = Append(buf, appended')
    /\ signal' = TRUE
    /\ wpc' = [wpc EXCEPT ![w] = "check"]
    /\ wbatch' = [wbatch EXCEPT ![w] = nextSeq]
    /\ wrec' = [wrec EXCEPT ![w] = appended']
    /\ UNCHANGED <<disk, fd, up, nextSeq, flushed, fatal, fatalSeq, closed,
                   done, flush, syncer, closer, crashes, confirmed>>

\* Faulty Wait: success is judged by the batch counter alone.
WaitIgnoringFatalSeq(w) ==
    /\ up /\ wpc[w] = "check"
    /\ IF flushed < wbatch[w] /\ ~fatal
       THEN wpc' = [wpc EXCEPT ![w] = "asleep"] /\ UNCHANGED confirmed
       ELSE /\ wpc' = [wpc EXCEPT ![w] = "idle"]
            /\ confirmed' = IF fatal /\ flushed < wbatch[w]
                            THEN confirmed ELSE confirmed \cup {wrec[w]}
    /\ UNCHANGED <<disk, fd, up, logFields, chans, flush, wbatch, wrec,
                   syncer, closer, appended, crashes>>

\* Wait: one test of its loop condition, ending in cond.Wait or in a return.
Wait(w) ==
    /\ up /\ wpc[w] = "check"
    /\ IF flushed < wbatch[w] /\ ~fatal
       THEN /\ wpc' = [wpc EXCEPT ![w] = "asleep"]
            /\ UNCHANGED confirmed
       ELSE /\ wpc' = [wpc EXCEPT ![w] = "idle"]
            /\ confirmed' = IF fatal /\ fatalSeq <= wbatch[w]
                            THEN confirmed
                            ELSE confirmed \cup {wrec[w]}
    /\ UNCHANGED <<disk, fd, up, logFields, chans, flush, wbatch, wrec,
                   syncer, closer, appended, crashes>>

-----------------------------------------------------------------------------
\* flusher's select, followed by the locked head of flushOnce, which returns
\* at once when nothing is to be done.
TakeUnless(final, nothing) ==
    /\ up /\ flusher = "select"
    /\ IF final THEN done ELSE signal
    /\ signal' = (signal /\ final)
    /\ last' = final
    /\ IF nothing
       THEN /\ flusher' = IF final THEN "exited" ELSE "select"
            /\ UNCHANGED <<buf, nextSeq, data, batch, ioErr>>
       ELSE /\ flusher' = "write"
            /\ data' = buf /\ batch' = nextSeq /\ ioErr' = FALSE
            /\ buf' = <<>> /\ nextSeq' = nextSeq + 1
    /\ UNCHANGED <<disk, fd, up, flushed, fatal, fatalSeq, closed, done,
                   callers, history>>

\* Faulty: flushOnce goes on after a failure.
FlushTakeAfterFailure(final) == TakeUnless(final, buf = <<>>)

\* Faulty: the flusher returns on done without the final drain.
FlushTakeNoDrain(final) == TakeUnless(final, final \/ buf = <<>> \/ fatal)

\* Faulty: flushOnce does not take the buffer away.
FlushTakeKeepsBuf(final) ==
    /\ up /\ flusher = "select" /\ signal /\ ~final
    /\ signal' = FALSE /\ last' = FALSE
    /\ ~fatal /\ buf # <<>>
    /\ flusher' = "write" /\ data' = buf /\ batch' = nextSeq /\ ioErr' = FALSE
    /\ nextSeq' = nextSeq + 1
    /\ UNCHANGED <<disk, fd, up, buf, flushed, fatal, fatalSeq, closed,
                   done, callers, history>>

FlushTake(final) == TakeUnless(final, buf = <<>> \/ fatal)

\* writeSync, the Write.  A failed write may leave any part of the batch
\* behind, including a fragment of a record.
FlushWrite ==
    /\ up /\ flusher = "write"
    /\ \/ /\ fd
          /\ file' = file \o data /\ data' = <<>>
          /\ flusher' = "fsync"
          /\ UNCHANGED <<torn, ioErr>>
       \/ /\ \E k \in 0 .. (IF fd THEN Len(data) ELSE 0) :
                /\ file' = file \o SubSeq(data, 1, k)
                /\ data' = SubSeq(data, k + 1, Len(data))
                /\ torn' \in {FALSE, fd /\ k < Len(data)}
          /\ ioErr' = TRUE /\ flusher' = "publish"
    /\ UNCHANGED <<synced, fd, up, logFields, chans, batch, last, callers,
                   history>>

\* Faulty writeSync: the fsync is skipped.
FlushSyncSkipped ==
    /\ up /\ flusher = "fsync"
    /\ flusher' = "publish"
    /\ UNCHANGED <<disk, fd, up, logFields, chans, data, batch, ioErr, last,
                   callers, history>>

\* writeSync, the Sync.
FlushSync ==
    /\ up /\ flusher = "fsync"
    /\ flusher' = "publish"
    /\ \/ synced' = Len(file) /\ UNCHANGED ioErr
       \/ ioErr' = TRUE /\ UNCHANGED synced
    /\ UNCHANGED <<file, torn, fd, up, logFields, chans, data, batch, last,
                   callers, history>>

\* Faulty tail of flushOnce: no Broadcast after a failure.
FlushPublishSilentFailure ==
    /\ up /\ flusher = "publish"
    /\ IF ioErr
       THEN /\ fatal' = TRUE /\ fatalSeq' = batch
            /\ UNCHANGED <<wpc, syncer>>
       ELSE /\ UNCHANGED <<fatal, fatalSeq>>
            /\ wpc' = Woken(wpc) /\ syncer' = WokenSync(syncer)
    /\ flushed' = batch
    /\ flusher' = IF last THEN "exited" ELSE "select"
    /\ UNCHANGED <<disk, fd, up, buf, nextSeq, closed, chans, data, batch,
                   ioErr, last, wbatch, wrec, closer, history>>

\* The locked tail of flushOnce.
FlushPublish ==
    /\ up /\ flusher = "publish"
    /\ IF ioErr
       THEN fatal' = TRUE /\ fatalSeq' = batch
       ELSE UNCHANGED <<fatal, fatalSeq>>
    /\ flushed' = batch
    /\ wpc' = Woken(wpc) /\ syncer' = WokenSync(syncer)
    /\ flusher' = IF last THEN "exited" ELSE "select"
    /\ UNCHANGED <<disk, fd, up, buf, nextSeq, closed, chans, data, batch,
                   ioErr, last, wbatch, wrec, closer, history>>

-----------------------------------------------------------------------------
\* Compact calls Sync with the queue's mutex held and the queue not closed.
SyncCall ==
    /\ up /\ ~closed /\ syncer = "idle"
    /\ syncer' = "check"
    /\ UNCHANGED <<disk, fd, up, logFields, chans, flush, wpc, wbatch, wrec,
                   closer, history>>

\* Sync: one round of its loop.
Sync ==
    /\ up /\ syncer = "check"
    /\ \/ fatal /\ syncer' = "idle" /\ UNCHANGED signal
       \/ /\ ~fatal /\ buf = <<>> /\ flushed + 1 = nextSeq
          /\ syncer' = "synced" /\ UNCHANGED signal
       \/ /\ ~fatal /\ ~(buf = <<>> /\ flushed + 1 = nextSeq)
          /\ signal' = (signal \/ buf # <<>>)
          /\ syncer' = "asleep"
    /\ UNCHANGED <<disk, fd, up, logFields, done, flush, wpc, wbatch, wrec,
                   closer, history>>

\* Compaction gives up before the rename, and returns without Reopen.
SyncOnly ==
    /\ up /\ syncer = "synced"
    /\ syncer' = "idle"
    /\ UNCHANGED <<disk, fd, up, logFields, chans, flush, wpc, wbatch, wrec,
                   closer, history>>

\* Reopen: close the old descriptor, open the snapshot now at the path.  The
\* snapshot stands for the records it replaces, so the file keeps them.
Reopen ==
    /\ up /\ syncer = "synced"
    /\ syncer' = "idle"
    /\ \/ fd' = TRUE /\ synced' = Len(file)
          /\ UNCHANGED <<fatal, fatalSeq, wpc>>
       \/ fd' = FALSE /\ UNCHANGED <<fatal, fatalSeq, wpc, synced>>
       \/ /\ fd' = FALSE /\ fatal' = TRUE /\ fatalSeq' = 0
          /\ wpc' = Woken(wpc)
          /\ UNCHANGED synced
    /\ UNCHANGED <<file, torn, up, buf, nextSeq, flushed, closed, chans,
                   flush, wbatch, wrec, closer, history>>

\* Close sets closed under the mutex, closes the done channel, waits for the
\* flusher to exit, and wakes whoever still waits.
CloseMark ==
    /\ up /\ closer = "open" /\ syncer = "idle"
    /\ closed' = TRUE /\ closer' = "marked"
    /\ UNCHANGED <<disk, fd, up, buf, nextSeq, flushed, fatal, fatalSeq,
                   chans, flush, wpc, wbatch, wrec, syncer, history>>

CloseDone ==
    /\ up /\ closer = "marked"
    /\ done' = TRUE /\ closer' = "draining"
    /\ UNCHANGED <<disk, fd, up, logFields, signal, flush, wpc, wbatch, wrec,
                   syncer, history>>

CloseFinish ==
    /\ up /\ closer = "draining" /\ flusher = "exited"
    /\ closer' = "closed" /\ fd' = FALSE
    /\ wpc' = Woken(wpc) /\ syncer' = WokenSync(syncer)
    /\ UNCHANGED <<disk, up, logFields, chans, flush, wbatch, wrec, history>>

-----------------------------------------------------------------------------
\* kill -9 or a power cut.  A kill keeps what was written, a power cut at
\* least what was fsynced; a write under way may have been carried out in part.
Crash ==
    /\ up /\ crashes < MaxCrashes
    /\ crashes' = crashes + 1
    /\ up' = FALSE /\ fd' = FALSE
    /\ LET written == IF flusher = "write" /\ fd THEN file \o data ELSE file IN
       \E k \in synced .. Len(written) :
          /\ file' = SubSeq(written, 1, k)
          /\ torn' \in {FALSE, k < Len(written) \/ torn}
    /\ wpc' = [w \in Writer |-> "idle"]
    /\ syncer' = "idle" /\ closer' = "open"
    /\ Fresh
    /\ UNCHANGED <<synced, wbatch, wrec, appended, confirmed>>

\* Faulty: the cut takes the last whole record along, and is not fsynced.
OpenCutsTooMuch ==
    /\ ~up
    /\ up' = TRUE /\ fd' = TRUE /\ torn' = FALSE
    /\ file' = IF torn /\ file # <<>> THEN SubSeq(file, 1, Len(file) - 1) ELSE file
    /\ Fresh
    /\ UNCHANGED <<synced, callers, history>>

\* The next process: Replay verifies the file and Open cuts a torn record off.
\* Only the cut fsyncs the file.
Open ==
    /\ ~up
    /\ up' = TRUE /\ fd' = TRUE /\ torn' = FALSE
    /\ synced' = IF torn THEN Len(file) ELSE synced
    /\ Fresh
    /\ UNCHANGED <<file, callers, history>>

Next ==
    \/ \E w \in Writer : Append_(w) \/ Wait(w)
    \/ \E final \in BOOLEAN : FlushTake(final)
    \/ FlushWrite \/ FlushSync \/ FlushPublish
    \/ SyncCall \/ Sync \/ SyncOnly \/ Reopen
    \/ CloseMark \/ CloseDone \/ CloseFinish
    \/ Crash \/ Open

Spec == Init /\ [][Next]_vars

\* Goroutines are scheduled, system calls return, and a blocked shutdown
\* goes on.  Nobody has to append, crash, or begin a compaction or a shutdown.
Fairness ==
    /\ \A w \in Writer : WF_vars(Wait(w))
    /\ \A final \in BOOLEAN : WF_vars(FlushTake(final))
    /\ WF_vars(FlushWrite) /\ WF_vars(FlushSync) /\ WF_vars(FlushPublish)
    /\ WF_vars(Sync) /\ WF_vars(SyncOnly \/ Reopen)
    /\ WF_vars(CloseDone) /\ WF_vars(CloseFinish)

FairSpec == Spec /\ Fairness

-----------------------------------------------------------------------------
(***************************************************************************)
(* Properties.                                                             *)
(***************************************************************************)
Holds(s, r) == \E i \in 1 .. Len(s) : s[i] = r
OnPlatter(r) == \E i \in 1 .. synced : file[i] = r
Busy == flusher \in {"write", "fsync", "publish"}

\* "No caller is ever told committed before the bytes are on the platter":
\* a record whose Wait returned nil lies in the fsynced prefix of the file,
\* and stays there through failures, compactions, crashes and restarts.
ConfirmedDurable == \A r \in confirmed : OnPlatter(r)

\* At most one batch is between the counters nextSeq and flushed, the one the
\* flusher holds; it holds none once the log has failed, and none while a
\* compaction that has been told "synced" replaces the file.
BatchCount ==
    /\ nextSeq = flushed + (IF Busy THEN 2 ELSE 1)
    /\ Busy => batch = flushed + 1 /\ ~fatal
    /\ fatal => fatalSeq <= flushed
    /\ syncer = "synced" => buf = <<>> /\ ~Busy /\ ~fatal
    /\ ~up => ~fatal /\ syncer = "idle" /\ \A w \in Writer : wpc[w] = "idle"

\* Where writer w's record is, told from the batch its Append returned.
Located(w) ==
    LET r == wrec[w]  b == wbatch[w] IN
    /\ b <= nextSeq
    /\ b = nextSeq => Holds(buf, r)
    /\ b = flushed + 1 /\ flusher = "write" => Holds(data, r)
    /\ b = flushed + 1 /\ flusher = "fsync" => Holds(file, r)
    /\ b = flushed + 1 /\ flusher = "publish" /\ ~ioErr => OnPlatter(r)
    /\ b <= flushed /\ ~(fatal /\ fatalSeq <= b) => OnPlatter(r)

\* The group-commit bookkeeping: the counters alone tell a waiter where its
\* record is, in the buffer, in the flusher's hands, or on the platter.
WaitersLocated ==
    BatchCount /\ \A w \in Writer : wpc[w] # "idle" => Located(w)

\* Close drains: once it has returned with no failure, everything appended by
\* this process is in the file and fsynced.
CloseDrains ==
    closer = "closed" /\ ~fatal =>
        /\ buf = <<>> /\ data = <<>>
        /\ nextSeq > 1 => synced = Len(file)

\* Fail stop: after a failed write or fsync this process writes nothing more,
\* so a torn record is never followed by a good one.
FailStop ==
    [][fatal /\ up' => fatal' /\ file' = file /\ synced' = synced]_vars

\* No call of the log sleeps forever, whatever the disk does.  A Wait returns
\* with its batch durable, with the failure, after a Close, or because the
\* process is gone; Sync, which waits with the queue's mutex held, and Close,
\* which waits for the flusher, return too.
EveryCallReturns ==
    /\ \A w \in Writer : wpc[w] = "check" ~> wpc[w] = "idle"
    /\ syncer = "check" ~> syncer \in {"idle", "synced"}
    /\ closer = "marked" ~> closer \in {"closed", "open"}

\* The group-commit log implements the abstract one.
Durable == INSTANCE DurableLog WITH
    Record <- Records,
    log <- file \o data \o buf,
    durable <- synced,
    fatal <- fatal

\* Every step of the flusher, the callers and the crash is a step of the
\* abstract log or leaves it alone.
ImplementsDurableLog == Durable!LogSpec
=============================================================================
