----------------------------- MODULE DurableLog -----------------------------
(***************************************************************************)
(* What the write-ahead log of internal/wal promises the queue above it,   *)
(* with the flusher, the batches, the condition variable and the file left *)
(* out.  The log is a sequence of records of which a prefix is durable.    *)
(* An append is answered "durable" only once the record lies in that       *)
(* prefix, and a crash may take any suffix that is not durable.            *)
(*                                                                         *)
(* module Wal shows that the group-commit log implements this              *)
(* specification; module Queue builds the queue on top of these actions.   *)
(***************************************************************************)
EXTENDS Naturals, Sequences

CONSTANT Record      \* what can be appended

VARIABLES
    log,        \* every record appended and not taken by a crash, in order
    durable,    \* length of the prefix of log that no crash can take
    fatal       \* the sticky write/fsync failure of Log.fatal

logVars == <<log, durable, fatal>>

LogTypeOK ==
    /\ log \in Seq(Record)
    /\ durable \in 0 .. Len(log)
    /\ fatal \in BOOLEAN

LogInit(initial) ==
    /\ log = initial
    /\ durable = Len(initial)
    /\ fatal = FALSE

-----------------------------------------------------------------------------
\* Log.Append: buffer a record; refused once the log has failed.
LogAppend(r) ==
    /\ ~fatal
    /\ log' = Append(log, r)
    /\ UNCHANGED <<durable, fatal>>

\* One write+fsync of the flusher: some more of the log becomes durable.
LogCommit ==
    /\ ~fatal
    /\ durable' \in (durable + 1) .. Len(log)
    /\ UNCHANGED <<log, fatal>>

\* A failed write, fsync or reopen: nothing more will ever become durable.
LogFail ==
    /\ ~fatal
    /\ fatal' = TRUE
    /\ UNCHANGED <<log, durable>>

\* The process or the machine stops; what was not durable may or may not be
\* in the file that the next process finds.
LogCrash ==
    /\ \E k \in durable .. Len(log) : log' = SubSeq(log, 1, k)
    /\ fatal' = FALSE
    /\ UNCHANGED durable

\* The next process opens the file.  Discarding a torn record fsyncs the
\* file, so the whole of it may become durable here.
LogOpen ==
    /\ durable' \in {durable, Len(log)}
    /\ fatal' = FALSE
    /\ UNCHANGED log

LogNext ==
    \/ \E r \in Record : LogAppend(r)
    \/ LogCommit
    \/ LogFail
    \/ LogCrash
    \/ LogOpen

LogSpec == LogInit(<<>>) /\ [][LogNext]_logVars

\* Log.Wait's two answers for the record at position i.  A failed reopen also
\* answers waiters whose record is durable already with the error.
WaitOK(i)  == i <= durable
WaitErr(i) == fatal
=============================================================================
