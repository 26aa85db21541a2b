----------------------------- MODULE WalProofs -----------------------------
(***************************************************************************)
(* Proofs about the group-commit log, for every set of writers and every   *)
(* bound: type correctness, that a record whose Wait returned nil is in    *)
(* the fsynced part of the file, that the log implements the one of module *)
(* DurableLog, and that Close drains it.                                   *)
(***************************************************************************)
EXTENDS Wal, SequenceTheorems, TLAPS

\* A file of whole records stays one when records are added or cut off.
LEMMA ConcatType ==
    ASSUME NEW S, NEW s \in Seq(S), NEW t \in Seq(S)
    PROVE  /\ s \o t \in Seq(S)
           /\ Len(s \o t) = Len(s) + Len(t)
           /\ \A i \in 1 .. Len(s) : (s \o t)[i] = s[i]
           /\ \A i \in 1 .. Len(t) : (s \o t)[Len(s) + i] = t[i]
  OBVIOUS

LEMMA PrefixType ==
    ASSUME NEW S, NEW s \in Seq(S), NEW k \in 0 .. Len(s)
    PROVE  /\ SubSeq(s, 1, k) \in Seq(S)
           /\ Len(SubSeq(s, 1, k)) = k
           /\ \A i \in 1 .. k : SubSeq(s, 1, k)[i] = s[i]
  OBVIOUS

LEMMA SuffixType ==
    ASSUME NEW S, NEW s \in Seq(S), NEW k \in 0 .. Len(s)
    PROVE  SubSeq(s, k + 1, Len(s)) \in Seq(S)
  OBVIOUS

LEMMA EmptyType ==
    ASSUME NEW S
    PROVE  <<>> \in Seq(S) /\ Len(<<>>) = 0
  OBVIOUS

-----------------------------------------------------------------------------
\* Init of Wal: Open leaves a log of the right type.
LEMMA InitType == Init => TypeOK
  <1>1. Init => FlagsOK
      BY DEF Init, FlagsOK
  <1>2. Init => FieldsOK
      BY WalAssumption DEF Init, FieldsOK
  <1>3. QED
      BY <1>1, <1>2 DEF TypeOK

\* Every step of the writers, the flusher, the compaction, the shutdown, the
\* crash and the restart keeps the types; synced stays within the file.
LEMMA NextType == TypeOK /\ [Next]_vars => TypeOK'
  <1> SUFFICES ASSUME FlagsOK, FieldsOK, [Next]_vars
               PROVE  FlagsOK' /\ FieldsOK'
      BY DEF TypeOK
  <1> USE WalAssumption DEF Records
  <1>1. ASSUME NEW w \in Writer, Append_(w)
        PROVE  FlagsOK' /\ FieldsOK'
    <2>1. FlagsOK'
        BY <1>1 DEF FlagsOK, Append_, disk, flush
    <2>2. FieldsOK'
        BY <1>1 DEF FieldsOK, Append_, disk, flush
    <2>3. QED
        BY <2>1, <2>2
  <1>2. ASSUME NEW w \in Writer, Wait(w)
        PROVE  FlagsOK' /\ FieldsOK'
    <2>1. FlagsOK'
        BY <1>2 DEF FlagsOK, Wait, disk, logFields, chans, flush
    <2>2. FieldsOK'
        BY <1>2 DEF FieldsOK, Wait, disk, logFields, chans, flush
    <2>3. QED
        BY <2>1, <2>2
  <1>3. ASSUME NEW final \in BOOLEAN, FlushTake(final)
        PROVE  FlagsOK' /\ FieldsOK'
    <2>1. FlagsOK'
        BY <1>3 DEF FlagsOK, FlushTake, TakeUnless, disk, callers, history
    <2>2. FieldsOK'
      <3>1. CASE buf = <<>> \/ fatal
          BY <1>3, <3>1 DEF FieldsOK, FlushTake, TakeUnless, disk, callers, history
      <3>2. CASE ~(buf = <<>> \/ fatal)
          BY <1>3, <3>2 DEF FieldsOK, FlushTake, TakeUnless, disk, callers, history
      <3>3. QED
          BY <3>1, <3>2
    <2>3. QED
        BY <2>1, <2>2
  <1>4. CASE FlushWrite
    <2>1. FlagsOK'
        BY <1>4 DEF FlagsOK, FlushWrite, logFields, chans, callers, history
    <2>2. FieldsOK'
      <3>1. /\ file' \in Seq(Records) /\ data' \in Seq(Records)
            /\ Len(file') >= Len(file)
            /\ flusher' \in {"fsync", "publish"}
        <4>1. CASE file' = file \o data /\ data' = <<>> /\ flusher' = "fsync"
            BY <4>1, ConcatType DEF FieldsOK
        <4>2. ASSUME NEW k \in 0 .. Len(data),
                     file' = file \o SubSeq(data, 1, k),
                     data' = SubSeq(data, k + 1, Len(data)),
                     flusher' = "publish"
              PROVE  /\ file' \in Seq(Records) /\ data' \in Seq(Records)
                     /\ Len(file') >= Len(file)
                     /\ flusher' \in {"fsync", "publish"}
          <5>1. SubSeq(data, 1, k) \in Seq(Records) /\ data' \in Seq(Records)
              BY <4>2, PrefixType, SuffixType DEF FieldsOK
          <5>2. QED
              BY <4>2, <5>1, ConcatType DEF FieldsOK
        <4>3. \/ file' = file \o data /\ data' = <<>> /\ flusher' = "fsync"
              \/ /\ \E k \in 0 .. (IF fd THEN Len(data) ELSE 0) :
                       /\ file' = file \o SubSeq(data, 1, k)
                       /\ data' = SubSeq(data, k + 1, Len(data))
                 /\ flusher' = "publish"
            BY <1>4, Zenon DEF FlushWrite
        <4>4. 0 .. (IF fd THEN Len(data) ELSE 0) \subseteq 0 .. Len(data)
            BY DEF FieldsOK
        <4>5. QED
            BY <4>1, <4>2, <4>3, <4>4, Zenon
      <3>2. QED
          BY <1>4, <3>1
          DEF FieldsOK, FlushWrite, logFields, chans, callers, history
    <2>3. QED
        BY <2>1, <2>2
  <1>5. CASE FlushSync
    <2>1. FlagsOK'
        BY <1>5 DEF FlagsOK, FlushSync, logFields, chans, callers, history
    <2>2. FieldsOK'
        BY <1>5 DEF FieldsOK, FlushSync, logFields, chans, callers, history
    <2>3. QED
        BY <2>1, <2>2
  <1>6. CASE FlushPublish
    <2>1. FlagsOK'
        BY <1>6 DEF FlagsOK, FlushPublish, Woken, WokenSync, disk, chans, history
    <2>2. FieldsOK'
        BY <1>6 DEF FieldsOK, FlushPublish, Woken, WokenSync, disk, chans, history
    <2>3. QED
        BY <2>1, <2>2
  <1>7. CASE SyncCall
    <2>1. FlagsOK'
        BY <1>7 DEF FlagsOK, SyncCall, disk, logFields, chans, flush, history
    <2>2. FieldsOK'
        BY <1>7 DEF FieldsOK, SyncCall, disk, logFields, chans, flush, history
    <2>3. QED
        BY <2>1, <2>2
  <1>8. CASE Sync
    <2>1. FlagsOK'
        BY <1>8 DEF FlagsOK, Sync, disk, logFields, flush, history
    <2>2. FieldsOK'
        BY <1>8 DEF FieldsOK, Sync, disk, logFields, flush, history
    <2>3. QED
        BY <2>1, <2>2
  <1>9. CASE SyncOnly
    <2>1. FlagsOK'
        BY <1>9 DEF FlagsOK, SyncOnly, disk, logFields, chans, flush, history
    <2>2. FieldsOK'
        BY <1>9 DEF FieldsOK, SyncOnly, disk, logFields, chans, flush, history
    <2>3. QED
        BY <2>1, <2>2
  <1>10. CASE Reopen
    <2>1. FlagsOK'
        BY <1>10 DEF FlagsOK, Reopen, Woken, chans, flush, history
    <2>2. FieldsOK'
        BY <1>10 DEF FieldsOK, Reopen, Woken, chans, flush, history
    <2>3. QED
        BY <2>1, <2>2
  <1>11. CASE CloseMark
    <2>1. FlagsOK'
        BY <1>11 DEF FlagsOK, CloseMark, disk, chans, flush, history
    <2>2. FieldsOK'
        BY <1>11 DEF FieldsOK, CloseMark, disk, chans, flush, history
    <2>3. QED
        BY <2>1, <2>2
  <1>12. CASE CloseDone
    <2>1. FlagsOK'
        BY <1>12 DEF FlagsOK, CloseDone, disk, logFields, flush, history
    <2>2. FieldsOK'
        BY <1>12 DEF FieldsOK, CloseDone, disk, logFields, flush, history
    <2>3. QED
        BY <2>1, <2>2
  <1>13. CASE CloseFinish
    <2>1. FlagsOK'
        BY <1>13 DEF FlagsOK, CloseFinish, Woken, WokenSync, disk, logFields, chans, flush,
                             history
    <2>2. FieldsOK'
        BY <1>13 DEF FieldsOK, CloseFinish, Woken, WokenSync, disk, logFields, chans, flush,
                             history
    <2>3. QED
        BY <2>1, <2>2
  <1>14. CASE Crash
    <2>1. FlagsOK'
        BY <1>14 DEF FlagsOK, Crash, Fresh
    <2>2. FieldsOK'
      <3> DEFINE written == IF flusher = "write" /\ fd THEN file \o data ELSE file
      <3>1. written \in Seq(Records) /\ Len(written) >= Len(file)
        <4>1. /\ file \o data \in Seq(Records) /\ file \in Seq(Records)
              /\ Len(file \o data) >= Len(file) /\ Len(file) >= Len(file)
            BY ConcatType DEF FieldsOK
        <4>2. written = file \o data \/ written = file
            BY Zenon
        <4>3. QED
            BY <4>1, <4>2, Zenon
      <3>2. PICK k \in synced .. Len(written) : file' = SubSeq(written, 1, k)
          BY <1>14 DEF Crash
      <3>3. file' \in Seq(Records) /\ Len(file') >= synced
        <4>1. k \in 0 .. Len(written) /\ k >= synced
            BY <3>1, <3>2 DEF FieldsOK
        <4>2. QED
            BY <3>1, <3>2, <4>1, PrefixType
      <3>4. /\ synced' = synced /\ wbatch' = wbatch /\ wrec' = wrec
            /\ appended' = appended /\ confirmed' = confirmed
            /\ crashes' \in 0 .. MaxCrashes
            /\ wpc' = [w \in Writer |-> "idle"]
            /\ syncer' = "idle" /\ closer' = "open"
          BY <1>14 DEF FieldsOK, Crash
      <3>5. /\ buf' = <<>> /\ nextSeq' = 1 /\ flushed' = 0
            /\ fatalSeq' = 0 /\ flusher' = "select"
            /\ data' = <<>> /\ batch' = 0
          BY <1>14, Zenon DEF Crash, Fresh
      <3>6. QED
          BY <3>3, <3>4, <3>5 DEF FieldsOK
    <2>3. QED
        BY <2>1, <2>2
  <1>15. CASE Open
    <2>1. FlagsOK'
        BY <1>15 DEF FlagsOK, Open, Fresh, callers, history
    <2>2. FieldsOK'
        BY <1>15 DEF FieldsOK, Open, Fresh, callers, history
    <2>3. QED
        BY <2>1, <2>2
  <1>16. CASE UNCHANGED vars
    <2>1. FlagsOK'
        BY <1>16 DEF FlagsOK, vars, disk, logFields, chans, flush, callers, history
    <2>2. FieldsOK'
        BY <1>16 DEF FieldsOK, vars, disk, logFields, chans, flush, callers, history
    <2>3. QED
        BY <2>1, <2>2
  <1>17. QED
      BY <1>1, <1>2, <1>3, <1>4, <1>5, <1>6, <1>7, <1>8, <1>9, <1>10, <1>11,
         <1>12, <1>13, <1>14, <1>15, <1>16 DEF Next

\* Type correctness of the log, whatever the disk, the callers and crashes do.
THEOREM TypeCorrect == Spec => []TypeOK
  BY InitType, NextType, PTL DEF Spec

-----------------------------------------------------------------------------
(***************************************************************************)
(* ConfirmedDurable.  It is not inductive: that a Wait about to return nil *)
(* returns for a durable record follows from where the batch counters say  *)
(* the record is, which is WaitersLocated.  The two together are.          *)
(***************************************************************************)
CommitInv == WaitersLocated /\ ConfirmedDurable

\* No step, a failed write, a compaction, a crash or a torn record's removal
\* included, takes away or changes a record of the fsynced prefix.
LEMMA PlatterKept ==
    ASSUME TypeOK, [Next]_vars
    PROVE  \A i \in 1 .. synced : i \in 1 .. synced' /\ file'[i] = file[i]
  <1> USE DEF TypeOK, FieldsOK
  <1>1. CASE FlushWrite
    <2>1. synced' = synced
        BY <1>1 DEF FlushWrite
    <2>2. CASE file' = file \o data
        BY <2>1, <2>2, ConcatType
    <2>3. ASSUME NEW k \in 0 .. Len(data), file' = file \o SubSeq(data, 1, k)
          PROVE  \A i \in 1 .. synced : file'[i] = file[i]
      <3>1. SubSeq(data, 1, k) \in Seq(Records)
          BY PrefixType
      <3>2. QED
          BY <2>3, <3>1, ConcatType
    <2>4. \/ file' = file \o data
          \/ \E k \in 0 .. (IF fd THEN Len(data) ELSE 0) :
                file' = file \o SubSeq(data, 1, k)
        BY <1>1, Zenon DEF FlushWrite
    <2>5. 0 .. (IF fd THEN Len(data) ELSE 0) \subseteq 0 .. Len(data)
        OBVIOUS
    <2>6. \A i \in 1 .. synced : file'[i] = file[i]
        BY <2>2, <2>3, <2>4, <2>5, Zenon
    <2>7. QED
        BY <2>1, <2>6
  <1>2. CASE Crash
    <2> DEFINE written == IF flusher = "write" /\ fd THEN file \o data ELSE file
    <2>1. /\ written \in Seq(Records) /\ Len(written) >= Len(file)
          /\ \A i \in 1 .. Len(file) : written[i] = file[i]
      <3>1. /\ file \o data \in Seq(Records) /\ file \in Seq(Records)
            /\ Len(file \o data) >= Len(file) /\ Len(file) >= Len(file)
            /\ \A i \in 1 .. Len(file) : (file \o data)[i] = file[i]
          BY ConcatType
      <3>2. written = file \o data \/ written = file
          BY Zenon
      <3>3. QED
          BY <3>1, <3>2, Zenon
    <2>2. PICK k \in synced .. Len(written) : file' = SubSeq(written, 1, k)
        BY <1>2 DEF Crash
    <2>3. synced' = synced
        BY <1>2 DEF Crash
    <2> HIDE DEF written
    <2>4. k \in 0 .. Len(written) /\ k >= synced
        BY <2>1, <2>2
    <2>5. \A i \in 1 .. k : file'[i] = written[i]
        BY <2>1, <2>2, <2>4, PrefixType
    <2>6. QED
        BY <2>1, <2>3, <2>4, <2>5
  <1>3. CASE FlushSync
      BY <1>3 DEF FlushSync
  <1>4. CASE Reopen
      BY <1>4 DEF Reopen
  <1>5. CASE Open
      BY <1>5 DEF Open
  <1>6. CASE UNCHANGED <<file, synced>>
      BY <1>6
  <1>7. \/ FlushWrite \/ Crash \/ FlushSync \/ Reopen \/ Open
        \/ UNCHANGED <<file, synced>>
    <2>1. CASE UNCHANGED vars
        BY <2>1, Zenon DEF vars, disk
    <2>2. CASE Next
        BY <2>2, Zenon DEF Next, Append_, Wait, FlushTake, TakeUnless, FlushPublish, SyncCall,
           Sync, SyncOnly, CloseMark, CloseDone, CloseFinish, disk
    <2>3. QED
        BY <2>1, <2>2
  <1>8. QED
      BY <1>1, <1>2, <1>3, <1>4, <1>5, <1>6, <1>7

\* Hence a record on the platter stays there.
LEMMA PlatterStays ==
    ASSUME TypeOK, [Next]_vars, NEW r, OnPlatter(r)
    PROVE  \E i \in 1 .. synced' : file'[i] = r
  BY PlatterKept, Zenon DEF OnPlatter

LEMMA InitCommit == Init => CommitInv
  BY DEF Init, CommitInv, WaitersLocated, BatchCount, Located, Busy, ConfirmedDurable

\* The counters: one batch at most is in flight, and none is after a failure.
LEMMA NextBatchCount ==
    ASSUME TypeOK, BatchCount, [Next]_vars
    PROVE  BatchCount'
  <1> USE DEF TypeOK, FieldsOK, BatchCount, Busy
  <1>1. ASSUME NEW w \in Writer, Append_(w) PROVE BatchCount'
      BY <1>1 DEF Append_, flush
  <1>2. ASSUME NEW w \in Writer, Wait(w) PROVE BatchCount'
      BY <1>2 DEF Wait, logFields, flush
  <1>3. ASSUME NEW final \in BOOLEAN, FlushTake(final) PROVE BatchCount'
      BY <1>3 DEF FlushTake, TakeUnless, callers
  <1>4. CASE FlushWrite
      BY <1>4 DEF FlushWrite, logFields, callers
  <1>5. CASE FlushSync
      BY <1>5 DEF FlushSync, logFields, callers
  <1>6. CASE FlushPublish
      BY <1>6 DEF FlushPublish, Woken, WokenSync
  <1>7. CASE SyncCall
      BY <1>7 DEF SyncCall, logFields, flush
  <1>8. CASE Sync
      BY <1>8 DEF Sync, logFields, flush
  <1>9. CASE SyncOnly
      BY <1>9 DEF SyncOnly, logFields, flush
  <1>10. CASE Reopen
      BY <1>10 DEF Reopen, Woken, flush
  <1>11. CASE CloseMark
      BY <1>11 DEF CloseMark, flush
  <1>12. CASE CloseDone
      BY <1>12 DEF CloseDone, logFields, flush
  <1>13. CASE CloseFinish
      BY <1>13 DEF CloseFinish, Woken, WokenSync, logFields, flush
  <1>14. CASE Crash
      BY <1>14 DEF Crash, Fresh
  <1>15. CASE Open
      BY <1>15 DEF Open, Fresh, callers
  <1>16. CASE UNCHANGED vars
      BY <1>16 DEF vars, logFields, flush, callers
  <1>17. QED
      BY <1>1, <1>2, <1>3, <1>4, <1>5, <1>6, <1>7, <1>8, <1>9, <1>10, <1>11,
         <1>12, <1>13, <1>14, <1>15, <1>16 DEF Next

\* A step that leaves a waiter's answers and the counters alone, forgets no
\* failure, and takes nothing from the buffer, the flusher's hands or the file,
\* leaves it located.
LEMMA LocatedStays ==
    ASSUME TypeOK, [Next]_vars, NEW w \in Writer, Located(w),
           wrec'[w] = wrec[w], wbatch'[w] = wbatch[w],
           UNCHANGED <<nextSeq, flushed, flusher, data, ioErr, file>>,
           fatal /\ fatalSeq <= wbatch[w] => fatal' /\ fatalSeq' <= wbatch[w],
           Holds(buf, wrec[w]) => Holds(buf, wrec[w])'
    PROVE  Located(w)'
  <1>1. OnPlatter(wrec[w]) => OnPlatter(wrec[w])'
      BY PlatterStays DEF OnPlatter
  <1>2. QED
      BY <1>1 DEF Located, Holds

\* Each step either leaves a waiter's record located or moves it on: from the
\* buffer to the flusher, to the file, to the fsynced prefix.
LEMMA NextLocated ==
    ASSUME TypeOK, BatchCount, [Next]_vars, NEW w \in Writer,
           wpc[w] # "idle" => Located(w), wpc'[w] # "idle"
    PROVE  Located(w)'
  <1> USE DEF TypeOK, FieldsOK
  <1>1. ASSUME NEW v \in Writer, Append_(v) PROVE Located(w)'
    <2>1. CASE v = w
      <3>1. /\ wrec'[w] = appended' /\ wbatch'[w] = nextSeq
            /\ buf' = Append(buf, appended')
            /\ UNCHANGED <<nextSeq, flushed, flusher>>
          BY <1>1, <2>1 DEF Append_, flush
      <3>2. Holds(buf, wrec[w])'
        <4>1. /\ Len(buf') = Len(buf) + 1 /\ buf'[Len(buf) + 1] = appended'
              /\ Len(buf) \in Nat
            BY <3>1
        <4>2. Len(buf) + 1 \in 1 .. Len(buf')
            BY <4>1
        <4>3. QED
            BY <3>1, <4>1, <4>2, Zenon DEF Holds
      <3>3. nextSeq > flushed /\ (flusher \in {"write", "fsync", "publish"} => nextSeq = flushed + 2)
          BY DEF BatchCount, Busy
      <3>4. QED
          BY <3>1, <3>2, <3>3 DEF Located, Holds
    <2>2. CASE v # w
      <3>1. /\ wrec'[w] = wrec[w] /\ wbatch'[w] = wbatch[w] /\ wpc'[w] = wpc[w]
            /\ UNCHANGED <<nextSeq, flushed, fatal, fatalSeq, flusher, data, ioErr, file>>
          BY <1>1, <2>2 DEF Append_, flush, disk
      <3>2. Holds(buf, wrec[w]) => Holds(buf, wrec[w])'
        <4>1. appended' \in Nat /\ buf' = Append(buf, appended')
            BY <1>1 DEF Append_
        <4>2. QED
            BY <3>1, <4>1 DEF Holds
      <3>3. QED
          BY <3>1, <3>2, LocatedStays
    <2>3. QED
        BY <2>1, <2>2
  <1>2. CASE UNCHANGED <<nextSeq, flushed, fatal, fatalSeq, flusher, data, ioErr,
                         file, buf, wrec, wbatch>>
             /\ wpc[w] # "idle"
      BY <1>2, LocatedStays DEF Holds
  <1>3. ASSUME NEW v \in Writer, Wait(v) PROVE Located(w)'
      BY <1>2, <1>3 DEF Wait, disk, logFields, flush
  <1>4. CASE SyncCall \/ Sync \/ SyncOnly \/ CloseMark \/ CloseDone \/ CloseFinish
      BY <1>2, <1>4 DEF SyncCall, Sync, SyncOnly, CloseMark, CloseDone, CloseFinish, Woken,
         disk, logFields, flush
  <1>5. CASE UNCHANGED vars
      BY <1>2, <1>5 DEF vars, disk, logFields, flush, callers
  <1>6. CASE Reopen
    <2>1. /\ UNCHANGED <<nextSeq, flushed, flusher, data, ioErr, file, buf, wrec, wbatch>>
          /\ wpc[w] # "idle"
        BY <1>6 DEF Reopen, Woken, flush
    <2>2. fatal /\ fatalSeq <= wbatch[w] => fatal' /\ fatalSeq' <= wbatch[w]
      <3>1. UNCHANGED <<fatal, fatalSeq>> \/ (fatal' /\ fatalSeq' = 0)
          BY <1>6, Zenon DEF Reopen
      <3>2. wbatch[w] \in Nat
          OBVIOUS
      <3>3. CASE UNCHANGED <<fatal, fatalSeq>>
          BY <3>3
      <3>4. CASE fatal' /\ fatalSeq' = 0
          BY <3>2, <3>4
      <3>5. QED
          BY <3>1, <3>3, <3>4
    <2>3. QED
        BY <2>1, <2>2, LocatedStays DEF Holds
  <1>7. ASSUME NEW final \in BOOLEAN, FlushTake(final) PROVE Located(w)'
    <2>1. /\ UNCHANGED <<flushed, fatal, fatalSeq, file, synced, wrec, wbatch>>
          /\ wpc[w] # "idle" /\ flusher = "select"
        BY <1>7 DEF FlushTake, TakeUnless, disk, callers
    <2>2. CASE buf = <<>> \/ fatal
      <3>1. /\ UNCHANGED <<nextSeq, buf, data, ioErr>>
            /\ flusher' \in {"select", "exited"}
          BY <1>7, <2>2 DEF FlushTake, TakeUnless
      <3>2. QED
          BY <2>1, <3>1 DEF Located, Holds, OnPlatter
    <2>3. CASE ~(buf = <<>> \/ fatal)
      <3>1. data' = buf /\ nextSeq' = nextSeq + 1 /\ flusher' = "write"
          BY <1>7, <2>3 DEF FlushTake, TakeUnless
      <3>2. nextSeq = flushed + 1
          BY <2>1 DEF BatchCount, Busy
      <3>3. QED
          BY <2>1, <3>1, <3>2 DEF Located, Holds, OnPlatter
    <2>4. QED
        BY <2>2, <2>3
  <1>8. CASE FlushWrite
    <2>1. /\ UNCHANGED <<nextSeq, flushed, fatal, fatalSeq, buf, wrec, wbatch>>
          /\ wpc[w] # "idle" /\ flusher = "write"
        BY <1>8 DEF FlushWrite, logFields, callers
    <2>2. OnPlatter(wrec[w]) => OnPlatter(wrec[w])'
        BY <2>1, PlatterStays DEF OnPlatter
    <2>3. CASE file' = file \o data /\ flusher' = "fsync"
      <3>1. Holds(data, wrec[w]) => Holds(file, wrec[w])'
        <4>1. SUFFICES ASSUME NEW i \in 1 .. Len(data), data[i] = wrec[w]
                       PROVE  \E j \in 1 .. Len(file') : file'[j] = wrec'[w]
            BY DEF Holds
        <4>2. Len(file) + i \in 1 .. Len(file') /\ file'[Len(file) + i] = data[i]
            BY <2>3, ConcatType
        <4>3. QED
            BY <2>1, <4>1, <4>2, Zenon
      <3>2. QED
          BY <2>1, <2>2, <2>3, <3>1 DEF Located, Holds
    <2>4. CASE ioErr' /\ flusher' = "publish"
        BY <2>1, <2>2, <2>4 DEF Located, Holds
    <2>5. QED
        BY <1>8, <2>3, <2>4, Zenon DEF FlushWrite
  <1>9. CASE FlushSync
    <2>1. /\ UNCHANGED <<nextSeq, flushed, fatal, fatalSeq, buf, wrec, wbatch, file>>
          /\ wpc[w] # "idle" /\ flusher = "fsync" /\ flusher' = "publish"
        BY <1>9 DEF FlushSync, logFields, callers
    <2>2. OnPlatter(wrec[w]) => OnPlatter(wrec[w])'
        BY <2>1, PlatterStays DEF OnPlatter
    <2>3. CASE synced' = Len(file)
      <3>1. Holds(file, wrec[w]) => OnPlatter(wrec[w])'
          BY <2>1, <2>3 DEF Holds, OnPlatter
      <3>2. QED
          BY <2>1, <2>2, <3>1 DEF Located, Holds
    <2>4. CASE ioErr'
        BY <2>1, <2>2, <2>4 DEF Located, Holds
    <2>5. QED
        BY <1>9, <2>3, <2>4, Zenon DEF FlushSync
  <1>10. CASE FlushPublish
    <2>1. /\ UNCHANGED <<nextSeq, buf, wrec, wbatch, file, synced>>
          /\ wpc[w] # "idle" /\ flusher = "publish" /\ flusher' \in {"select", "exited"}
          /\ flushed' = flushed + 1 /\ ~fatal
        BY <1>10 DEF FlushPublish, disk, BatchCount, Busy, Woken
    <2>2. nextSeq = flushed + 2
        BY <2>1 DEF BatchCount, Busy
    <2>3. CASE ioErr
      <3>1. fatal' /\ fatalSeq' = flushed + 1
          BY <1>10, <2>1, <2>3 DEF FlushPublish, BatchCount, Busy
      <3>2. QED
          BY <2>1, <2>2, <3>1 DEF Located, Holds, OnPlatter
    <2>4. CASE ~ioErr
        BY <2>1, <2>2, <2>4 DEF Located, Holds, OnPlatter
    <2>5. QED
        BY <2>3, <2>4
  <1>11. CASE Crash
      BY <1>11 DEF Crash
  <1>12. CASE Open
      BY <1>12 DEF Open, callers, BatchCount
  <1>13. QED
      BY <1>1, <1>3, <1>4, <1>5, <1>6, <1>7, <1>8, <1>9, <1>10, <1>11, <1>12
      DEF Next

\* A Wait that returns nil returns for a record on the platter: either its
\* batch is published, or the failure struck a later batch than its own.
LEMMA NextConfirmed ==
    ASSUME TypeOK, CommitInv, [Next]_vars
    PROVE  ConfirmedDurable'
  <1> USE DEF CommitInv, WaitersLocated
  <1>1. ASSUME NEW r \in confirmed PROVE OnPlatter(r)'
      BY <1>1, PlatterStays, Zenon DEF ConfirmedDurable, OnPlatter
  <1>2. ASSUME NEW w \in Writer, Wait(w) PROVE ConfirmedDurable'
    <2>1. confirmed' = confirmed \/ confirmed' = confirmed \cup {wrec[w]}
        BY <1>2, Zenon DEF Wait
    <2>2. CASE confirmed' = confirmed
        BY <1>1, <2>2, Zenon DEF ConfirmedDurable
    <2>3. CASE confirmed' = confirmed \cup {wrec[w]} /\ confirmed' # confirmed
      <3>1. /\ wpc[w] = "check" /\ ~(flushed < wbatch[w] /\ ~fatal)
            /\ ~(fatal /\ fatalSeq <= wbatch[w])
          BY <1>2, <2>3, Zenon DEF Wait
      <3>2. wbatch[w] <= flushed
          BY <3>1 DEF TypeOK, FieldsOK, BatchCount
      <3>3. OnPlatter(wrec[w])
          BY <3>1, <3>2 DEF Located
      <3>4. UNCHANGED <<file, synced>>
          BY <1>2 DEF Wait, disk
      <3>5. QED
          BY <1>1, <2>3, <3>3, <3>4, Zenon DEF ConfirmedDurable, OnPlatter
    <2>4. QED
        BY <2>1, <2>2, <2>3
  <1>3. CASE UNCHANGED confirmed
      BY <1>1, <1>3, Zenon DEF ConfirmedDurable
  <1>4. (\E w \in Writer : Wait(w)) \/ UNCHANGED confirmed
    <2>1. CASE UNCHANGED vars
        BY <2>1, Zenon DEF vars, history
    <2>2. CASE Next
        BY <2>2, Zenon DEF Next, Append_, FlushTake, TakeUnless, FlushWrite, FlushSync,
           FlushPublish, SyncCall, Sync, SyncOnly, Reopen, CloseMark, CloseDone,
           CloseFinish, Crash, Open, history
    <2>3. QED
        BY <2>1, <2>2
  <1>5. QED
      BY <1>2, <1>3, <1>4

LEMMA NextCommit == TypeOK /\ CommitInv /\ [Next]_vars => CommitInv'
  <1> SUFFICES ASSUME TypeOK, CommitInv, [Next]_vars
               PROVE  CommitInv'
      OBVIOUS
  <1>1. BatchCount'
      BY NextBatchCount DEF CommitInv, WaitersLocated
  <1>2. ASSUME NEW w \in Writer, wpc'[w] # "idle" PROVE Located(w)'
      BY <1>2, NextLocated DEF CommitInv, WaitersLocated
  <1>3. QED
      BY <1>1, <1>2, NextConfirmed DEF CommitInv, WaitersLocated

\* The bookkeeping of batches is right in every reachable state: the counters
\* of Append, flushOnce, Sync and Reopen always tell where a record is.
THEOREM Accounting == Spec => []WaitersLocated
  <1>1. CommitInv => WaitersLocated
      BY DEF CommitInv
  <1>2. QED
      BY InitType, NextType, InitCommit, NextCommit, <1>1, PTL DEF Spec

\* The promise of Append and Wait: no caller is told "committed" before its
\* record is fsynced, and no crash, failure or restart takes it back.
THEOREM Durability == Spec => []ConfirmedDurable
  <1>1. CommitInv => ConfirmedDurable
      BY DEF CommitInv
  <1>2. QED
      BY InitType, NextType, InitCommit, NextCommit, <1>1, PTL DEF Spec

\* After a failure the flusher takes no batch, no compaction is between Sync
\* and Reopen, and only a restart clears the failure.
LEMMA FailedStepsStop ==
    ASSUME TypeOK, BatchCount, [Next]_vars, fatal, up'
    PROVE  fatal' /\ file' = file /\ synced' = synced
  <1>1. up /\ flusher \notin {"write", "fsync", "publish"} /\ syncer # "synced"
      BY DEF BatchCount, Busy
  <1>2. CASE UNCHANGED <<fatal, file, synced>>
      BY <1>2
  <1>3. CASE Next
      BY <1>1, <1>3, Zenon DEF Next, Append_, Wait, FlushTake, TakeUnless, FlushWrite,
         FlushSync, FlushPublish, SyncCall, Sync, SyncOnly, Reopen, CloseMark,
         CloseDone, CloseFinish, Crash, Open, disk, logFields
  <1>4. CASE UNCHANGED vars
      BY <1>2, <1>4, Zenon DEF vars, disk, logFields
  <1>5. QED
      BY <1>3, <1>4

\* Fail stop: a process whose write or fsync failed never writes again.
THEOREM FailureIsFinal == Spec => FailStop
  <1>1. TypeOK /\ CommitInv /\ [Next]_vars
        => [fatal /\ up' => fatal' /\ file' = file /\ synced' = synced]_vars
      BY FailedStepsStop DEF CommitInv, WaitersLocated
  <1>2. QED
      BY InitType, NextType, InitCommit, NextCommit, <1>1, PTL DEF Spec, FailStop

-----------------------------------------------------------------------------
\* What flushOnce took is written before the next batch is taken, unless the
\* write failed; a process that is gone has nothing in its hands.
HandsInv ==
    /\ flusher = "fsync" => data = <<>>
    /\ flusher = "publish" /\ ~ioErr => data = <<>>
    /\ flusher \in {"select", "exited"} /\ ~fatal => data = <<>>
    /\ ~up => data = <<>> /\ buf = <<>>

LEMMA InitHands == Init => HandsInv
  BY DEF Init, Fresh, HandsInv

LEMMA NextHands ==
    ASSUME TypeOK, BatchCount, HandsInv, [Next]_vars
    PROVE  HandsInv'
  <1> USE DEF TypeOK, FieldsOK, BatchCount, Busy, HandsInv
  <1>1. ASSUME NEW w \in Writer, Append_(w) PROVE HandsInv'
      BY <1>1 DEF Append_, flush
  <1>2. ASSUME NEW w \in Writer, Wait(w) PROVE HandsInv'
      BY <1>2 DEF Wait, logFields, flush
  <1>3. ASSUME NEW final \in BOOLEAN, FlushTake(final) PROVE HandsInv'
      BY <1>3 DEF FlushTake, TakeUnless, callers
  <1>4. CASE FlushWrite
      BY <1>4 DEF FlushWrite, logFields, callers
  <1>5. CASE FlushSync
      BY <1>5 DEF FlushSync, logFields, callers
  <1>6. CASE FlushPublish
      BY <1>6 DEF FlushPublish, Woken, WokenSync
  <1>7. CASE SyncCall
      BY <1>7 DEF SyncCall, logFields, flush
  <1>8. CASE Sync
      BY <1>8 DEF Sync, logFields, flush
  <1>9. CASE SyncOnly
      BY <1>9 DEF SyncOnly, logFields, flush
  <1>10. CASE Reopen
      BY <1>10 DEF Reopen, Woken, flush
  <1>11. CASE CloseMark
      BY <1>11 DEF CloseMark, flush
  <1>12. CASE CloseDone
      BY <1>12 DEF CloseDone, logFields, flush
  <1>13. CASE CloseFinish
      BY <1>13 DEF CloseFinish, Woken, WokenSync, logFields, flush
  <1>14. CASE Crash
      BY <1>14 DEF Crash, Fresh
  <1>15. CASE Open
      BY <1>15 DEF Open, Fresh, callers
  <1>16. CASE UNCHANGED vars
      BY <1>16 DEF vars, logFields, flush, callers
  <1>17. QED
      BY <1>1, <1>2, <1>3, <1>4, <1>5, <1>6, <1>7, <1>8, <1>9, <1>10, <1>11,
         <1>12, <1>13, <1>14, <1>15, <1>16 DEF Next

-----------------------------------------------------------------------------
(***************************************************************************)
(* CloseDrains.  The flusher exits only through a final flushOnce, which   *)
(* begins after closed was set, so no Append can fill the buffer behind    *)
(* it; and between two batches all that was written is fsynced.            *)
(***************************************************************************)
DrainInv ==
    /\ closed <=> closer # "open"
    /\ ~up => closer = "open"
    /\ done => closed
    /\ flusher = "exited" => done
    /\ last /\ Busy => done /\ buf = <<>>
    /\ flusher = "exited" /\ ~fatal => buf = <<>>
    /\ closer = "closed" => flusher = "exited"
    /\ flusher = "publish" /\ ~ioErr => synced = Len(file)
    /\ flusher \in {"select", "exited"} /\ ~fatal /\ nextSeq > 1 => synced = Len(file)

LEMMA InitDrain == Init => DrainInv
  BY DEF Init, DrainInv, Busy

LEMMA NextDrain ==
    ASSUME TypeOK, BatchCount, DrainInv, [Next]_vars
    PROVE  DrainInv'
  <1> USE DEF TypeOK, FlagsOK, FieldsOK, BatchCount, Busy, DrainInv
  <1>1. ASSUME NEW w \in Writer, Append_(w) PROVE DrainInv'
      BY <1>1 DEF Append_, flush, disk
  <1>2. ASSUME NEW w \in Writer, Wait(w) PROVE DrainInv'
      BY <1>2 DEF Wait, logFields, flush, chans, disk
  <1>3. ASSUME NEW final \in BOOLEAN, FlushTake(final) PROVE DrainInv'
      BY <1>3 DEF FlushTake, TakeUnless, callers, disk
  <1>4. CASE FlushWrite
      BY <1>4 DEF FlushWrite, logFields, callers, chans
  <1>5. CASE FlushSync
      BY <1>5 DEF FlushSync, logFields, callers, chans
  <1>6. CASE FlushPublish
      BY <1>6 DEF FlushPublish, chans, disk
  <1>7. CASE SyncCall
      BY <1>7 DEF SyncCall, logFields, flush, chans, disk
  <1>8. CASE Sync
      BY <1>8 DEF Sync, logFields, flush, disk
  <1>9. CASE SyncOnly
      BY <1>9 DEF SyncOnly, logFields, flush, chans, disk
  <1>10. CASE Reopen
      BY <1>10 DEF Reopen, flush, chans
  <1>11. CASE CloseMark
      BY <1>11 DEF CloseMark, flush, chans, disk
  <1>12. CASE CloseDone
      BY <1>12 DEF CloseDone, logFields, flush, disk
  <1>13. CASE CloseFinish
      BY <1>13 DEF CloseFinish, logFields, flush, chans, disk
  <1>14. CASE Crash
      BY <1>14 DEF Crash, Fresh
  <1>15. CASE Open
      BY <1>15 DEF Open, Fresh, callers
  <1>16. CASE UNCHANGED vars
      BY <1>16 DEF vars, logFields, flush, callers, chans, disk
  <1>17. QED
      BY <1>1, <1>2, <1>3, <1>4, <1>5, <1>6, <1>7, <1>8, <1>9, <1>10, <1>11,
         <1>12, <1>13, <1>14, <1>15, <1>16 DEF Next

\* A shutdown loses nothing: when Close has returned and no write or fsync
\* failed, the buffer and the flusher's hands are empty and every record this
\* process appended is fsynced.
THEOREM CloseLosesNothing == Spec => []CloseDrains
  <1> DEFINE Inv == TypeOK /\ CommitInv /\ HandsInv /\ DrainInv
  <1>1. Init => Inv
      BY InitType, InitCommit, InitHands, InitDrain
  <1>2. Inv /\ [Next]_vars => Inv'
      BY NextType, NextCommit, NextHands, NextDrain DEF CommitInv, WaitersLocated
  <1>3. Inv => CloseDrains
      BY DEF HandsInv, DrainInv, CloseDrains
  <1>4. QED
      BY <1>1, <1>2, <1>3, PTL DEF Spec

-----------------------------------------------------------------------------
(***************************************************************************)
(* The refinement.  The abstract log is the file, then what the flusher    *)
(* holds, then the buffer: taking a batch and writing it move records      *)
(* between the three and leave their concatenation alone.                  *)
(***************************************************************************)
AbsLog == file \o data \o buf

\* The records held are a sequence of records, whichever part they are in.
LEMMA AbsLogType ==
    ASSUME TypeOK
    PROVE  /\ AbsLog \in Seq(Records)
           /\ file \o data \in Seq(Records)
           /\ Len(AbsLog) = Len(file) + Len(data) + Len(buf)
           /\ AbsLog = file \o (data \o buf)
  <1>1. file \o data \in Seq(Records) /\ Len(file \o data) = Len(file) + Len(data)
      BY ConcatType DEF TypeOK, FieldsOK
  <1>2. AbsLog \in Seq(Records) /\ Len(AbsLog) = Len(file \o data) + Len(buf)
      BY <1>1, ConcatType DEF TypeOK, FieldsOK, AbsLog
  <1>3. AbsLog = file \o (data \o buf)
    <2>1. file \in Seq(Records) /\ data \in Seq(Records) /\ buf \in Seq(Records)
        BY DEF TypeOK, FieldsOK
    <2>2. (file \o data) \o buf = file \o (data \o buf)
        BY <2>1, ConcatAssociative, SMTT(20)
    <2>3. QED
        BY <2>2, Zenon DEF AbsLog
  <1>4. Len(AbsLog) = Len(file) + Len(data) + Len(buf)
      BY <1>1, <1>2, Zenon
  <1>5. QED
      BY <1>1, <1>2, <1>3, <1>4, Zenon

\* Append puts the record at the end of the abstract log.
LEMMA AppendStep ==
    ASSUME TypeOK, NEW w \in Writer, Append_(w)
    PROVE  \E r \in Records : Durable!LogAppend(r)
  <1>1. /\ appended' \in Records /\ ~fatal
        /\ buf' = Append(buf, appended')
        /\ UNCHANGED <<file, data, synced, fatal>>
      BY WalAssumption DEF TypeOK, FieldsOK, Append_, disk, flush, Records
  <1>2. AbsLog' = Append(AbsLog, appended')
    <2>1. <<appended'>> \in Seq(Records)
        BY <1>1
    <2>2. buf' = buf \o <<appended'>>
        BY <1>1, AppendIsConcat DEF TypeOK, FieldsOK
    <2>3. (file \o data) \o (buf \o <<appended'>>) = AbsLog \o <<appended'>>
      <3>1. file \o data \in Seq(Records) /\ buf \in Seq(Records)
          BY AbsLogType DEF TypeOK, FieldsOK
      <3>2. QED
          BY <2>1, <3>1, ConcatAssociative DEF AbsLog
    <2>4. AbsLog \o <<appended'>> = Append(AbsLog, appended')
        BY <1>1, AbsLogType, AppendIsConcat
    <2>5. AbsLog' = (file \o data) \o buf'
        BY <1>1 DEF AbsLog
    <2>6. QED
        BY <2>2, <2>3, <2>4, <2>5
  <1>3. QED
      BY <1>1, <1>2, Zenon DEF Durable!LogAppend, AbsLog

\* Taking a batch and writing it, in full or in part, leave the log alone.
LEMMA TakeStep ==
    ASSUME TypeOK, HandsInv, NEW final \in BOOLEAN, FlushTake(final)
    PROVE  AbsLog' = AbsLog /\ UNCHANGED <<synced, fatal>>
  <1>1. UNCHANGED <<file, synced, fatal>>
      BY DEF FlushTake, TakeUnless, disk
  <1>2. CASE buf = <<>> \/ fatal
      BY <1>1, <1>2 DEF FlushTake, TakeUnless, AbsLog
  <1>3. CASE ~(buf = <<>> \/ fatal)
    <2>1. data = <<>> /\ data' = buf /\ buf' = <<>>
        BY <1>3 DEF FlushTake, TakeUnless, HandsInv
    <2>2. file \o <<>> = file /\ (file \o buf) \o <<>> = file \o buf
        BY ConcatType, ConcatEmptySeq DEF TypeOK, FieldsOK
    <2>3. QED
        BY <1>1, <2>1, <2>2, Zenon DEF AbsLog
  <1>4. QED
      BY <1>1, <1>2, <1>3

LEMMA WriteStep ==
    ASSUME TypeOK, FlushWrite
    PROVE  AbsLog' = AbsLog /\ UNCHANGED <<synced, fatal>>
  <1>1. UNCHANGED <<buf, synced, fatal>>
      BY DEF FlushWrite, logFields
  <1>2. CASE file' = file \o data /\ data' = <<>>
    <2>1. (file \o data) \o <<>> = file \o data
        BY AbsLogType, ConcatEmptySeq
    <2>2. QED
        BY <1>1, <1>2, <2>1 DEF AbsLog
  <1>3. ASSUME NEW k \in 0 .. Len(data),
               file' = file \o SubSeq(data, 1, k),
               data' = SubSeq(data, k + 1, Len(data))
        PROVE  AbsLog' = AbsLog
    <2>1. SubSeq(data, 1, k) \in Seq(Records) /\ data' \in Seq(Records)
        BY <1>3, PrefixType, SuffixType DEF TypeOK, FieldsOK
    <2>2. SubSeq(data, 1, k) \o SubSeq(data, k + 1, Len(data)) = data
      <3>1. SubSeq(data, 1, k) \o SubSeq(data, k + 1, Len(data))
            = SubSeq(data, 1, Len(data))
        <4>1. /\ data \in Seq(Records) /\ 1 \in 1 .. Len(data) + 1
              /\ k \in 1 - 1 .. Len(data) /\ Len(data) \in k .. Len(data)
            BY <1>3 DEF TypeOK, FieldsOK
        <4>2. QED
            BY <4>1, ConcatAdjacentSubSeq, Zenon
      <3>2. SubSeq(data, 1, Len(data)) = data
          BY SubSeqFull DEF TypeOK, FieldsOK
      <3>3. QED
          BY <3>1, <3>2
    <2>3. file' \o data' = file \o (SubSeq(data, 1, k) \o data')
      <3>1. file \in Seq(Records)
          BY DEF TypeOK, FieldsOK
      <3>2. PICK head : head = SubSeq(data, 1, k) /\ file' = file \o head
          BY <1>3
      <3>3. head \in Seq(Records)
          BY <2>1, <3>2
      <3>4. file' \o data' = file \o (head \o data')
        <4>1. data' \in Seq(Records) /\ file' = file \o head
            BY <2>1, <3>2
        <4>2. QED
            BY <3>1, <3>3, <4>1, ConcatAssociative
      <3>5. QED
          BY <3>2, <3>4
    <2>4. file' \o data' = file \o data
        BY <1>3, <2>2, <2>3
    <2>5. QED
        BY <1>1, <2>4 DEF AbsLog
  <1>4. \/ file' = file \o data /\ data' = <<>>
        \/ \E k \in 0 .. (IF fd THEN Len(data) ELSE 0) :
              /\ file' = file \o SubSeq(data, 1, k)
              /\ data' = SubSeq(data, k + 1, Len(data))
      BY Zenon DEF FlushWrite
  <1>5. 0 .. (IF fd THEN Len(data) ELSE 0) \subseteq 0 .. Len(data)
      BY DEF TypeOK, FieldsOK
  <1>6. AbsLog' = AbsLog
      BY <1>2, <1>3, <1>4, <1>5, Zenon
  <1>7. QED
      BY <1>1, <1>6

\* An fsync that covers the whole file makes a longer prefix durable, or none.
LEMMA SyncedStep ==
    ASSUME TypeOK, ~fatal, UNCHANGED <<file, data, buf, fatal>>,
           synced' \in {synced, Len(file)}
    PROVE  Durable!LogCommit \/ (AbsLog' = AbsLog /\ UNCHANGED <<synced, fatal>>)
  <1>1. AbsLog' = AbsLog
      BY DEF AbsLog
  <1>2. CASE synced' = synced
      BY <1>1, <1>2
  <1>3. CASE synced' = Len(file) /\ synced' # synced
    <2>1. synced' \in (synced + 1) .. Len(AbsLog)
        BY <1>3, AbsLogType DEF TypeOK, FieldsOK
    <2>2. QED
        BY <1>1, <2>1 DEF Durable!LogCommit, AbsLog
  <1>4. QED
      BY <1>2, <1>3

\* A crash keeps a prefix of what was appended, the fsynced one at least.
LEMMA CrashStep ==
    ASSUME TypeOK, Crash
    PROVE  Durable!LogCrash
  <1> DEFINE written == IF flusher = "write" /\ fd THEN file \o data ELSE file
  <1>1. PICK k \in synced .. Len(written) : file' = SubSeq(written, 1, k)
      BY DEF Crash
  <1>2. /\ fatal' = FALSE /\ synced' = synced
        /\ data' = <<>> /\ buf' = <<>>
      BY Zenon DEF Crash, Fresh
  <1>3. PICK rest \in Seq(Records) :
            written \in Seq(Records) /\ AbsLog = written \o rest
    <2>1. AbsLog = (file \o data) \o buf /\ AbsLog = file \o (data \o buf)
        BY AbsLogType DEF AbsLog
    <2>2. /\ buf \in Seq(Records) /\ data \o buf \in Seq(Records)
          /\ file \o data \in Seq(Records) /\ file \in Seq(Records)
        BY ConcatType DEF TypeOK, FieldsOK
    <2>3. written = file \o data \/ written = file
        BY Zenon
    <2>4. QED
        BY <2>1, <2>2, <2>3, Zenon
  <1> HIDE DEF written
  <1>4. /\ k \in 0 .. Len(written) /\ k \in synced .. Len(AbsLog)
        /\ \A i \in 1 .. Len(written) : AbsLog[i] = written[i]
    <2>1. /\ Len(AbsLog) = Len(written) + Len(rest)
          /\ \A i \in 1 .. Len(written) : AbsLog[i] = written[i]
        BY <1>3, ConcatType
    <2>2. QED
        BY <1>1, <1>3, <2>1 DEF TypeOK, FieldsOK
  <1>5. SubSeq(AbsLog, 1, k) = SubSeq(written, 1, k)
    <2>1. /\ SubSeq(written, 1, k) \in Seq(Records)
          /\ Len(SubSeq(written, 1, k)) = k
          /\ \A i \in 1 .. k : SubSeq(written, 1, k)[i] = written[i]
        BY <1>3, <1>4, PrefixType
    <2>2. /\ SubSeq(AbsLog, 1, k) \in Seq(Records)
          /\ Len(SubSeq(AbsLog, 1, k)) = k
          /\ \A i \in 1 .. k : SubSeq(AbsLog, 1, k)[i] = AbsLog[i]
      <3>1. k \in 0 .. Len(AbsLog)
          BY <1>4, AbsLogType DEF TypeOK, FieldsOK
      <3>2. QED
          BY <3>1, AbsLogType, PrefixType
    <2>3. \A i \in 1 .. k : i \in 1 .. Len(written)
        BY <1>3, <1>4
    <2>4. \A i \in 1 .. k : SubSeq(AbsLog, 1, k)[i] = SubSeq(written, 1, k)[i]
        BY <1>4, <2>1, <2>2, <2>3, Zenon
    <2>5. QED
        BY <2>1, <2>2, <2>4, SeqEqual
  <1>6. AbsLog' = file'
    <2>1. file' \in Seq(Records)
        BY <1>1, <1>3, <1>4, PrefixType
    <2>2. file' \o <<>> = file'
        BY <2>1, ConcatEmptySeq
    <2>3. QED
        BY <1>2, <2>2, Zenon DEF AbsLog
  <1>7. QED
      BY <1>1, <1>2, <1>4, <1>5, <1>6, Zenon DEF Durable!LogCrash, AbsLog

\* The next process opens what the crash left.
LEMMA OpenStep ==
    ASSUME TypeOK, HandsInv, Open
    PROVE  Durable!LogOpen
  <1>1. /\ fatal' = FALSE /\ file' = file
        /\ data = <<>> /\ buf = <<>> /\ data' = <<>> /\ buf' = <<>>
      BY DEF Open, Fresh, HandsInv
  <1>2. AbsLog' = AbsLog
      BY <1>1 DEF AbsLog
  <1>3. Len(AbsLog) = Len(file)
      BY <1>1, AbsLogType DEF TypeOK, FieldsOK
  <1>4. synced' \in {synced, Len(file)}
      BY Zenon DEF Open
  <1>5. QED
      BY <1>1, <1>2, <1>3, <1>4, Zenon DEF Durable!LogOpen, AbsLog

\* Every step of the group-commit log is a step of the abstract log or
\* leaves it alone.
LEMMA StepSimulated ==
    ASSUME TypeOK, BatchCount, HandsInv, [Next]_vars
    PROVE  [Durable!LogNext]_(Durable!logVars)
  <1> DEFINE Stutter == AbsLog' = AbsLog /\ UNCHANGED <<synced, fatal>>
  <1>0. Stutter => UNCHANGED Durable!logVars
      BY DEF Durable!logVars, AbsLog
  <1>1. ASSUME NEW w \in Writer, Append_(w) PROVE \E r \in Records : Durable!LogAppend(r)
      BY <1>1, AppendStep
  <1>2. ASSUME NEW final \in BOOLEAN, FlushTake(final) PROVE Stutter
      BY <1>2, TakeStep
  <1>3. CASE FlushWrite
      BY <1>0, <1>3, WriteStep
  <1>4. CASE FlushSync
    <2>1. ~fatal /\ UNCHANGED <<file, data, buf, fatal>>
        BY <1>4 DEF FlushSync, BatchCount, Busy, logFields
    <2>2. synced' \in {synced, Len(file)}
        BY <1>4, Zenon DEF FlushSync
    <2>3. QED
        BY <1>0, <2>1, <2>2, SyncedStep DEF Durable!LogNext
  <1>5. CASE FlushPublish
    <2>1. ~fatal /\ UNCHANGED <<file, data, buf, synced>>
        BY <1>5 DEF FlushPublish, BatchCount, Busy, disk
    <2>2. AbsLog' = AbsLog
        BY <2>1 DEF AbsLog
    <2>3. fatal' = TRUE \/ fatal' = fatal
        BY <1>5, Zenon DEF FlushPublish
    <2>4. CASE fatal' = TRUE
        BY <2>1, <2>2, <2>4 DEF Durable!LogNext, Durable!LogFail, AbsLog
    <2>5. CASE fatal' = fatal
        BY <1>0, <2>1, <2>2, <2>5
    <2>6. QED
        BY <2>3, <2>4, <2>5
  <1>6. CASE Reopen
    <2>1. ~fatal /\ UNCHANGED <<file, data, buf>>
        BY <1>6 DEF Reopen, BatchCount, flush
    <2>2. \/ fatal' = fatal /\ synced' \in {synced, Len(file)}
          \/ fatal' = TRUE /\ synced' = synced
        BY <1>6, Zenon DEF Reopen
    <2>3. CASE fatal' = fatal /\ synced' \in {synced, Len(file)}
        BY <1>0, <2>1, <2>3, SyncedStep DEF Durable!LogNext
    <2>4. CASE fatal' = TRUE /\ synced' = synced
        BY <2>1, <2>4 DEF Durable!LogNext, Durable!LogFail, AbsLog
    <2>5. QED
        BY <2>2, <2>3, <2>4
  <1>7. CASE Crash
      BY <1>7, CrashStep DEF Durable!LogNext
  <1>8. CASE Open
      BY <1>8, OpenStep DEF Durable!LogNext
  <1>9. CASE UNCHANGED <<file, data, buf, synced, fatal>>
      BY <1>0, <1>9 DEF AbsLog
  <1>10. CASE Next
    <2>1. \/ \E w \in Writer : Append_(w)
          \/ \E final \in BOOLEAN : FlushTake(final)
          \/ FlushWrite \/ FlushSync \/ FlushPublish \/ Reopen \/ Crash \/ Open
          \/ UNCHANGED <<file, data, buf, synced, fatal>>
        BY <1>10, Zenon DEF Next, Wait, SyncCall, Sync, SyncOnly, CloseMark, CloseDone,
           CloseFinish, disk, logFields, flush
    <2>2. CASE \E w \in Writer : Append_(w)
        BY <1>1, <2>2, Zenon DEF Durable!LogNext
    <2>3. CASE \E final \in BOOLEAN : FlushTake(final)
        BY <1>0, <1>2, <2>3, Zenon
    <2>4. QED
        BY <1>3, <1>4, <1>5, <1>6, <1>7, <1>8, <1>9, <2>1, <2>2, <2>3
  <1>11. CASE UNCHANGED vars
      BY <1>9, <1>11 DEF vars, disk, logFields, flush
  <1>12. QED
      BY <1>10, <1>11

\* The group-commit log, with its flusher, batches, condition variable,
\* compactions, failures and crashes, implements the abstract durable log
\* that the queue is built on.
THEOREM Refinement == Spec => ImplementsDurableLog
  <1> DEFINE Inv == TypeOK /\ CommitInv /\ HandsInv
  <1>1. Init => Inv
      BY InitType, InitCommit, InitHands
  <1>2. Inv /\ [Next]_vars => Inv'
      BY NextType, NextCommit, NextHands DEF CommitInv, WaitersLocated
  <1>3. Init => Durable!LogInit(<<>>)
    <2>1. <<>> \o <<>> \o <<>> = <<>> /\ Len(<<>>) = 0
        BY EmptySeq, ConcatEmptySeq
    <2>2. QED
        BY <2>1 DEF Init, Durable!LogInit
  <1>4. Inv /\ [Next]_vars => [Durable!LogNext]_(Durable!logVars)
      BY StepSimulated DEF CommitInv, WaitersLocated
  <1>5. QED
      BY <1>1, <1>2, <1>3, <1>4, PTL DEF Spec, ImplementsDurableLog, Durable!LogSpec
=============================================================================
