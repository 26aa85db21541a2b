--------------------------- MODULE RunLoopProofs ---------------------------
(***************************************************************************)
(* Proofs about the background goroutine, for every set of messages, every *)
(* delay, lease, interval and threshold: its types, that it never sleeps   *)
(* past a deadline, and that automatic compactions are paced.              *)
(***************************************************************************)
EXTENDS RunLoop, FiniteSetTheorems, TLAPS

\* Facts on the helpers: a countdown goes down to zero and keeps order.
LEMMA LessFacts ==
    ASSUME NEW t \in Nat
    PROVE  /\ Less(t) \in Nat /\ Less(t) <= t
           /\ \A u \in Nat : t <= u => Less(t) <= Less(u)
  BY DEF Less

\* A log grows by whole records up to its bound, and never shrinks by growing.
LEMMA GrownFacts ==
    ASSUME size \in Nat, NEW n \in Nat
    PROVE  /\ Grown(n) \in Nat
           /\ Grown(n) <= MaxSize
           /\ size <= MaxSize => size <= Grown(n)
  BY RunLoopAssumption DEF Grown, Smaller

\* The leases that ran out are finitely many.
LEMMA ExpiredCount ==
    ASSUME NEW E \in SUBSET Due
    PROVE  Cardinality(E) \in Nat
  <1>1. E \in SUBSET Msg
      BY DEF Due, In
  <1>2. QED
      BY <1>1, RunLoopAssumption, FS_Subset, FS_CardinalityType

\* Every deadline is a number.
LEMMA PendingType == TypeOK => Pending \subseteq Nat
  BY DEF TypeOK, Pending, Deadlines

-----------------------------------------------------------------------------
\* A loaded index has the right types.
LEMMA InitType == Init => TypeOK
  <1> SUFFICES ASSUME Init
               PROVE  TypeOK
      OBVIOUS
  <1>1. place \in [Msg -> Place] /\ left \in [Msg -> Nat]
    <2>1. place \in [Msg -> Place \ {"inflight"}] /\ left \in [Msg -> Delay \cup {0}]
        BY Zenon DEF Init
    <2>2. Delay \cup {0} \subseteq Nat
        BY RunLoopAssumption
    <2>3. QED
        BY <2>1, <2>2
  <1>2. ageLeft \in Nat /\ purgeLeft \in Nat /\ timer \in Nat
      BY RunLoopAssumption DEF Init
  <1>3. /\ durably \in Nat /\ leasing \in Nat
        /\ size \in Nat /\ floor \in Nat /\ compacted \in Nat
      BY DEF Init
  <1>4. /\ dedup \in BOOLEAN /\ failed \in BOOLEAN /\ closed \in BOOLEAN
        /\ done \in BOOLEAN /\ wake \in BOOLEAN /\ trigger \in BOOLEAN
        /\ raced \in BOOLEAN
      BY DEF Init
  <1>5. /\ pc \in {"tick", "settle", "compact", "reset", "select", "exited"}
        /\ next \in Nat \cup {NoTime}
      BY DEF Init
  <1>6. QED
      BY <1>1, <1>2, <1>3, <1>4, <1>5 DEF TypeOK

\* What tick does to the index.
LEMMA TickedType ==
    ASSUME TypeOK, NEW E \in SUBSET Due, NEW D \in SUBSET E, Ticked(E, D)
    PROVE  /\ place' \in [Msg -> Place] /\ left' \in [Msg -> Nat]
           /\ ageLeft' \in Nat /\ purgeLeft' \in Nat /\ dedup' \in BOOLEAN
  BY RunLoopAssumption DEF TypeOK, Ticked, Place

\* The locked part of tick.
LEMMA TickWorkType == TypeOK /\ TickWork => TypeOK'
  <1> SUFFICES ASSUME TypeOK,
                      NEW E \in SUBSET Due, NEW D \in SUBSET E,
                      Ticked(E, D),
                      failed' = (E # Due),
                      size' = Grown(Cardinality(E)),
                      trigger' = (E = Due /\ shouldCompact(Cardinality(E))),
                      next' \in nextDeadline',
                      Unlocked(E),
                      UNCHANGED <<closed, done, chans, timer, floor, compacted, raced>>
               PROVE  TypeOK'
      BY DEF TickWork
  <1>1. /\ place' \in [Msg -> Place] /\ left' \in [Msg -> Nat]
        /\ ageLeft' \in Nat /\ purgeLeft' \in Nat /\ dedup' \in BOOLEAN
      BY TickedType
  <1>2. next' \in Nat \cup {NoTime}
    <2>1. Pending' \subseteq Nat
        BY <1>1 DEF Pending, Deadlines
    <2>2. QED
        BY <2>1 DEF nextDeadline, Earliest
  <1>3. size' \in Nat
      BY ExpiredCount, GrownFacts DEF TypeOK
  <1>4. pc' \in {"tick", "settle", "compact", "reset", "select", "exited"}
      BY DEF Unlocked
  <1>5. failed' \in BOOLEAN /\ trigger' \in BOOLEAN
      OBVIOUS
  <1>6. QED
      BY <1>1, <1>2, <1>3, <1>4, <1>5 DEF TypeOK, chans

\* Every step of the requests, the goroutine, Close and the clock.
LEMMA NextType == TypeOK /\ [Next]_vars => TypeOK'
  <1> SUFFICES ASSUME TypeOK, [Next]_vars
               PROVE  TypeOK'
      OBVIOUS
  <1> USE RunLoopAssumption DEF TypeOK
  <1>1. ASSUME NEW m \in Msg, NEW d \in Delay, Enqueue(m, d)
        PROVE  TypeOK'
    <2>1. size' \in Nat
        BY <1>1, GrownFacts DEF Enqueue
    <2>2. place' \in [Msg -> Place] /\ left' \in [Msg -> Nat]
        BY <1>1 DEF Enqueue, Place
    <2>3. QED
      <3>1. dedup' \in BOOLEAN
          BY <1>1, Zenon DEF Enqueue
      <3>2. QED
          BY <1>1, <2>1, <2>2, <3>1 DEF Enqueue, flags, loop
  <1>2. ASSUME NEW S \in SUBSET Msg, NEW d \in Lease, Dequeue(S, d)
        PROVE  TypeOK'
    <2>1. place' \in [Msg -> Place] /\ left' \in [Msg -> Nat]
        BY <1>2 DEF Dequeue, Place
    <2>2. QED
        BY <1>2, <2>1 DEF Dequeue, flags, loop, compaction
  <1>3. ASSUME NEW m \in Msg, Ack(m)
        PROVE  TypeOK'
    <2>1. size' \in Nat
        BY <1>3, GrownFacts DEF Ack
    <2>2. place' \in [Msg -> Place] /\ left' \in [Msg -> Nat]
        BY <1>3 DEF Ack, Place
    <2>3. QED
        BY <1>3, <2>1, <2>2 DEF Ack, flags, chans, loop
  <1>4. ASSUME NEW m \in Msg, Nack(m)
        PROVE  TypeOK'
    <2>1. size' \in Nat
        BY <1>4, GrownFacts DEF Nack
    <2>2. place' \in [Msg -> Place] /\ left' \in [Msg -> Nat]
        BY <1>4 DEF Nack, Place
    <2>3. QED
        BY <1>4, <2>1, <2>2 DEF Nack, flags, loop
  <1>5. CASE ReturnDurable
      BY <1>5 DEF ReturnDurable, signal, index, flags, loop, compaction
  <1>6. CASE ReturnLease
      BY <1>6 DEF ReturnLease, signal, index, flags, loop, compaction
  <1>7. CASE RequestFails
      BY <1>7 DEF RequestFails, index, loop, compaction
  <1>8. CASE RequestedCompact
    <2>1. /\ failed' \in BOOLEAN /\ raced' \in BOOLEAN
          /\ size' \in Nat /\ floor' \in Nat /\ compacted' \in Nat
      <3>1. CASE CompactFatal /\ UNCHANGED raced
          BY <3>1 DEF CompactFatal
      <3>2. CASE CompactDone /\ raced' = (raced \/ trigger)
        <4>1. raced' \in BOOLEAN
            BY <3>2, Zenon
        <4>2. QED
            BY <3>2, <4>1 DEF CompactDone
      <3>3. QED
          BY <1>8, <3>1, <3>2 DEF RequestedCompact
    <2>2. QED
        BY <1>8, <2>1 DEF RequestedCompact, index, chans, loop
  <1>9. CASE Tick
    <2>1. CASE TickNothing
        BY <2>1 DEF TickNothing, index, flags, chans, compaction
    <2>2. CASE TickWork
        BY <2>2, TickWorkType
    <2>3. QED
        BY <1>9, <2>1, <2>2 DEF Tick
  <1>10. CASE Settle
    <2>1. failed' \in BOOLEAN
        BY <1>10, Zenon DEF Settle
    <2>2. QED
        BY <1>10, <2>1 DEF Settle, index, chans, compaction
  <1>11. CASE AutoCompact
    <2>1. failed' \in BOOLEAN /\ size' \in Nat /\ floor' \in Nat /\ compacted' \in Nat
      <3>1. CASE CompactRefused \/ CompactGivenUp \/ CompactFatal
          BY <3>1 DEF CompactRefused, CompactGivenUp, CompactFatal
      <3>2. CASE CompactDone
          BY <3>2 DEF CompactDone
      <3>3. QED
          BY <1>11, <3>1, <3>2 DEF AutoCompact
    <2>2. QED
        BY <1>11, <2>1 DEF AutoCompact, index, chans
  <1>12. CASE Reset
      BY <1>12 DEF Reset, Larger, index, flags, chans, compaction
  <1>13. CASE SelectWake \/ SelectTimer \/ SelectDone
      BY <1>13 DEF SelectWake, SelectTimer, SelectDone, index, flags, chans, compaction
  <1>14. CASE CloseMark \/ CloseDone
    <2>1. /\ UNCHANGED <<index, chans, loop, compaction>>
          /\ failed' \in BOOLEAN /\ closed' \in BOOLEAN /\ done' \in BOOLEAN
        BY <1>14, Zenon DEF CloseMark, CloseDone
    <2>2. QED
        BY <2>1 DEF index, chans, loop, compaction
  <1>15. CASE Advance
    <2>1. left' \in [Msg -> Nat]
        BY <1>15, LessFacts DEF Advance
    <2>2. /\ ageLeft' \in Nat /\ purgeLeft' \in Nat /\ timer' \in Nat
          /\ next' \in Nat \cup {NoTime}
        BY <1>15, LessFacts DEF Advance
    <2>3. QED
        BY <1>15, <2>1, <2>2, Zenon DEF Advance, flags, chans, compaction
  <1>16. CASE UNCHANGED vars
      BY <1>16 DEF vars, index, flags, chans, loop, compaction
  <1>17. QED
      BY <1>1, <1>2, <1>3, <1>4, <1>5, <1>6, <1>7, <1>8, <1>9, <1>10, <1>11,
         <1>12, <1>13, <1>14, <1>15, <1>16
      DEF Next, Request, Signals, Loop

\* The countdowns, flags and sizes of the background loop keep their types.
THEOREM LoopTypeCorrect == Spec => []TypeOK
  BY InitType, NextType, PTL DEF Spec

-----------------------------------------------------------------------------
\* A step that leaves the index alone leaves the deadlines alone.
LEMMA PendingKept ==
    ASSUME UNCHANGED index
    PROVE  Pending' = Pending /\ \A t : Covers(t)' <=> Covers(t)
  BY DEF index, Covers, Pending, Deadlines

\* An Ack takes a deadline away and adds none.
LEMMA AckPending ==
    ASSUME TypeOK, NEW m \in Msg, Ack(m)
    PROVE  Pending' \subseteq Pending
  BY DEF TypeOK, Ack, Pending, Deadlines

\* While time passes, what covers the deadlines goes on covering them.
LEMMA AdvancePending ==
    ASSUME TypeOK, Advance
    PROVE  /\ (Pending = {}) => Pending' = {}
           /\ \A t \in Nat : Covers(t) => Covers(Less(t))'
  <1>1. (Pending = {}) => Pending' = {}
      BY DEF Advance, Pending, Deadlines
  <1>2. ASSUME NEW t \in Nat, Covers(t), NEW d \in Pending'
        PROVE  Less(t) <= d
    <2>1. PICK c \in Pending : d = Less(c)
        BY DEF TypeOK, Advance, Pending, Deadlines
    <2>2. t <= c /\ c \in Nat
        BY <1>2, PendingType DEF Covers
    <2>3. QED
        BY <2>1, <2>2, LessFacts
  <1>3. QED
      BY <1>1, <1>2 DEF Covers

LEMMA InitSleep == Init => SleepInv
  BY DEF Init, SleepInv, DeadlineHeld, NothingSleptPast

\* What tick hands to the loop is the first deadline, whoever adds one later is
\* still to signal, and the timer is set to it.
LEMMA NextSleep == TypeOK /\ SleepInv /\ [Next]_vars => SleepInv'
  <1> SUFFICES ASSUME TypeOK, SleepInv, [Next]_vars
               PROVE  SleepInv'
      OBVIOUS
  <1>1. CASE Stirred'
      BY <1>1 DEF SleepInv, DeadlineHeld, NothingSleptPast
  <1>2. CASE ~Accepts'
      BY <1>2 DEF SleepInv, DeadlineHeld, NothingSleptPast
  <1>3. CASE pc' \in {"tick", "exited"}
      BY <1>3 DEF SleepInv, DeadlineHeld, NothingSleptPast
  <1> SUFFICES ASSUME ~Stirred', Accepts', pc' \notin {"tick", "exited"}
               PROVE  SleepInv'
      BY <1>1, <1>2, <1>3
  <1>4. ASSUME NEW m \in Msg, NEW d \in Delay, Enqueue(m, d)
        PROVE  FALSE
      BY <1>4 DEF TypeOK, Enqueue, Stirred
  <1>5. ASSUME NEW S \in SUBSET Msg, NEW d \in Lease, Dequeue(S, d)
        PROVE  FALSE
      BY <1>5 DEF TypeOK, Dequeue, Stirred
  <1>6. ASSUME NEW m \in Msg, Nack(m)
        PROVE  FALSE
      BY <1>6 DEF TypeOK, Nack, Stirred
  <1>7. CASE ReturnDurable \/ ReturnLease
      BY <1>7 DEF ReturnDurable, ReturnLease, signal, Stirred
  <1>8. CASE RequestFails \/ CloseMark
      BY <1>8 DEF RequestFails, CloseMark, Accepts
  <1>9. ASSUME NEW m \in Msg, Ack(m)
        PROVE  SleepInv'
    <2>1. Pending' \subseteq Pending
        BY <1>9, AckPending
    <2>2. /\ pc' = pc /\ next' = next /\ timer' = timer
          /\ Accepts /\ ~Stirred
        BY <1>9 DEF Ack, loop, chans, flags, Stirred, Accepts
    <2>3. QED
        BY <2>1, <2>2 DEF SleepInv, DeadlineHeld, NothingSleptPast, Covers
  <1>10. CASE Tick
    <2>1. CASE failed \/ closed
        BY <1>10, <2>1 DEF Tick, TickNothing, Accepts, flags
    <2>2. CASE TickWork
      <3>1. next' \in Earliest(Pending')
          BY <2>2 DEF TickWork, nextDeadline
      <3>2. pc' \in {"settle", "compact", "reset"}
          BY <2>2 DEF TickWork, Unlocked
      <3>3. IF next' = NoTime THEN Pending' = {} ELSE Covers(next)'
        <4>1. CASE Pending' = {}
            BY <3>1, <4>1 DEF Earliest
        <4>2. CASE Pending' # {}
          <5>1. next' \in Pending' /\ \A d \in Pending' : next' <= d
              BY <3>1, <4>2 DEF Earliest
          <5>2. Pending' \subseteq Nat
            <6>1. TypeOK'
                BY <2>2, TickWorkType
            <6>2. QED
                BY <6>1 DEF TypeOK, Pending, Deadlines
          <5>3. next' # NoTime
              BY <5>1, <5>2, RunLoopAssumption
          <5>4. QED
              BY <5>1, <5>3 DEF Covers
        <4>3. QED
            BY <4>1, <4>2
      <3>4. QED
          BY <3>2, <3>3 DEF SleepInv, DeadlineHeld, NothingSleptPast
    <2>3. QED
        BY <1>10, <2>1, <2>2 DEF Tick
  <1>11. CASE Settle \/ AutoCompact \/ RequestedCompact \/ CloseDone
    <2>1. UNCHANGED index /\ next' = next /\ timer' = timer
        BY <1>11 DEF Settle, AutoCompact, RequestedCompact, CloseDone, loop
    <2>2. \/ pc' = pc
          \/ /\ pc \in {"settle", "compact"}
             /\ pc' \in {"compact", "reset"}
        BY <1>11 DEF Settle, AutoCompact, RequestedCompact, CloseDone, loop
    <2>3. Accepts /\ ~Stirred
      <3>1. CASE Settle
          BY <3>1 DEF Settle, Accepts, Stirred, chans, TypeOK
      <3>2. CASE AutoCompact \/ RequestedCompact
          BY <3>2 DEF AutoCompact, RequestedCompact, CompactRefused, CompactGivenUp,
                      CompactFatal, CompactDone, Accepts, Stirred, chans
      <3>3. CASE CloseDone
          BY <3>3 DEF CloseDone, Accepts, Stirred, chans
      <3>4. QED
          BY <1>11, <3>1, <3>2, <3>3
    <2>4. QED
        BY <2>1, <2>2, <2>3, PendingKept DEF SleepInv, DeadlineHeld, NothingSleptPast, Covers
  <1>12. CASE Reset
    <2>1. UNCHANGED index /\ pc = "reset" /\ pc' = "select" /\ Accepts /\ ~Stirred
        BY <1>12 DEF Reset, flags, chans, Accepts, Stirred
    <2>2. CASE next = NoTime
      <3>1. Pending' = {}
          BY <2>1, <2>2, PendingKept DEF SleepInv, DeadlineHeld
      <3>2. QED
          BY <2>1, <3>1 DEF SleepInv, DeadlineHeld, NothingSleptPast, Covers
    <2>3. CASE next # NoTime
      <3>1. Covers(next) /\ next \in Nat /\ timer' = Larger(next, 1)
          BY <1>12, <2>1, <2>3 DEF SleepInv, DeadlineHeld, Reset, TypeOK
      <3>2. timer' <= 1 \/ timer' = next
          BY <3>1 DEF Larger
      <3>3. timer' <= 1 \/ \A d \in Pending' : timer' <= d
          BY <2>1, <3>1, <3>2, PendingKept DEF Covers
      <3>4. QED
          BY <2>1, <3>3 DEF SleepInv, DeadlineHeld, NothingSleptPast, Covers
    <2>4. QED
        BY <2>2, <2>3
  <1>13. CASE SelectWake \/ SelectTimer \/ SelectDone
      BY <1>13 DEF SelectWake, SelectTimer, SelectDone
  <1>14. CASE Advance
    <2>1. /\ pc' = pc /\ Accepts /\ ~Stirred
          /\ next' = IF next = NoTime THEN NoTime ELSE Less(next)
          /\ pc = "select" => timer' = Less(timer)
        BY <1>14 DEF Advance, flags, chans, Accepts, Stirred
    <2>2. DeadlineHeld'
      <3> SUFFICES ASSUME pc \in {"settle", "compact", "reset"}
                   PROVE  IF next' = NoTime THEN Pending' = {} ELSE Covers(next)'
          BY <2>1 DEF DeadlineHeld
      <3>1. CASE next = NoTime
          BY <1>14, <2>1, <3>1, AdvancePending DEF SleepInv, DeadlineHeld
      <3>2. CASE next # NoTime
        <4>1. next \in Nat /\ Covers(next)
            BY <2>1, <3>2 DEF TypeOK, SleepInv, DeadlineHeld
        <4>2. next' \in Nat /\ next' = Less(next)
            BY <2>1, <3>2, <4>1, LessFacts
        <4>3. \A d \in Pending' : Less(next) <= d
            BY <1>14, <4>1, AdvancePending DEF Covers
        <4>4. QED
            BY <4>2, <4>3, RunLoopAssumption DEF Covers
      <3>3. QED
          BY <3>1, <3>2
    <2>3. NothingSleptPast'
      <3> SUFFICES ASSUME pc = "select"
                   PROVE  timer' <= 1 \/ Covers(timer)'
          BY <2>1 DEF NothingSleptPast
      <3>1. timer' = Less(timer) /\ timer \in Nat /\ (timer <= 1 \/ Covers(timer))
          BY <2>1 DEF TypeOK, SleepInv, NothingSleptPast
      <3>2. CASE timer <= 1
          BY <3>1, <3>2, LessFacts DEF Less
      <3>3. CASE Covers(timer)
        <4>1. \A d \in Pending' : Less(timer) <= d
            BY <1>14, <3>1, <3>3, AdvancePending DEF Covers
        <4>2. QED
            BY <3>1, <4>1 DEF Covers
      <3>4. QED
          BY <3>1, <3>2, <3>3
    <2>4. QED
        BY <2>2, <2>3 DEF SleepInv
  <1>15. CASE UNCHANGED vars
    <2>1. UNCHANGED index /\ UNCHANGED <<pc, next, timer>> /\ Accepts /\ ~Stirred
        BY <1>15 DEF vars, flags, chans, loop, Accepts, Stirred
    <2>2. QED
        BY <2>1, PendingKept DEF SleepInv, DeadlineHeld, NothingSleptPast, Covers
  <1>16. QED
      BY <1>4, <1>5, <1>6, <1>7, <1>8, <1>9, <1>10, <1>11, <1>12, <1>13, <1>14, <1>15
      DEF Next, Request, Signals, Loop

\* run never sleeps past the deadline of a delayed message, a lease, an aging or a
\* purge, unless a request is about to wake it.
THEOREM NoDeadlineMissed == Spec => []NothingSleptPast
  <1>1. SleepInv => NothingSleptPast
      BY DEF SleepInv
  <1>2. Spec => []SleepInv
      BY LoopTypeCorrect, InitSleep, NextSleep, PTL DEF Spec
  <1>3. QED
      BY <1>1, <1>2, PTL

-----------------------------------------------------------------------------
LEMMA InitPace == Init => PaceInv
  BY RunLoopAssumption DEF Init, PaceInv

\* A successful Compact keeps the bound and moves the floor with the snapshot.
LEMMA CompactDonePace ==
    ASSUME TypeOK, PaceInv, CompactDone
    PROVE  size' <= MaxSize /\ floor' = 2 * compacted'
  BY RunLoopAssumption DEF TypeOK, PaceInv, CompactDone

\* Only a compaction shortens the log; one that comes between tick's decision and
\* its own rewrite is recorded.
LEMMA NextPace == TypeOK /\ PaceInv /\ [Next]_vars => PaceInv'
  <1> SUFFICES ASSUME TypeOK, PaceInv, [Next]_vars
               PROVE  PaceInv'
      OBVIOUS
  <1>1. ASSUME UNCHANGED <<pc, trigger, raced, floor, compacted>>, size' = Grown(1)
        PROVE  PaceInv'
    <2>1. size' \in Nat /\ size' <= MaxSize /\ size <= size'
        BY <1>1, GrownFacts DEF TypeOK, PaceInv
    <2>2. QED
        BY <1>1, <2>1, RunLoopAssumption DEF TypeOK, PaceInv
  <1>2. ASSUME UNCHANGED <<pc, trigger, compaction>>
        PROVE  PaceInv'
      BY <1>2 DEF PaceInv, compaction
  <1>3. ASSUME NEW m \in Msg, NEW d \in Delay, Enqueue(m, d)
        PROVE  PaceInv'
      BY <1>1, <1>3 DEF Enqueue, loop
  <1>4. ASSUME NEW S \in SUBSET Msg, NEW d \in Lease, Dequeue(S, d)
        PROVE  PaceInv'
      BY <1>2, <1>4 DEF Dequeue, loop
  <1>5. ASSUME NEW m \in Msg, Ack(m)
        PROVE  PaceInv'
      BY <1>1, <1>5 DEF Ack, loop
  <1>6. ASSUME NEW m \in Msg, Nack(m)
        PROVE  PaceInv'
      BY <1>1, <1>6 DEF Nack, loop
  <1>7. CASE ReturnDurable \/ ReturnLease \/ RequestFails \/ CloseMark \/ CloseDone
      BY <1>2, <1>7 DEF ReturnDurable, ReturnLease, RequestFails, CloseMark,
                        CloseDone, loop
  <1>8. CASE RequestedCompact
    <2>1. CASE CompactFatal
        BY <1>8, <2>1 DEF RequestedCompact, CompactFatal, CompactDone, PaceInv, loop
    <2>2. CASE CompactDone /\ raced' = (raced \/ trigger)
        BY <1>8, <2>2, CompactDonePace DEF RequestedCompact, PaceInv, loop
    <2>3. QED
        BY <1>8, <2>1, <2>2 DEF RequestedCompact
  <1>9. CASE Tick
    <2>1. CASE TickNothing
        BY <2>1 DEF TickNothing, PaceInv, compaction
    <2>2. CASE TickWork
      <3>1. PICK E \in SUBSET Due :
                /\ size' = Grown(Cardinality(E))
                /\ trigger' = (E = Due /\ shouldCompact(Cardinality(E)))
                /\ Unlocked(E)
                /\ UNCHANGED <<floor, compacted, raced>>
          BY <2>2 DEF TickWork
      <3>2. size' \in Nat /\ size' <= MaxSize
          BY <3>1, ExpiredCount, GrownFacts DEF TypeOK
      <3>3. trigger' => size' >= floor'
          BY <3>1 DEF shouldCompact
      <3>4. pc' = "compact" => trigger'
          BY <3>1 DEF Unlocked
      <3>5. QED
          BY <3>1, <3>2, <3>3, <3>4 DEF PaceInv
    <2>3. QED
        BY <1>9, <2>1, <2>2 DEF Tick
  <1>10. CASE Settle
      BY <1>10 DEF Settle, PaceInv, compaction
  <1>11. CASE AutoCompact
    <2>1. CASE CompactDone
        BY <1>11, <2>1, CompactDonePace DEF AutoCompact, PaceInv
    <2>2. CASE CompactRefused \/ CompactGivenUp \/ CompactFatal
        BY <1>11, <2>2 DEF AutoCompact, CompactRefused, CompactGivenUp, CompactFatal, PaceInv
    <2>3. QED
        BY <1>11, <2>1, <2>2 DEF AutoCompact
  <1>12. CASE Reset \/ SelectWake \/ SelectTimer \/ SelectDone
      BY <1>12 DEF Reset, SelectWake, SelectTimer, SelectDone, PaceInv, compaction
  <1>13. CASE Advance
      BY <1>2, <1>13 DEF Advance
  <1>14. CASE UNCHANGED vars
      BY <1>2, <1>14 DEF vars, loop
  <1>15. QED
      BY <1>3, <1>4, <1>5, <1>6, <1>7, <1>8, <1>9, <1>10, <1>11, <1>12, <1>13, <1>14
      DEF Next, Request, Signals, Loop

\* compactFloor paces automatic compactions: tick's Compact rewrites a log only
\* after it doubled, unless a requested compaction came after tick's decision.
THEOREM CompactionPaced == Spec => AutoCompactPaced
  <1>1. TypeOK /\ PaceInv /\ [Next]_vars =>
            [AutoCompact /\ CompactDone => raced \/ size >= 2 * compacted]_vars
      BY DEF AutoCompact, PaceInv
  <1>2. Spec => []PaceInv
      BY LoopTypeCorrect, InitPace, NextPace, PTL DEF Spec
  <1>3. QED
      BY <1>1, <1>2, LoopTypeCorrect, PTL DEF Spec, AutoCompactPaced
=============================================================================
