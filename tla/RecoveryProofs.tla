-------------------------- MODULE RecoveryProofs --------------------------
(***************************************************************************)
(* What the history of a queue comes to over any number of compactions,    *)
(* crashes and restarts: deliveries stay within the attempts allowed, no   *)
(* log that the queue can leave is refused, its replay has every message   *)
(* that was confirmed and none whose ack was, Seq goes on growing and      *)
(* dedup windows hold.                                                     *)
(***************************************************************************)
EXTENDS MCQueue, QueueProofs

-----------------------------------------------------------------------------
\* The records of a snapshot, one by one.
LEMMA SnapshotRecord ==
    ASSUME NEW s, NEW a, NEW b, NEW L, NEW R, Written(s, a, b, L, R), NEW k \in 1 .. Len(s)
    PROVE  \/ k = 1 /\ s[k] = Meta(ix.nextSeq) /\ s[k].type = "META"
           \/ \E i \in 1 .. a : /\ k = 1 + i /\ L[i] \in DOMAIN ix.msgs
                                /\ s[k] = EnqueueRec(L[i], ix.msgs[L[i]])
                                /\ s[k].type = "ENQUEUE"
           \/ \E i \in 1 .. b : /\ k = 1 + a + i /\ R[i] \in orphans
                                /\ s[k] = DedupRec(R[i], ix.dedup[R[i]])
                                /\ s[k].type = "DEDUP"
  <1>0. a \in Nat /\ b \in Nat /\ Len(s) = 1 + a + b
      BY DEF Written
  <1>1. k = 1 \/ k - 1 \in 1 .. a \/ k - 1 - a \in 1 .. b
      BY <1>0
  <1>2. CASE k = 1
      BY <1>2 DEF Written, Meta
  <1>3. CASE k - 1 \in 1 .. a
    <2>1. PICK i \in 1 .. a : k = 1 + i
      <3>1. k = 1 + (k - 1)
          BY <1>0
      <3>2. QED
          BY <1>3, <3>1, Zenon
    <2>2. L[i] \in DOMAIN ix.msgs /\ s[k] = EnqueueRec(L[i], ix.msgs[L[i]])
        BY <2>1 DEF Written
    <2>3. s[k].type = "ENQUEUE"
        BY <2>2, EncodeFacts
    <2>4. QED
        BY <2>1, <2>2, <2>3
  <1>4. CASE k - 1 - a \in 1 .. b
    <2>1. PICK i \in 1 .. b : k = 1 + a + i
      <3>1. k = 1 + a + (k - 1 - a)
          BY <1>0
      <3>2. QED
          BY <1>4, <3>1, Zenon
    <2>2. R[i] \in orphans /\ s[k] = DedupRec(R[i], ix.dedup[R[i]])
      <3>1. R[i] \in orphans
          BY <2>1 DEF Written
      <3>2. s[1 + a + i] = DedupRec(R[i], ix.dedup[R[i]])
          BY <2>1, Zenon DEF Written
      <3>3. QED
          BY <2>1, <3>1, <3>2
    <2>3. DedupRec(R[i], ix.dedup[R[i]]).type = "DEDUP"
        BY DEF DedupRec
    <2>4. QED
        BY <2>1, <2>2, <2>3
  <1>5. QED
      BY <1>1, <1>2, <1>3, <1>4

-----------------------------------------------------------------------------
\* No message is alive with its attempts used up.
Spared(s) ==
    \A k \in 1 .. Len(s) :
        s[k].type = "ENQUEUE" /\ ~s[k].m.dead => s[k].m.attempts < MaxAttempts

SparedInv ==
    /\ Spared(log) /\ Spared(snap)
    /\ \A x \in DOMAIN ix.msgs :
         ix.msgs[x].state # "dead" => ix.msgs[x].attempts < MaxAttempts

\* The deliveries b allows by now, all made if the message is dead, and
\* otherwise one for every attempt and for the one it is out for.
Handed(b) ==
    \A x \in Ids :
        /\ x > Len(born) => deliveries[x] = 0
        /\ phase # "up" => deliveries[x] <= b
        /\ phase = "up" =>
             /\ deliveries[x] <= b + MaxAttempts
             /\ x \in DOMAIN ix.msgs /\ ix.msgs[x].state # "dead" =>
                  deliveries[x] <= b + ix.msgs[x].attempts
                                   + (IF ix.msgs[x].state = "inflight" THEN 1 ELSE 0)

DeliveryInv == SparedInv /\ Handed(MaxAttempts * stops)

LEMMA SparedAppend ==
    ASSUME NEW s \in Seq(LogRecord), Spared(s), NEW r \in LogRecord,
           r.type = "ENQUEUE" /\ ~r.m.dead => r.m.attempts < MaxAttempts
    PROVE  Spared(Append(s, r))
  <1> DEFINE t == Append(s, r)
  <1>1. /\ Len(t) = Len(s) + 1 /\ \A k \in 1 .. Len(s) : t[k] = s[k]
        /\ t[Len(s) + 1] = r
      BY AppendFacts
  <1> HIDE DEF t
  <1>2. Spared(t)
      BY <1>1 DEF Spared
  <1>3. QED
      BY <1>2 DEF t

LEMMA SparedPrefix ==
    ASSUME NEW s \in Seq(LogRecord), Spared(s), NEW n \in 0 .. Len(s)
    PROVE  Spared(SubSeq(s, 1, n))
  <1> DEFINE t == SubSeq(s, 1, n)
  <1>1. Len(t) = n /\ \A k \in 1 .. n : t[k] = s[k]
      BY PrefixFacts
  <1> HIDE DEF t
  <1>2. Spared(t)
      BY <1>1 DEF Spared
  <1>3. QED
      BY <1>2 DEF t

LEMMA SparedStep ==
    ASSUME TypeInv, SparedInv, Classified
    PROVE  SparedInv'
  <1>0. /\ log \in Seq(LogRecord) /\ durable \in 0 .. Len(log) /\ MaxAttempts \in Nat \ {0}
        /\ ix \in Index(Ids)
      BY ConfigAssumption DEF TypeInv, StoreOK, ValidConfig, IndexOK
  <1>00. \A x \in DOMAIN ix.msgs : ix.msgs[x].attempts \in Nat
      BY <1>0, Fields DEF Message
  <1>1. CASE Quiet
      BY <1>1 DEF Quiet, Calm, SameEntry, SparedInv, Spared
  <1>2. CASE \E S \in SUBSET Ids : Serve(S)
      BY <1>2 DEF Serve, SameEntry, SparedInv, Spared
  <1>3. CASE \E w \in waiting : Return(w)
    <2>1. UNCHANGED <<log, snap, ix>>
        BY <1>3, Zenon DEF Return, logV, disk
    <2>2. QED
        BY <2>1 DEF SparedInv, Spared
  <1>4. ASSUME NEW d \in DedupId \cup {NoDedup}, NEW p \in Priority, NEW delay \in Delay,
               EnqueueStep(d, p, delay)
        PROVE  SparedInv'
    <2> DEFINE id == Len(born) + 1
               m == Fresh(d, p, delay)
               r == EnqueueRec(id, m)
    <2>1. /\ r \in LogRecord /\ m.attempts = 0
          /\ DOMAIN ix'.msgs = DOMAIN ix.msgs \cup {id}
          /\ SameBut(ix, ix', id) /\ SameEntry(m, ix'.msgs[id])
          /\ log' = Append(log, r)
        BY <1>4, EnqueueFacts
    <2>2. r.m.attempts = m.attempts
        BY EncodeFacts DEF SameEntry
    <2>3. snap' = snap
        BY <1>4, Zenon DEF EnqueueStep
    <2> HIDE DEF m, id, r
    <2>4. Spared(log')
        BY <1>0, <2>1, <2>2, SparedAppend DEF SparedInv
    <2>5. QED
        BY <1>0, <2>1, <2>3, <2>4 DEF SparedInv, Spared, SameBut, SameEntry
  <1>5. ASSUME NEW id \in Ids, AckStep(id)
        PROVE  SparedInv'
    <2>1. AckRec(id) \in LogRecord /\ AckRec(id).type = "ACK"
        BY <1>5, AckFacts DEF AckRec
    <2>2. Spared(Append(log, AckRec(id)))
        BY <1>0, <2>1, SparedAppend DEF SparedInv
    <2>3. log' = Append(log, AckRec(id)) /\ snap' = snap
        BY <1>5, Zenon DEF AckStep
    <2>4. \A x \in DOMAIN ix'.msgs : x \in DOMAIN ix.msgs /\ ix'.msgs[x] = ix.msgs[x]
        BY <1>5, AckFacts DEF SameBut
    <2>5. QED
        BY <2>2, <2>3, <2>4 DEF SparedInv
  <1>6. ASSUME NEW id \in Ids, NEW r \in LogRecord, AttemptStep(id, r)
        PROVE  SparedInv'
    <2>1. /\ r.type \in {"NACK", "LEASE_EXPIRE"}
          /\ DOMAIN ix'.msgs = DOMAIN ix.msgs /\ SameBut(ix, ix', id)
          /\ ix'.msgs[id].attempts = ix.msgs[id].attempts + 1
          /\ ix.msgs[id].attempts + 1 >= MaxAttempts => ix'.msgs[id].state = "dead"
        BY <1>6, AttemptFacts
    <2>2. log' = Append(log, r) /\ snap' = snap /\ id \in DOMAIN ix.msgs
        BY <1>6, Zenon DEF AttemptStep
    <2>3. Spared(log')
        BY <1>0, <2>1, <2>2, SparedAppend DEF SparedInv
    <2>4. QED
        BY <1>0, <1>00, <2>1, <2>2, <2>3 DEF SparedInv, SameBut
  <1>7. CASE InstallStep
    <2>1. /\ Snapshot(snap') /\ UNCHANGED <<log, ix>>
        BY <1>7, Zenon DEF InstallStep
    <2>2. PICK a, b, L, R : Written(snap', a, b, L, R)
        BY <2>1, SnapshotWritten
    <2>3. ASSUME NEW k \in 1 .. Len(snap'), snap'[k].type = "ENQUEUE", ~snap'[k].m.dead
          PROVE  snap'[k].m.attempts < MaxAttempts
      <3>1. PICK i \in 1 .. a : /\ L[i] \in DOMAIN ix.msgs
                                /\ snap'[k] = EnqueueRec(L[i], ix.msgs[L[i]])
          BY <2>2, <2>3, SnapshotRecord
      <3>2. PICK m : m = ix.msgs[L[i]]
          OBVIOUS
      <3>3. snap'[k].m.attempts = m.attempts /\ snap'[k].m.dead = (m.state = "dead")
          BY <3>1, <3>2, EncodeFacts DEF SameEntry
      <3>4. m.state # "dead"
          BY <2>3, <3>3, Zenon
      <3>5. QED
          BY <3>1, <3>2, <3>3, <3>4 DEF SparedInv
    <2>4. QED
        BY <2>1, <2>3 DEF SparedInv, Spared
  <1>8. CASE ReopenStep
    <2>1. log' = snap /\ snap' = <<>> /\ ix' = ix
        BY <1>8, Zenon DEF ReopenStep
    <2>2. QED
        BY <2>1 DEF SparedInv, Spared
  <1>9. CASE StopStep
    <2>1. snap' = <<>> /\ ix' = EmptyIndex
        BY <1>9, StopFacts
    <2>2. Spared(snap') /\ DOMAIN ix'.msgs = {}
        BY <2>1, EmptyIndexFacts DEF Spared
    <2>3. log' = snap \/ \E k \in durable .. Len(log) : log' = SubSeq(log, 1, k)
        BY <1>9, StopFacts
    <2>4. \A k \in durable .. Len(log) : k \in 0 .. Len(log)
        BY <1>0
    <2>5. Spared(log')
        BY <1>0, <2>3, <2>4, SparedPrefix DEF SparedInv
    <2>6. QED
        BY <2>2, <2>5 DEF SparedInv
  <1>10. CASE Load
    <2>1. log' = log /\ snap' = snap
        BY <1>10, LoadCases, Zenon DEF LoadStep, RefusedStep
    <2>2. CASE LoadStep
      <3>1. PICK r : r = log[pos + 1]
          OBVIOUS
      <3>2. /\ r \in LogRecord /\ Replayed(ix, ix', r, now) /\ pos + 1 \in 1 .. Len(log)
          BY <2>2, <3>1, LoadFacts
      <3>3. r.type = "ENQUEUE" /\ ~r.m.dead => r.m.attempts < MaxAttempts
          BY <3>1, <3>2 DEF SparedInv, Spared
      <3>4. r.type \in {"META", "ENQUEUE", "ACK", "NACK", "LEASE_EXPIRE", "DEDUP"}
          BY <3>2, RecordFacts
      <3>5. ASSUME NEW x \in DOMAIN ix'.msgs, ix'.msgs[x].state # "dead"
            PROVE  ix'.msgs[x].attempts < MaxAttempts
        <4>1. CASE r.type \in {"META", "DEDUP"}
            BY <3>2, <3>5, <4>1 DEF SparedInv, Replayed
        <4>2. CASE r.type = "ENQUEUE"
            BY <3>2, <3>3, <3>5, <4>2 DEF SparedInv, Replayed, SameBut, SameEntry
        <4>3. CASE r.type = "ACK"
            BY <3>2, <3>5, <4>3 DEF SparedInv, Replayed, SameBut
        <4>4. CASE r.type \in {"NACK", "LEASE_EXPIRE"}
            BY <1>0, <1>00, <3>2, <3>5, <4>4 DEF SparedInv, Replayed, SameBut
        <4>5. QED
            BY <3>4, <4>1, <4>2, <4>3, <4>4
      <3>6. QED
          BY <2>1, <3>5 DEF SparedInv, Spared
    <2>3. CASE ~LoadStep
      <3>1. ix' = ix
          BY <1>10, <2>3, LoadCases, Zenon DEF RefusedStep
      <3>2. QED
          BY <2>1, <3>1 DEF SparedInv, Spared
    <2>4. QED
        BY <2>2, <2>3
  <1>11. QED
      BY <1>1, <1>2, <1>3, <1>4, <1>5, <1>6, <1>7, <1>8, <1>9, <1>10 DEF Classified

LEMMA HandedStep ==
    ASSUME TypeInv, SparedInv, Classified, NEW b \in Nat, Handed(b), ~StopStep
    PROVE  Handed(b)'
  <1>0. /\ MaxAttempts \in Nat \ {0} /\ ix \in Index(Ids) /\ Len(born) \in Nat
        /\ DOMAIN ix.msgs \subseteq 1 .. Len(born)
      BY ConfigAssumption DEF TypeInv, ValidConfig, IndexOK, HistoryOK
  <1>00. \A x \in DOMAIN ix.msgs : ix.msgs[x].attempts \in Nat
      BY <1>0, Fields DEF Message
  <1>01. \A x \in Ids : deliveries[x] \in Nat /\ x \in Nat
      BY QueueAssumption DEF TypeInv, HistoryOK, Ids
  <1>1. CASE Quiet
    <2>1. /\ UNCHANGED <<phase, born, deliveries>> /\ DOMAIN ix'.msgs = DOMAIN ix.msgs
          /\ \A x \in DOMAIN ix.msgs :
               /\ ix'.msgs[x].attempts = ix.msgs[x].attempts
               /\ \/ ix'.msgs[x].state = ix.msgs[x].state
                  \/ ix.msgs[x].state = "delayed" /\ ix'.msgs[x].state = "ready"
        BY <1>1 DEF Quiet, Calm, SameEntry
    <2>2. QED
        BY <2>1 DEF Handed
  <1>2. ASSUME NEW S \in SUBSET Ids, Serve(S)
        PROVE  Handed(b)'
    <2>1. ASSUME NEW x \in Ids
          PROVE  /\ x > Len(born) => deliveries'[x] = 0
                 /\ deliveries'[x] <= b + MaxAttempts
                 /\ x \in DOMAIN ix'.msgs /\ ix'.msgs[x].state # "dead" =>
                      deliveries'[x] <= b + ix'.msgs[x].attempts
                                       + (IF ix'.msgs[x].state = "inflight" THEN 1 ELSE 0)
      <3>1. CASE x \in S
        <4>1. x \in DOMAIN ix.msgs /\ x <= Len(born)
            BY <1>0, <1>2, <3>1 DEF Serve
        <4>2. deliveries[x] <= b + ix.msgs[x].attempts
            BY <1>0, <1>00, <1>01, <1>2, <3>1, <4>1 DEF Serve, Handed
        <4>3. deliveries'[x] <= deliveries[x] + 1
            BY <1>2, <3>1, <1>01 DEF Serve
        <4>4. ix.msgs[x].attempts < MaxAttempts
            BY <1>2, <3>1, <4>1 DEF Serve, SparedInv
        <4>5. ix'.msgs[x].attempts = ix.msgs[x].attempts /\ ix'.msgs[x].state = "inflight"
            BY <1>2, <3>1, <4>1 DEF Serve, SameEntry
        <4>6. deliveries'[x] \in Nat
            BY <1>2, <3>1, <1>01 DEF Serve
        <4>7. /\ ix.msgs[x].attempts \in Nat /\ deliveries[x] \in Nat /\ x \in Nat
              /\ MaxAttempts \in Nat /\ Len(born) \in Nat
            BY <1>0, <1>00, <1>01, <4>1
        <4>8. /\ deliveries'[x] <= b + ix.msgs[x].attempts + 1
              /\ deliveries'[x] <= b + MaxAttempts
          <5>1. PICK p \in Nat, q \in Nat, n \in Nat, c \in Nat :
                  p = deliveries[x] /\ q = deliveries'[x] /\ n = ix.msgs[x].attempts
                  /\ c = MaxAttempts
              BY <4>6, <4>7, Zenon
          <5>2. q <= p + 1 /\ p <= b + n /\ n < c
              BY <4>2, <4>3, <4>4, <5>1, Zenon
          <5>3. q <= b + n + 1 /\ q <= b + c
              BY <5>2
          <5>4. QED
              BY <5>1, <5>3, Zenon
        <4>9. QED
            BY <4>1, <4>5, <4>7, <4>8
      <3>2. CASE x \notin S
        <4>1. deliveries'[x] = deliveries[x]
            BY <1>2, <3>2, <1>01 DEF Serve
        <4>2. QED
            BY <1>0, <1>00, <1>01, <1>2, <3>2, <4>1 DEF Serve, Handed, SameEntry
      <3>3. QED
          BY <3>1, <3>2
    <2>2. phase' = "up" /\ born' = born
        BY <1>2, Zenon DEF Serve
    <2>3. QED
        BY <2>1, <2>2 DEF Handed
  <1>3. CASE \E w \in waiting : Return(w)
    <2>1. UNCHANGED <<phase, ix, born, deliveries>>
        BY <1>3, Zenon DEF Return, proc
    <2>2. QED
        BY <2>1 DEF Handed
  <1>4. ASSUME NEW d \in DedupId \cup {NoDedup}, NEW p \in Priority, NEW delay \in Delay,
               EnqueueStep(d, p, delay)
        PROVE  Handed(b)'
    <2> DEFINE id == Len(born) + 1
               m == Fresh(d, p, delay)
    <2>1. /\ m.attempts = 0 /\ DOMAIN ix'.msgs = DOMAIN ix.msgs \cup {id}
          /\ SameBut(ix, ix', id) /\ SameEntry(m, ix'.msgs[id])
        BY <1>4, EnqueueFacts
    <2>2. phase = "up" /\ phase' = "up" /\ deliveries' = deliveries
        BY <1>4, Zenon DEF EnqueueStep
    <2>3. Len(born') = Len(born) + 1
        BY <1>4 DEF EnqueueStep, TypeInv, HistoryOK
    <2> HIDE DEF m
    <2>4. QED
        BY <1>0, <1>00, <1>01, <2>1, <2>2, <2>3 DEF Handed, SameBut, SameEntry
  <1>5. ASSUME NEW id \in Ids, AckStep(id)
        PROVE  Handed(b)'
    <2>1. UNCHANGED <<phase, born, deliveries>>
        BY <1>5, Zenon DEF AckStep
    <2>2. \A x \in DOMAIN ix'.msgs : x \in DOMAIN ix.msgs /\ ix'.msgs[x] = ix.msgs[x]
        BY <1>5, AckFacts DEF SameBut
    <2>3. QED
        BY <2>1, <2>2 DEF Handed
  <1>6. ASSUME NEW id \in Ids, NEW r \in LogRecord, AttemptStep(id, r)
        PROVE  Handed(b)'
    <2>1. /\ DOMAIN ix'.msgs = DOMAIN ix.msgs /\ SameBut(ix, ix', id)
          /\ ix'.msgs[id].attempts = ix.msgs[id].attempts + 1
          /\ ix'.msgs[id].state # "inflight"
        BY <1>6, AttemptFacts
    <2>2. UNCHANGED <<phase, born, deliveries>> /\ id \in DOMAIN ix.msgs
          /\ ix.msgs[id].state = "inflight" /\ phase = "up"
        BY <1>6, Zenon DEF AttemptStep
    <2>3. deliveries[id] <= b + ix.msgs[id].attempts + 1
        BY <2>2 DEF Handed
    <2>4. \A x \in DOMAIN ix'.msgs \ {id} : ix'.msgs[x] = ix.msgs[x]
        BY <2>1 DEF SameBut
    <2>5. \A x \in Ids \ {id} :
            x \in DOMAIN ix'.msgs /\ ix'.msgs[x].state # "dead" =>
                deliveries[x] <= b + ix'.msgs[x].attempts
                                 + (IF ix'.msgs[x].state = "inflight" THEN 1 ELSE 0)
        BY <2>1, <2>2, <2>4 DEF Handed
    <2>6. deliveries[id] <= b + ix'.msgs[id].attempts
        BY <1>00, <1>01, <2>1, <2>2, <2>3
    <2>7. QED
        BY <1>00, <1>01, <2>1, <2>2, <2>5, <2>6 DEF Handed
  <1>7. CASE InstallStep \/ ReopenStep
    <2>1. UNCHANGED <<phase, ix, born, deliveries>>
        BY <1>7, Zenon DEF InstallStep, ReopenStep
    <2>2. QED
        BY <2>1 DEF Handed
  <1>8. CASE Load
    <2>1. phase # "up" /\ deliveries' = deliveries /\ born' = born
        BY <1>8, LoadCases, Zenon DEF LoadStep, RefusedStep
    <2>2. CASE phase' # "up"
        BY <2>1, <2>2 DEF Handed
    <2>3. CASE phase' = "up"
      <3>1. ix' = ix
          BY <1>8, <2>1, <2>3, LoadCases, Zenon DEF LoadStep, RefusedStep
      <3>2. QED
          BY <1>0, <1>00, <1>01, <2>1, <2>3, <3>1 DEF Handed
    <2>4. QED
        BY <2>2, <2>3
  <1>9. QED
      BY <1>1, <1>2, <1>3, <1>4, <1>5, <1>6, <1>7, <1>8 DEF Classified

LEMMA DeliveryStep ==
    ASSUME TypeInv, DeliveryInv, [Next]_vars
    PROVE  DeliveryInv'
  <1>0. MaxAttempts \in Nat /\ stops \in Nat
      BY ConfigAssumption, QueueAssumption DEF ValidConfig, TypeInv, CountersOK
  <1>1. Classified
      BY Classify
  <1>2. SparedInv'
      BY <1>1, SparedStep DEF DeliveryInv
  <1>3. PICK B \in Nat : /\ B = MaxAttempts * stops
                         /\ MaxAttempts * (stops + 1) = B + MaxAttempts
      BY <1>0
  <1>4. CASE StopStep
    <2>1. /\ UNCHANGED <<born, deliveries>> /\ phase = "up" /\ phase' = "down"
          /\ stops' = stops + 1
        BY <1>4, StopFacts
    <2>2. Handed(B)
        BY <1>3 DEF DeliveryInv
    <2>3. \A x \in Ids : (x > Len(born) => deliveries[x] = 0) /\ deliveries[x] <= B + MaxAttempts
        BY <2>1, <2>2 DEF Handed
    <2>4. (MaxAttempts * stops)' = B + MaxAttempts
        BY <1>3, <2>1
    <2>5. (Handed(MaxAttempts * stops))'
        BY <2>1, <2>3, <2>4 DEF Handed
    <2>6. QED
        BY <1>2, <2>5 DEF DeliveryInv
  <1>5. CASE ~StopStep
    <2>1. stops' = stops
      <3>1. CASE Load
          BY <3>1, LoadCases, Zenon DEF LoadStep, RefusedStep
      <3>2. CASE ~Load
          BY <1>1, <1>5, <3>2, Zenon DEF Classified, Quiet, Serve, Return, EnqueueStep, AckStep,
             AttemptStep, InstallStep, ReopenStep
      <3>3. QED
          BY <3>1, <3>2
    <2>2. Handed(B)
        BY <1>3 DEF DeliveryInv
    <2>3. Handed(B)'
        BY <1>1, <1>3, <1>5, <2>2, HandedStep DEF DeliveryInv
    <2>4. QED
        BY <1>2, <1>3, <2>1, <2>3 DEF DeliveryInv
  <1>6. QED
      BY <1>4, <1>5

\* Between two restarts a message is handed out at most MaxAttempts times:
\* every delivery ends in an ack, in a record that counts an attempt, or is
\* the one the message is out for, and the last attempt buries the message.
\* A restart forgets only the deliveries that no record counts.
THEOREM DeliveriesBounded == Spec => []DeliveryBound
  <1>1. Init => DeliveryInv
    <2> SUFFICES ASSUME Init PROVE DeliveryInv
        OBVIOUS
    <2>1. log = <<Meta(0)>> /\ snap = <<>> /\ ix = EmptyIndex
        BY Zenon DEF Init
    <2>2. SparedInv
      <3>1. Spared(log) /\ Spared(snap)
          BY <2>1 DEF Spared, Meta
      <3>2. QED
          BY <2>1, <3>1, EmptyIndexFacts DEF SparedInv
    <2>3. Handed(MaxAttempts * stops)
      <3>1. MaxAttempts \in Nat
          BY ConfigAssumption DEF ValidConfig
      <3>2. stops = 0 /\ \A x \in Ids : deliveries[x] = 0
          BY DEF Init
      <3>3. MaxAttempts * stops = 0
          BY <3>1, <3>2
      <3>4. QED
          BY <2>1, <3>1, <3>2, <3>3, EmptyIndexFacts DEF Handed
    <2>4. QED
        BY <2>2, <2>3 DEF DeliveryInv
  <1>2. TypeInv /\ DeliveryInv /\ [Next]_vars => DeliveryInv'
      BY DeliveryStep
  <1>3. TypeInv /\ DeliveryInv => DeliveryBound
    <2> SUFFICES ASSUME TypeInv, DeliveryInv PROVE DeliveryBound
        OBVIOUS
    <2>1. MaxAttempts \in Nat /\ stops \in Nat
        BY ConfigAssumption, QueueAssumption DEF ValidConfig, TypeInv, CountersOK
    <2> DEFINE B == MaxAttempts * stops
    <2>2. B \in Nat /\ MaxAttempts * (stops + 1) = B + MaxAttempts
        BY <2>1
    <2> HIDE DEF B
    <2>3. \A x \in Ids : deliveries[x] \in Nat /\ (deliveries[x] <= B \/ deliveries[x] <= B + MaxAttempts)
        BY DEF DeliveryInv, Handed, B, TypeInv, HistoryOK
    <2>4. QED
        BY <2>1, <2>2, <2>3 DEF DeliveryBound
  <1>4. QED
      BY <1>1, <1>2, <1>3, TypeInvariant, PTL DEF Spec

-----------------------------------------------------------------------------
(***************************************************************************)
(* What a log says without being replayed.                                 *)
(***************************************************************************)
\* The ids enqueued, and acked, by the first n records of s.
Enq(s, n) == {s[k].m.id : k \in {j \in 1 .. n : s[j].type = "ENQUEUE"}}
Acks(s, n) == {s[k].id : k \in {j \in 1 .. n : s[j].type = "ACK"}}
Live(s, n) == Enq(s, n) \ Acks(s, n)

\* No id is enqueued twice, and every other record is about a live message.
Legal(s) ==
    \A k \in 1 .. Len(s) :
        /\ s[k].type = "ENQUEUE" => s[k].m.id \notin Enq(s, k - 1)
        /\ s[k].type \in {"ACK", "NACK", "LEASE_EXPIRE"} => s[k].id \in Live(s, k - 1)

LEMMA SameUpto ==
    ASSUME NEW s, NEW t, NEW n \in Nat, \A k \in 1 .. n : t[k] = s[k]
    PROVE  \A m \in 0 .. n : /\ Enq(t, m) = Enq(s, m) /\ Acks(t, m) = Acks(s, m)
                             /\ Live(t, m) = Live(s, m)
  <1> SUFFICES ASSUME NEW m \in 0 .. n
               PROVE  Enq(t, m) = Enq(s, m) /\ Acks(t, m) = Acks(s, m)
      BY DEF Live
  <1>1. \A k \in 1 .. m : t[k] = s[k]
      OBVIOUS
  <1>2. Enq(t, m) = Enq(s, m)
      BY <1>1 DEF Enq
  <1>3. Acks(t, m) = Acks(s, m)
      BY <1>1 DEF Acks
  <1>4. QED
      BY <1>2, <1>3

LEMMA Growing ==
    ASSUME NEW s, NEW n \in Nat, NEW m \in 0 .. n
    PROVE  Enq(s, m) \subseteq Enq(s, n) /\ Acks(s, m) \subseteq Acks(s, n)
  BY DEF Enq, Acks

LEMMA OneMore ==
    ASSUME NEW s, NEW n \in Nat
    PROVE  /\ Enq(s, n + 1) = Enq(s, n) \cup (IF s[n + 1].type = "ENQUEUE" THEN {s[n + 1].m.id} ELSE {})
           /\ Acks(s, n + 1) = Acks(s, n) \cup (IF s[n + 1].type = "ACK" THEN {s[n + 1].id} ELSE {})
  <1>1. 1 .. n + 1 = (1 .. n) \cup {n + 1}
      OBVIOUS
  <1>2. QED
      BY <1>1 DEF Enq, Acks

\* Only what was enqueued before is acked.
LEMMA AcksEnqueued ==
    ASSUME NEW s \in Seq(LogRecord), Legal(s), NEW n \in 0 .. Len(s)
    PROVE  Acks(s, n) \subseteq Enq(s, n)
  <1> SUFFICES ASSUME NEW k \in 1 .. n, s[k].type = "ACK"
               PROVE  s[k].id \in Enq(s, n)
      BY DEF Acks
  <1>1. s[k].id \in Enq(s, k - 1)
      BY DEF Legal, Live
  <1>2. k - 1 \in 0 .. n
      OBVIOUS
  <1>3. QED
      BY <1>1, <1>2, Growing

LEMMA LiveNext ==
    ASSUME NEW s \in Seq(LogRecord), Legal(s), NEW n \in 0 .. Len(s) - 1, NEW r, r = s[n + 1]
    PROVE  /\ r.type = "ENQUEUE" => /\ r.m.id \notin Enq(s, n)
                                    /\ Live(s, n + 1) = Live(s, n) \cup {r.m.id}
           /\ r.type = "ACK" => r.id \in Live(s, n) /\ Live(s, n + 1) = Live(s, n) \ {r.id}
           /\ r.type \in {"NACK", "LEASE_EXPIRE"} =>
                r.id \in Live(s, n) /\ Live(s, n + 1) = Live(s, n)
           /\ r.type \in {"META", "DEDUP"} => Live(s, n + 1) = Live(s, n)
  <1>1. n \in Nat /\ n + 1 \in 1 .. Len(s) /\ (n + 1) - 1 = n
      OBVIOUS
  <1>2. /\ r.type = "ENQUEUE" => r.m.id \notin Enq(s, n)
        /\ r.type \in {"ACK", "NACK", "LEASE_EXPIRE"} => r.id \in Live(s, n)
    <2>1. PICK k \in 1 .. Len(s) : k = n + 1 /\ k - 1 = n
        BY <1>1
    <2>2. /\ s[k].type = "ENQUEUE" => s[k].m.id \notin Enq(s, k - 1)
          /\ s[k].type \in {"ACK", "NACK", "LEASE_EXPIRE"} => s[k].id \in Live(s, k - 1)
        BY <2>1, Zenon DEF Legal
    <2>3. QED
        BY <2>1, <2>2
  <1>3. Acks(s, n) \subseteq Enq(s, n)
      BY <1>1, AcksEnqueued
  <1>4. /\ Enq(s, n + 1) = Enq(s, n) \cup (IF r.type = "ENQUEUE" THEN {r.m.id} ELSE {})
        /\ Acks(s, n + 1) = Acks(s, n) \cup (IF r.type = "ACK" THEN {r.id} ELSE {})
      BY <1>1, OneMore
  <1>5. QED
      BY <1>2, <1>3, <1>4 DEF Live

LEMMA LegalAppend ==
    ASSUME NEW s \in Seq(LogRecord), Legal(s), NEW r \in LogRecord,
           r.type = "ENQUEUE" => r.m.id \notin Enq(s, Len(s)),
           r.type \in {"ACK", "NACK", "LEASE_EXPIRE"} => r.id \in Live(s, Len(s))
    PROVE  LET t == Append(s, r)
               n == Len(s)
           IN /\ Legal(t) /\ Len(t) = n + 1
              /\ Enq(t, Len(t)) = Enq(s, n) \cup (IF r.type = "ENQUEUE" THEN {r.m.id} ELSE {})
              /\ Acks(t, Len(t)) = Acks(s, n) \cup (IF r.type = "ACK" THEN {r.id} ELSE {})
              /\ \A m \in 0 .. n : Enq(t, m) = Enq(s, m) /\ Acks(t, m) = Acks(s, m)
  <1> DEFINE t == Append(s, r)
             n == Len(s)
  <1>1. /\ Len(t) = n + 1 /\ n \in Nat /\ (\A k \in 1 .. n : t[k] = s[k])
        /\ r = t[n + 1]
      BY AppendFacts
  <1> HIDE DEF t, n
  <1>2. \A m \in 0 .. n : /\ Enq(t, m) = Enq(s, m) /\ Acks(t, m) = Acks(s, m)
                          /\ Live(t, m) = Live(s, m)
      BY <1>1, SameUpto
  <1>3. Legal(t)
    <2> SUFFICES ASSUME NEW k \in 1 .. n + 1
                 PROVE  /\ t[k].type = "ENQUEUE" => t[k].m.id \notin Enq(t, k - 1)
                        /\ t[k].type \in {"ACK", "NACK", "LEASE_EXPIRE"} =>
                             t[k].id \in Live(t, k - 1)
        BY <1>1 DEF Legal
    <2>1. k - 1 \in 0 .. n /\ (k \in 1 .. n \/ (k = n + 1 /\ k - 1 = n))
        BY <1>1
    <2>2. Enq(t, k - 1) = Enq(s, k - 1) /\ Live(t, k - 1) = Live(s, k - 1)
        BY <1>2, <2>1
    <2>3. CASE k \in 1 .. n
      <3>1. /\ s[k].type = "ENQUEUE" => s[k].m.id \notin Enq(s, k - 1)
            /\ s[k].type \in {"ACK", "NACK", "LEASE_EXPIRE"} => s[k].id \in Live(s, k - 1)
          BY <2>3, Zenon DEF Legal, n
      <3>2. QED
          BY <1>1, <2>2, <2>3, <3>1
    <2>4. CASE k = n + 1 /\ k - 1 = n
      <3>1. t[k] = r
          BY <1>1, <2>4
      <3>2. QED
          BY <2>2, <2>4, <3>1 DEF n
    <2>5. QED
        BY <2>1, <2>3, <2>4
  <1>4. /\ Enq(t, n + 1) = Enq(t, n) \cup (IF r.type = "ENQUEUE" THEN {r.m.id} ELSE {})
        /\ Acks(t, n + 1) = Acks(t, n) \cup (IF r.type = "ACK" THEN {r.id} ELSE {})
      BY <1>1, OneMore
  <1>5. n \in 0 .. n
      BY <1>1
  <1>6. QED
      BY <1>1, <1>2, <1>3, <1>4, <1>5 DEF t, n

\* The same of a log t that has grown by the record r.
Grown(s, r, t) ==
    /\ Legal(t) /\ Len(t) = Len(s) + 1
    /\ Enq(t, Len(t)) = Enq(s, Len(s)) \cup (IF r.type = "ENQUEUE" THEN {r.m.id} ELSE {})
    /\ Acks(t, Len(t)) = Acks(s, Len(s)) \cup (IF r.type = "ACK" THEN {r.id} ELSE {})

LEMMA LegalGrown ==
    ASSUME NEW s \in Seq(LogRecord), Legal(s), NEW r \in LogRecord,
           r.type = "ENQUEUE" => r.m.id \notin Enq(s, Len(s)),
           r.type \in {"ACK", "NACK", "LEASE_EXPIRE"} => r.id \in Live(s, Len(s)),
           NEW t, t = Append(s, r)
    PROVE  Grown(s, r, t)
  BY LegalAppend, Zenon DEF Grown

LEMMA LegalPrefix ==
    ASSUME NEW s \in Seq(LogRecord), Legal(s), NEW n \in 0 .. Len(s)
    PROVE  LET t == SubSeq(s, 1, n)
           IN /\ Legal(t) /\ Len(t) = n
              /\ \A m \in 0 .. n : Enq(t, m) = Enq(s, m) /\ Acks(t, m) = Acks(s, m)
  <1> DEFINE t == SubSeq(s, 1, n)
  <1>1. Len(t) = n /\ n \in Nat /\ \A k \in 1 .. n : t[k] = s[k]
      BY PrefixFacts
  <1> HIDE DEF t
  <1>2. \A m \in 0 .. n : /\ Enq(t, m) = Enq(s, m) /\ Acks(t, m) = Acks(s, m)
                          /\ Live(t, m) = Live(s, m)
      BY <1>1, SameUpto
  <1>3. Legal(t)
    <2> SUFFICES ASSUME NEW k \in 1 .. n
                 PROVE  /\ t[k].type = "ENQUEUE" => t[k].m.id \notin Enq(t, k - 1)
                        /\ t[k].type \in {"ACK", "NACK", "LEASE_EXPIRE"} =>
                             t[k].id \in Live(t, k - 1)
        BY <1>1 DEF Legal
    <2>1. k - 1 \in 0 .. n /\ k \in 1 .. Len(s)
        BY <1>1
    <2>2. /\ s[k].type = "ENQUEUE" => s[k].m.id \notin Enq(s, k - 1)
          /\ s[k].type \in {"ACK", "NACK", "LEASE_EXPIRE"} => s[k].id \in Live(s, k - 1)
        BY <2>1, Zenon DEF Legal
    <2>3. QED
        BY <1>1, <1>2, <2>1, <2>2
  <1>4. QED
      BY <1>1, <1>2, <1>3 DEF t

\* The next id is in no log.
LEMMA NextIdNew ==
    ASSUME TypeInv
    PROVE  Len(born) + 1 \notin Enq(log, Len(log))
  <1>1. Len(born) \in Nat /\ \A k \in 1 .. Len(log) : Knows(log[k], Len(born))
      BY DEF TypeInv, StoreOK, HistoryOK, IdsKnown
  <1>2. \A k \in 1 .. Len(log) : log[k].type = "ENQUEUE" => log[k].m.id \in 1 .. Len(born)
      BY <1>1 DEF Knows
  <1>3. \A x \in Enq(log, Len(log)) : x \in 1 .. Len(born)
      BY <1>2, Zenon DEF Enq
  <1>4. QED
      BY <1>1, <1>3

LEMMA LegalSnapshot ==
    ASSUME TypeInv, NEW s, NEW a, NEW b, NEW L, NEW R, Written(s, a, b, L, R)
    PROVE  Legal(s) /\ Enq(s, Len(s)) = DOMAIN ix.msgs /\ Acks(s, Len(s)) = {}
  <1>0. /\ s \in Seq(LogRecord) /\ Len(s) = 1 + a + b /\ a \in Nat /\ b \in Nat
        /\ L \in [1 .. a -> DOMAIN ix.msgs]
      BY DEF Written
  <1>1. \A k \in 1 .. Len(s) :
          /\ s[k].type \in {"META", "ENQUEUE", "DEDUP"}
          /\ s[k].type = "ENQUEUE" =>
               \E i \in 1 .. a : k = 1 + i /\ L[i] \in DOMAIN ix.msgs /\ s[k].m.id = L[i]
      BY SnapshotRecord, EncodeFacts
  <1>2. \A i \in 1 .. a : 1 + i \in 1 .. Len(s) /\ s[1 + i].type = "ENQUEUE" /\ s[1 + i].m.id = L[i]
    <2> TAKE i \in 1 .. a
    <2>1. s[1 + i] = EnqueueRec(L[i], ix.msgs[L[i]])
        BY DEF Written
    <2>2. QED
        BY <1>0, <2>1, EncodeFacts
  <1>3. \A i, j \in 1 .. a : i < j => L[i] # L[j]
    <2>1. \A i \in 1 .. a : ix.msgs[L[i]].seq \in Nat
      <3>1. \A x \in DOMAIN ix.msgs : ix.msgs[x] \in Message
          BY Fields DEF TypeInv, IndexOK
      <3>2. QED
          BY <1>0, <3>1 DEF Message
    <2> SUFFICES ASSUME NEW i \in 1 .. a, NEW j \in 1 .. a, i < j PROVE L[i] # L[j]
        OBVIOUS
    <2>2. ix.msgs[L[i]].seq < ix.msgs[L[j]].seq
        BY DEF Written
    <2>3. QED
        BY <2>1, <2>2
  <1>4. Acks(s, Len(s)) = {}
      BY <1>1 DEF Acks
  <1>5. Enq(s, Len(s)) = DOMAIN ix.msgs
    <2>1. Enq(s, Len(s)) \subseteq DOMAIN ix.msgs
        BY <1>1 DEF Enq
    <2>2. ASSUME NEW x \in DOMAIN ix.msgs
          PROVE  x \in Enq(s, Len(s))
      <3>1. PICK i \in 1 .. a : L[i] = x
          BY DEF Written
      <3>2. PICK k \in 1 .. Len(s) : s[k].type = "ENQUEUE" /\ s[k].m.id = x
          BY <1>2, <3>1
      <3>3. QED
          BY <3>2 DEF Enq
    <2>3. QED
        BY <2>1, <2>2
  <1>6. Legal(s)
    <2> SUFFICES ASSUME NEW k \in 1 .. Len(s), s[k].type = "ENQUEUE"
                 PROVE  s[k].m.id \notin Enq(s, k - 1)
        BY <1>1 DEF Legal
    <2>1. PICK i \in 1 .. a : k = 1 + i /\ s[k].m.id = L[i]
        BY <1>1
    <2> SUFFICES ASSUME NEW h \in 1 .. k - 1, s[h].type = "ENQUEUE", s[h].m.id = L[i]
                 PROVE  FALSE
        BY <2>1 DEF Enq
    <2>2. h \in 1 .. Len(s)
        BY <1>0
    <2>3. PICK j \in 1 .. a : h = 1 + j /\ s[h].m.id = L[j]
        BY <1>1, <2>2
    <2>4. j < i
        BY <1>0, <2>1, <2>3
    <2>5. QED
        BY <1>3, <2>1, <2>3, <2>4
  <1>7. QED
      BY <1>4, <1>5, <1>6

-----------------------------------------------------------------------------
\* The index and the log agree on which messages are live, also halfway
\* through a replay and in a snapshot about to replace the log.
LiveInv ==
    /\ Legal(log)
    /\ phase # "refused"
    /\ phase = "up" => DOMAIN ix.msgs = Live(log, Len(log))
    /\ phase = "loading" => DOMAIN ix.msgs = Live(log, pos)
    /\ phase = "down" => ix = EmptyIndex
    /\ dir # "log" =>
         /\ Legal(snap)
         /\ Enq(snap, Len(snap)) = DOMAIN ix.msgs /\ Acks(snap, Len(snap)) = {}

LEMMA LiveStep ==
    ASSUME TypeInv, LiveInv, Classified
    PROVE  LiveInv'
  <1>0. /\ log \in Seq(LogRecord) /\ durable \in 0 .. Len(log) /\ Len(log) \in Nat
        /\ pos \in 0 .. Len(log)
      BY DEF TypeInv, StoreOK
  <1>1. CASE Quiet
    <2>1. UNCHANGED <<log, snap, phase, pos>> /\ DOMAIN ix'.msgs = DOMAIN ix.msgs
          /\ (dir' # "log" => dir # "log") /\ (phase # "up" => ix' = ix)
        BY <1>1, Zenon DEF Quiet, Calm
    <2>2. QED
        BY <2>1 DEF LiveInv
  <1>2. CASE \E S \in SUBSET Ids : Serve(S)
    <2>1. UNCHANGED <<log, snap, phase, pos>> /\ DOMAIN ix'.msgs = DOMAIN ix.msgs
          /\ phase = "up" /\ dir' = "log"
        BY <1>2, Zenon DEF Serve
    <2>2. QED
        BY <2>1 DEF LiveInv
  <1>3. CASE \E w \in waiting : Return(w)
    <2>1. UNCHANGED <<log, snap, phase, pos, ix, dir>>
        BY <1>3, Zenon DEF Return, logV, disk, proc
    <2>2. QED
        BY <2>1 DEF LiveInv
  <1>4. ASSUME NEW d \in DedupId \cup {NoDedup}, NEW p \in Priority, NEW delay \in Delay,
               EnqueueStep(d, p, delay)
        PROVE  LiveInv'
    <2> DEFINE id == Len(born) + 1
               m == Fresh(d, p, delay)
               r == EnqueueRec(id, m)
    <2>1. r \in LogRecord /\ DOMAIN ix'.msgs = DOMAIN ix.msgs \cup {id} /\ log' = Append(log, r)
        BY <1>4, EnqueueFacts
    <2>2. r.type = "ENQUEUE" /\ r.m.id = id
        BY EncodeFacts
    <2>3. phase = "up" /\ phase' = "up" /\ dir' = "log"
        BY <1>4, Zenon DEF EnqueueStep
    <2>4. id \notin Enq(log, Len(log))
        BY NextIdNew
    <2> HIDE DEF r, m, id
    <2>5. /\ Legal(log')
          /\ Enq(log', Len(log')) = Enq(log, Len(log)) \cup {id}
          /\ Acks(log', Len(log')) = Acks(log, Len(log))
      <3>1. Legal(log)
          BY DEF LiveInv
      <3>2. /\ r.type = "ENQUEUE" => r.m.id \notin Enq(log, Len(log))
            /\ r.type \in {"ACK", "NACK", "LEASE_EXPIRE"} => r.id \in Live(log, Len(log))
          BY <1>0, <2>1, <2>2, <2>4, <3>1
      <3>3. Grown(log, r, log')
          BY <1>0, <2>1, <2>2, <2>4, <3>1, <3>2, LegalGrown, Zenon
      <3>4. QED
          BY <1>0, <2>1, <2>2, <2>4, <3>1, <3>3 DEF Grown
    <2>6. Acks(log, Len(log)) \subseteq Enq(log, Len(log))
        BY <1>0, AcksEnqueued DEF LiveInv
    <2>7. QED
        BY <2>1, <2>3, <2>4, <2>5, <2>6 DEF LiveInv, Live
  <1>5. ASSUME NEW id \in Ids, AckStep(id)
        PROVE  LiveInv'
    <2>1. /\ AckRec(id) \in LogRecord /\ DOMAIN ix'.msgs = DOMAIN ix.msgs \ {id}
          /\ AckRec(id).type = "ACK" /\ AckRec(id).id = id
        BY <1>5, AckFacts DEF AckRec
    <2>2. /\ phase = "up" /\ phase' = "up" /\ dir' = "log" /\ id \in DOMAIN ix.msgs
          /\ log' = Append(log, AckRec(id))
        BY <1>5, Zenon DEF AckStep
    <2>3. PICK r \in LogRecord : r = AckRec(id) /\ r.type = "ACK" /\ r.id = id
        BY <2>1
    <2>4. /\ Legal(log')
          /\ Enq(log', Len(log')) = Enq(log, Len(log))
          /\ Acks(log', Len(log')) = Acks(log, Len(log)) \cup {id}
      <3>1. Legal(log) /\ id \in Live(log, Len(log)) /\ log' = Append(log, r)
          BY <2>2, <2>3 DEF LiveInv
      <3>2. /\ r.type = "ENQUEUE" => r.m.id \notin Enq(log, Len(log))
            /\ r.type \in {"ACK", "NACK", "LEASE_EXPIRE"} => r.id \in Live(log, Len(log))
          BY <1>0, <2>3, <3>1
      <3>3. Grown(log, r, log')
          BY <1>0, <2>3, <3>1, <3>2, LegalGrown, Zenon
      <3>4. QED
          BY <1>0, <2>3, <3>1, <3>3 DEF Grown
    <2>5. QED
        BY <2>1, <2>2, <2>4 DEF LiveInv, Live
  <1>6. ASSUME NEW id \in Ids, NEW r \in LogRecord, AttemptStep(id, r)
        PROVE  LiveInv'
    <2>1. /\ r.type \in {"NACK", "LEASE_EXPIRE"} /\ r.id = id
          /\ DOMAIN ix'.msgs = DOMAIN ix.msgs
        BY <1>6, AttemptFacts
    <2>2. /\ phase = "up" /\ phase' = "up" /\ dir' = "log" /\ id \in DOMAIN ix.msgs
          /\ log' = Append(log, r)
        BY <1>6, Zenon DEF AttemptStep
    <2>3. /\ Legal(log')
          /\ Enq(log', Len(log')) = Enq(log, Len(log))
          /\ Acks(log', Len(log')) = Acks(log, Len(log))
      <3>1. r.type # "ENQUEUE" /\ r.type # "ACK" /\ r.id \in Live(log, Len(log)) /\ Legal(log)
          BY <2>1, <2>2 DEF LiveInv
      <3>2. /\ Legal(log')
            /\ Enq(log', Len(log'))
                 = Enq(log, Len(log)) \cup (IF r.type = "ENQUEUE" THEN {r.m.id} ELSE {})
            /\ Acks(log', Len(log'))
                 = Acks(log, Len(log)) \cup (IF r.type = "ACK" THEN {r.id} ELSE {})
          BY <1>0, <2>2, <3>1, LegalAppend
      <3>3. QED
          BY <3>1, <3>2
    <2>4. QED
        BY <2>1, <2>2, <2>3 DEF LiveInv, Live
  <1>7. CASE InstallStep
    <2>1. Snapshot(snap') /\ UNCHANGED <<log, ix, phase, pos>>
        BY <1>7, Zenon DEF InstallStep
    <2>2. Legal(snap') /\ Enq(snap', Len(snap')) = DOMAIN ix.msgs /\ Acks(snap', Len(snap')) = {}
        BY <2>1, SnapshotWritten, LegalSnapshot
    <2>3. QED
        BY <2>1, <2>2 DEF LiveInv
  <1>8. CASE ReopenStep
    <2>1. log' = snap /\ ix' = ix /\ dir = "snap" /\ dir' = "log" /\ phase' = "up"
        BY <1>8, Zenon DEF ReopenStep
    <2>2. QED
        BY <2>1 DEF LiveInv, Live
  <1>9. CASE StopStep
    <2>1. /\ ix' = EmptyIndex /\ dir' = "log" /\ phase' = "down"
          /\ \/ \E k \in durable .. Len(log) : log' = SubSeq(log, 1, k)
             \/ dir # "log" /\ log' = snap
        BY <1>9, StopFacts
    <2>2. \A k \in durable .. Len(log) : k \in 0 .. Len(log)
        BY <1>0
    <2>3. Legal(log')
        BY <1>0, <2>1, <2>2, LegalPrefix DEF LiveInv
    <2>4. QED
        BY <2>1, <2>3 DEF LiveInv
  <1>10. CASE Load
    <2>0. UNCHANGED <<log, snap, dir>> /\ phase # "up"
        BY <1>10, LoadCases, Zenon DEF LoadStep, RefusedStep
    <2>1. dir = "log"
        BY <2>0, Zenon DEF TypeInv, ModeOK
    <2>2. CASE LoadStep
      <3>1. PICK r : r = log[pos + 1]
          OBVIOUS
      <3>2. /\ r \in LogRecord /\ Replayed(ix, ix', r, now) /\ pos \in 0 .. Len(log) - 1
          BY <1>0, <2>2, <3>1, LoadFacts
      <3>3. r.type \in {"META", "ENQUEUE", "ACK", "NACK", "LEASE_EXPIRE", "DEDUP"}
          BY <3>2, RecordFacts
      <3>4. phase = "loading" /\ phase' = "loading" /\ pos' = pos + 1
          BY <2>2, Zenon DEF LoadStep
      <3>5. DOMAIN ix.msgs = Live(log, pos) /\ Legal(log)
          BY <3>4 DEF LiveInv
      <3>6. DOMAIN ix'.msgs = Live(log, pos + 1)
        <4>1. /\ r.type = "ENQUEUE" => Live(log, pos + 1) = Live(log, pos) \cup {r.m.id}
              /\ r.type = "ACK" => Live(log, pos + 1) = Live(log, pos) \ {r.id}
              /\ r.type \in {"NACK", "LEASE_EXPIRE"} => Live(log, pos + 1) = Live(log, pos)
              /\ r.type \in {"META", "DEDUP"} => Live(log, pos + 1) = Live(log, pos)
            BY <1>0, <3>1, <3>2, <3>5, LiveNext
        <4>2. /\ r.type = "ENQUEUE" => DOMAIN ix'.msgs = DOMAIN ix.msgs \cup {r.m.id}
              /\ r.type = "ACK" => DOMAIN ix'.msgs = DOMAIN ix.msgs \ {r.id}
              /\ r.type \in {"NACK", "LEASE_EXPIRE"} => DOMAIN ix'.msgs = DOMAIN ix.msgs
              /\ r.type \in {"META", "DEDUP"} => DOMAIN ix'.msgs = DOMAIN ix.msgs
            BY <3>2 DEF Replayed
        <4>3. QED
            BY <3>3, <3>5, <4>1, <4>2
      <3>7. QED
          BY <2>0, <2>1, <3>4, <3>5, <3>6 DEF LiveInv
    <2>3. CASE RefusedStep
      <3>1. PICK r : r = log[pos + 1]
          OBVIOUS
      <3>2. phase = "loading" /\ Refuses(ix, r) /\ pos \in 0 .. Len(log) - 1
          BY <1>0, <2>3, <3>1 DEF RefusedStep
      <3>3. DOMAIN ix.msgs = Live(log, pos) /\ Legal(log)
          BY <3>2 DEF LiveInv
      <3>4. /\ r.type = "ENQUEUE" => r.m.id \notin Enq(log, pos)
            /\ r.type \in {"ACK", "NACK", "LEASE_EXPIRE"} => r.id \in Live(log, pos)
        <4>1. /\ r.type = "ENQUEUE" => r.m.id \notin Enq(log, pos)
              /\ r.type = "ACK" => r.id \in Live(log, pos)
              /\ r.type \in {"NACK", "LEASE_EXPIRE"} => r.id \in Live(log, pos)
            BY <1>0, <3>1, <3>2, <3>3, LiveNext, Zenon
        <4>2. QED
            BY <4>1
      <3>5. FALSE
          BY <3>2, <3>3, <3>4 DEF Refuses, Live
      <3>6. QED
          BY <3>5
    <2>4. CASE phase = "down" /\ phase' = "loading" /\ pos' = 0 /\ ix' = ix
      <3>1. Live(log, 0) = {}
          BY DEF Live, Enq
      <3>2. QED
          BY <2>0, <2>1, <2>4, <3>1, EmptyIndexFacts DEF LiveInv
    <2>5. CASE phase = "loading" /\ phase' = "up" /\ pos = Len(log) /\ ix' = ix
        BY <2>0, <2>1, <2>5 DEF LiveInv
    <2>6. QED
        BY <1>10, <2>2, <2>3, <2>4, <2>5, LoadCases, Zenon
  <1>11. QED
      BY <1>1, <1>2, <1>3, <1>4, <1>5, <1>6, <1>7, <1>8, <1>9, <1>10 DEF Classified

\* The index and the log agree on which messages are live.
LEMMA LiveAlways == Spec => []LiveInv
  <1>1. Init => LiveInv
    <2> SUFFICES ASSUME Init PROVE LiveInv
        OBVIOUS
    <2>1. log = <<Meta(0)>> /\ ix = EmptyIndex /\ phase = "up" /\ dir = "log"
        BY Zenon DEF Init
    <2>2. Len(log) = 1 /\ log[1].type = "META"
        BY <2>1 DEF Meta
    <2>3. Legal(log)
        BY <2>2 DEF Legal
    <2>4. Live(log, Len(log)) = {}
        BY <2>2 DEF Live, Enq
    <2>5. QED
        BY <2>1, <2>3, <2>4, EmptyIndexFacts DEF LiveInv
  <1>2. TypeInv /\ LiveInv /\ [Next]_vars => LiveInv'
      BY Classify, LiveStep
  <1>3. QED
      BY <1>1, <1>2, TypeInvariant, PTL DEF Spec

-----------------------------------------------------------------------------
(***************************************************************************)
(* Replay of a whole log.                                                  *)
(***************************************************************************)
\* What one record makes of the state of a replay.
Fed(acc, r) ==
    IF acc.refused \/ Refuses(acc.ix, r)
    THEN [acc EXCEPT !.refused = TRUE]
    ELSE [acc EXCEPT !.ix = apply(acc.ix, r, now)]

\* f[k] is the state of a replay of s after k records, up to record n.
ReplayedTo(s, n, f) ==
    f = [k \in 0 .. n |-> IF k = 0 THEN [refused |-> FALSE, ix |-> EmptyIndex]
                          ELSE Fed(f[k - 1], s[k])]

LEMMA Least ==
    ASSUME NEW T, T \subseteq Nat, T # {}
    PROVE  \E m \in T : \A x \in T : m <= x
  <1>1. PICK R : R = OpToRel(<, Nat)
      OBVIOUS
  <1>2. IsWellFoundedOn(R, Nat)
      BY <1>1, NatLessThanWellFounded
  <1>3. PICK m \in T : \A x \in T : ~(<<x, m>> \in R)
      BY <1>2, WFMin
  <1>4. \A x, y \in Nat : x < y => <<x, y>> \in R
      BY <1>1 DEF OpToRel
  <1>5. ASSUME NEW x \in T
        PROVE  m <= x
    <2>1. x \in Nat /\ m \in Nat
        OBVIOUS
    <2>2. ~(x < m)
        BY <1>3, <1>4, <2>1, Zenon
    <2>3. QED
        BY <2>1, <2>2
  <1>6. QED
      BY <1>5, Zenon

\* Any log can be replayed: least counterexample.
LEMMA ReplayExists ==
    ASSUME NEW s, NEW n \in Nat
    PROVE  \E f : ReplayedTo(s, n, f)
  <1> DEFINE T == {m \in Nat : ~ \E f : ReplayedTo(s, m, f)}
  <1> SUFFICES ASSUME T # {} PROVE FALSE
      OBVIOUS
  <1>1. PICK m \in T : \A x \in T : m <= x
      BY Least
  <1>2. m \in Nat /\ ~ \E f : ReplayedTo(s, m, f)
      BY <1>1
  <1>3. CASE m = 0
    <2> DEFINE f == [k \in 0 .. 0 |-> [refused |-> FALSE, ix |-> EmptyIndex]]
    <2>1. f = [k \in 0 .. 0 |-> IF k = 0 THEN [refused |-> FALSE, ix |-> EmptyIndex]
                                ELSE Fed(f[k - 1], s[k])]
      <3>1. \A k \in 0 .. 0 : k = 0
          OBVIOUS
      <3>2. QED
          BY <3>1
    <2>2. ReplayedTo(s, 0, f)
        BY <2>1 DEF ReplayedTo
    <2>3. QED
        BY <1>2, <1>3, <2>2
  <1>4. CASE m # 0
    <2>1. m - 1 \in Nat /\ m - 1 \notin T
        BY <1>1, <1>2, <1>4
    <2>2. PICK g : ReplayedTo(s, m - 1, g)
        BY <2>1
    <2> DEFINE f == [k \in 0 .. m |-> IF k = m THEN Fed(g[m - 1], s[m]) ELSE g[k]]
    <2>3. \A k \in 0 .. m : f[k] = IF k = 0 THEN [refused |-> FALSE, ix |-> EmptyIndex]
                                   ELSE Fed(f[k - 1], s[k])
      <3> TAKE k \in 0 .. m
      <3>1. CASE k = m
        <4>1. f[k] = Fed(g[m - 1], s[m])
            BY <3>1
        <4>2. m - 1 \in 0 .. m /\ m - 1 # m
            BY <1>2, <1>4
        <4>3. f[m - 1] = g[m - 1]
            BY <4>2
        <4>4. QED
            BY <1>4, <3>1, <4>1, <4>3
      <3>2. CASE k # m
        <4>1. k \in 0 .. m - 1 /\ (k # 0 => k - 1 \in 0 .. m /\ k - 1 # m)
            BY <1>2, <3>2
        <4>2. g[k] = IF k = 0 THEN [refused |-> FALSE, ix |-> EmptyIndex]
                     ELSE Fed(g[k - 1], s[k])
          <5> HIDE DEF f
          <5>1. g = [h \in 0 .. m - 1 |-> IF h = 0 THEN [refused |-> FALSE, ix |-> EmptyIndex]
                                          ELSE Fed(g[h - 1], s[h])]
              BY <2>2 DEF ReplayedTo
          <5>2. QED
              BY <4>1, <5>1, Zenon
        <4>3. f[k] = g[k] /\ (k # 0 => f[k - 1] = g[k - 1])
            BY <3>2, <4>1
        <4>4. QED
            BY <4>2, <4>3
      <3>3. QED
          BY <3>1, <3>2
    <2>4. f = [k \in 0 .. m |-> f[k]]
        OBVIOUS
    <2> HIDE DEF f
    <2>5. f = [k \in 0 .. m |-> IF k = 0 THEN [refused |-> FALSE, ix |-> EmptyIndex]
                                ELSE Fed(f[k - 1], s[k])]
        BY <2>3, <2>4
    <2>6. ReplayedTo(s, m, f)
        BY <2>5, Zenon DEF ReplayedTo
    <2>7. QED
        BY <1>2, <2>6
  <1>5. QED
      BY <1>3, <1>4

LEMMA ReplayDef ==
    ASSUME NEW s \in Seq(LogRecord)
    PROVE  \E f : ReplayedTo(s, Len(s), f) /\ Replay(s) = f[Len(s)]
  <1> DEFINE Body(f) == [k \in 0 .. Len(s) |->
                           IF k = 0 THEN [refused |-> FALSE, ix |-> EmptyIndex]
                           ELSE LET acc == f[k - 1] IN
                                IF acc.refused \/ Refuses(acc.ix, s[k])
                                THEN [acc EXCEPT !.refused = TRUE]
                                ELSE [acc EXCEPT !.ix = apply(acc.ix, s[k], now)]]
             after == CHOOSE f : f = Body(f)
  <1>1. PICK g : ReplayedTo(s, Len(s), g)
    <2>1. Len(s) \in Nat
        OBVIOUS
    <2>2. QED
        BY <2>1, ReplayExists
  <1>2. \A f : f = Body(f) <=> ReplayedTo(s, Len(s), f)
      BY Zenon DEF ReplayedTo, Fed
  <1>3. ReplayedTo(s, Len(s), after)
      BY <1>1, <1>2, Zenon
  <1>4. Replay(s) = after[Len(s)]
      BY Zenon DEF Replay
  <1>5. QED
      BY <1>3, <1>4

\* A legal log is replayed to its end, and what is left is what it leaves live.
LEMMA ReplayLegal ==
    ASSUME NEW s \in Seq(LogRecord), Legal(s), Enq(s, Len(s)) \subseteq Ids, now \in Nat
    PROVE  ~Replay(s).refused /\ DOMAIN Recovered(s).msgs = Live(s, Len(s))
  <1>1. PICK f : ReplayedTo(s, Len(s), f) /\ Replay(s) = f[Len(s)]
      BY ReplayDef
  <1>2. \A k \in 0 .. Len(s) : f[k] = IF k = 0 THEN [refused |-> FALSE, ix |-> EmptyIndex]
                                      ELSE Fed(f[k - 1], s[k])
    <2> TAKE k \in 0 .. Len(s)
    <2>1. f = [h \in 0 .. Len(s) |-> IF h = 0 THEN [refused |-> FALSE, ix |-> EmptyIndex]
                                     ELSE Fed(f[h - 1], s[h])]
        BY <1>1 DEF ReplayedTo
    <2>2. QED
        BY <2>1, Zenon
  <1>3. Len(s) \in Nat /\ Ids \subseteq Id
      BY QueueAssumption DEF Ids, Id
  <1> DEFINE Fine(k) == /\ f[k] = [refused |-> FALSE, ix |-> f[k].ix]
                        /\ f[k].ix \in Index(Ids) /\ Consistent(f[k].ix)
                        /\ DOMAIN f[k].ix.msgs = Live(s, k)
             T == {k \in 0 .. Len(s) : ~Fine(k)}
  <1>4. T = {}
    <2> SUFFICES ASSUME T # {} PROVE FALSE
        OBVIOUS
    <2>1. T \subseteq Nat
        OBVIOUS
    <2>2. PICK k \in T : \A x \in T : k <= x
        BY <2>1, Least
    <2>3. k \in 0 .. Len(s) /\ ~Fine(k)
        BY <2>2
    <2>4. CASE k = 0
      <3>1. f[0] = [refused |-> FALSE, ix |-> EmptyIndex]
        <4>1. 0 \in 0 .. Len(s)
            BY <1>3
        <4>2. QED
            BY <1>2, <4>1, Zenon
      <3>2. Live(s, 0) = {}
          BY DEF Live, Enq
      <3>3. Fine(0)
        <4>1. f[0].ix = EmptyIndex
            BY <3>1
        <4>2. DOMAIN f[0].ix.msgs = {} /\ f[0].ix \in Index(Ids) /\ Consistent(f[0].ix)
            BY <4>1, EmptyIndexFacts
        <4>3. QED
            BY <3>1, <3>2, <4>1, <4>2, Zenon
      <3>4. QED
          BY <2>3, <2>4, <3>3
    <2>5. CASE k # 0
      <3>1. k - 1 \in 0 .. Len(s) - 1 /\ k - 1 \in 0 .. Len(s) /\ k \in 1 .. Len(s)
            /\ (k - 1) + 1 = k
          BY <1>3, <2>3, <2>5
      <3>2. k - 1 \notin T
          BY <2>2, <2>3, <3>1
      <3>3. Fine(k - 1)
          BY <3>1, <3>2
      <3>4. PICK acc : acc = f[k - 1]
          OBVIOUS
      <3>5. PICK n : n = k - 1
          OBVIOUS
      <3>6. PICK r \in LogRecord : r = s[k]
          BY <3>1
      <3>7. PICK i : i = acc.ix
          OBVIOUS
      <3>8. /\ acc = [refused |-> FALSE, ix |-> i] /\ i \in Index(Ids) /\ Consistent(i)
            /\ DOMAIN i.msgs = Live(s, n)
          BY <3>3, <3>4, <3>5, <3>7
      <3>9. n \in 0 .. Len(s) - 1 /\ n + 1 = k /\ r = s[n + 1]
          BY <3>1, <3>5, <3>6
      <3>10. /\ r.type = "ENQUEUE" => /\ r.m.id \notin Enq(s, n)
                                      /\ Live(s, n + 1) = Live(s, n) \cup {r.m.id}
             /\ r.type = "ACK" => r.id \in Live(s, n) /\ Live(s, n + 1) = Live(s, n) \ {r.id}
             /\ r.type \in {"NACK", "LEASE_EXPIRE"} =>
                  r.id \in Live(s, n) /\ Live(s, n + 1) = Live(s, n)
             /\ r.type \in {"META", "DEDUP"} => Live(s, n + 1) = Live(s, n)
        <4>1. n \in 0 .. Len(s) - 1 /\ r = s[n + 1]
            BY <3>9
        <4> HIDE DEF T, Fine
        <4>2. QED
            BY <4>1, LiveNext
      <3>11. ~Refuses(i, r)
          BY <3>8, <3>10 DEF Refuses, Live
      <3>12. r.type = "ENQUEUE" => r.m.id \in Ids
        <4>1. r.type = "ENQUEUE" => r.m.id \in Enq(s, Len(s))
            BY <3>1, <3>6 DEF Enq
        <4>2. QED
            BY <4>1
      <3>13. PICK j : j = apply(i, r, now)
          OBVIOUS
      <3>14. j \in Index(Ids) /\ Consistent(j) /\ Replayed(i, j, r, now)
          BY <1>3, <3>8, <3>11, <3>12, <3>13, ApplyFacts
      <3>15. f[k] = [refused |-> FALSE, ix |-> j]
        <4>1. f[k] = Fed(acc, r)
            BY <1>2, <2>3, <2>5, <3>4, <3>6, Zenon
        <4>2. acc.refused = FALSE /\ acc.ix = i
            BY <3>8
        <4>3. Fed(acc, r) = [acc EXCEPT !.ix = j]
            BY <3>11, <3>13, <4>2, Zenon DEF Fed
        <4>4. QED
            BY <3>8, <4>1, <4>3
      <3>16. DOMAIN j.msgs = Live(s, k)
        <4>1. r.type \in {"META", "ENQUEUE", "ACK", "NACK", "LEASE_EXPIRE", "DEDUP"}
            BY RecordFacts
        <4>2. /\ r.type = "ENQUEUE" => DOMAIN j.msgs = DOMAIN i.msgs \cup {r.m.id}
              /\ r.type = "ACK" => DOMAIN j.msgs = DOMAIN i.msgs \ {r.id}
              /\ r.type \in {"NACK", "LEASE_EXPIRE"} => DOMAIN j.msgs = DOMAIN i.msgs
              /\ r.type \in {"META", "DEDUP"} => DOMAIN j.msgs = DOMAIN i.msgs
            BY <3>14 DEF Replayed
        <4>3. QED
            BY <3>8, <3>9, <3>10, <4>1, <4>2
      <3>17. Fine(k)
          BY <3>14, <3>15, <3>16
      <3>18. QED
          BY <2>3, <3>17
    <2>6. QED
        BY <2>4, <2>5
  <1>5. Fine(Len(s))
    <2>1. Len(s) \in 0 .. Len(s)
        BY <1>3
    <2>2. QED
        BY <1>4, <2>1, Zenon
  <1>6. QED
      BY <1>1, <1>5 DEF Recovered

\* What a restart may find: the records of the log up to one no earlier than
\* the last durable one, or the snapshot.
LEMMA Images ==
    ASSUME TypeInv, LiveInv, NEW s \in DiskImages
    PROVE  /\ s \in Seq(LogRecord) /\ Legal(s) /\ Enq(s, Len(s)) \subseteq Ids
           /\ \/ \E k \in durable .. Len(log) :
                   /\ Enq(s, Len(s)) = Enq(log, k) /\ Acks(s, Len(s)) = Acks(log, k)
              \/ dir # "log" /\ s = snap
  <1>0. /\ log \in Seq(LogRecord) /\ durable \in 0 .. Len(log) /\ snap \in Seq(LogRecord)
      BY DEF TypeInv, StoreOK
  <1>1. \A x \in 1 .. Len(born) : x \in Ids
      BY QueueAssumption DEF TypeInv, HistoryOK, Ids
  <1>2. Enq(log, Len(log)) \subseteq Ids /\ Enq(snap, Len(snap)) \subseteq Ids
      BY <1>1 DEF Enq, TypeInv, StoreOK, IdsKnown, Knows
  <1>3. CASE dir # "log" /\ s = snap
      BY <1>0, <1>2, <1>3 DEF LiveInv
  <1>4. CASE \E k \in durable .. Len(log) : s = SubSeq(log, 1, k)
    <2>1. PICK k \in durable .. Len(log) : s = SubSeq(log, 1, k)
        BY <1>4
    <2>2. k \in 0 .. Len(log) /\ k \in 0 .. k /\ Len(log) \in Nat
        BY <1>0
    <2>3. /\ s \in Seq(LogRecord) /\ Legal(s) /\ Len(s) = k
          /\ Enq(s, k) = Enq(log, k) /\ Acks(s, k) = Acks(log, k)
        BY <1>0, <2>1, <2>2, PrefixFacts, LegalPrefix DEF LiveInv
    <2>4. Enq(log, k) \subseteq Enq(log, Len(log))
        BY <2>2, Growing
    <2>5. QED
        BY <1>2, <2>3, <2>4
  <1>5. QED
      BY <1>3, <1>4 DEF DiskImages

\* No log a crash can leave is one that startup refuses: whatever was appended,
\* cut off by the crash or rewritten by a compaction, no record is about a
\* message that an earlier one of the same log has not enqueued, or has acked.
THEOREM StartupNeverRefuses == Spec => []ReplayNeverRefuses
  <1>1. TypeInv /\ LiveInv => ReplayNeverRefuses
    <2> SUFFICES ASSUME TypeInv, LiveInv, NEW s \in DiskImages
                 PROVE  ~Replay(s).refused
        BY DEF ReplayNeverRefuses
    <2>1. s \in Seq(LogRecord) /\ Legal(s) /\ Enq(s, Len(s)) \subseteq Ids
        BY Images
    <2>2. now \in Nat
        BY QueueAssumption DEF TypeInv, ClockOK
    <2>3. QED
        BY <2>1, <2>2, ReplayLegal
  <1>2. QED
      BY <1>1, TypeInvariant, LiveAlways, PTL

-----------------------------------------------------------------------------
\* Every disk image has the message, or none has and its ack was appended.
Stored(id) ==
    id \in Enq(log, durable) \/ (id \in acked /\ id \notin Enq(log, Len(log)))

\* No disk image has a record of the message, or every one has its ack.
AckGone(id) == id \in Acks(log, durable) \/ id \notin Enq(log, Len(log))

\* A request waits for its record where the record is, or no longer because
\* a compaction has seen it durable.
Awaits(w) ==
    /\ w.id \in 1 .. Len(born) /\ w.pos \in 0 .. Len(log)
    /\ dir # "log" => w.pos = 0
    /\ w.op = "enqueue" /\ w.pos = 0 => Stored(w.id)
    /\ w.op = "enqueue" /\ w.pos # 0 => log[w.pos].type = "ENQUEUE" /\ log[w.pos].m.id = w.id
    /\ w.op = "ack" /\ w.pos = 0 => AckGone(w.id)
    /\ w.op = "ack" /\ w.pos # 0 => log[w.pos].type = "ACK" /\ log[w.pos].id = w.id

\* The records that answers rest on are durable.
AnswerInv ==
    /\ Acks(log, Len(log)) \subseteq acked
    /\ \A w \in waiting : Awaits(w)
    /\ enqOK \subseteq 1 .. Len(born) /\ ackOK \subseteq 1 .. Len(born)
    /\ \A id \in enqOK : Stored(id)
    /\ \A id \in ackOK : AckGone(id)

\* A step that only adds to the log and to what is durable takes nothing from
\* an answer.
LEMMA AnswerExtends ==
    ASSUME TypeInv, StoreOK', AnswerInv,
           Len(log') >= Len(log), \A k \in 1 .. Len(log) : log'[k] = log[k],
           durable' >= durable,
           Acks(log', Len(log')) \subseteq acked', acked \subseteq acked',
           Len(born') \in Nat, Len(born') >= Len(born),
           \A id \in Enq(log', Len(log')) : id \in 1 .. Len(born) => id \in Enq(log, Len(log)),
           UNCHANGED <<enqOK, ackOK>>, dir' # "log" => dir # "log",
           \A w \in waiting' : w \in waiting \/ Awaits(w)'
    PROVE  AnswerInv'
  <1>0. /\ log \in Seq(LogRecord) /\ durable \in 0 .. Len(log) /\ Len(log) \in Nat
        /\ log' \in Seq(LogRecord) /\ durable' \in 0 .. Len(log') /\ Len(log') \in Nat
        /\ Len(born) \in Nat
      BY DEF TypeInv, StoreOK, HistoryOK
  <1>1. Enq(log, durable) \subseteq Enq(log', durable') /\ Acks(log, durable) \subseteq Acks(log', durable')
    <2>1. Enq(log', durable) = Enq(log, durable) /\ Acks(log', durable) = Acks(log, durable)
      <3>1. Len(log) \in Nat /\ durable \in 0 .. Len(log) /\ \A k \in 1 .. Len(log) : log'[k] = log[k]
          BY <1>0
      <3>2. QED
          BY <3>1, SameUpto, Zenon
    <2>2. durable \in 0 .. durable' /\ durable' \in Nat
        BY <1>0
    <2>3. Enq(log', durable) \subseteq Enq(log', durable') /\ Acks(log', durable) \subseteq Acks(log', durable')
        BY <2>2, Growing
    <2>4. QED
        BY <2>1, <2>3
  <1>2. ASSUME NEW id \in 1 .. Len(born), AckGone(id)
        PROVE  AckGone(id)'
      BY <1>1, <1>2 DEF AckGone
  <1>2a. ASSUME NEW id \in 1 .. Len(born), Stored(id)
        PROVE  Stored(id)'
      BY <1>1, <1>2a DEF Stored
  <1>3. ASSUME NEW w \in waiting, Awaits(w)
        PROVE  Awaits(w)'
    <2>1. w.id \in 1 .. Len(born) /\ w.pos \in 0 .. Len(log) /\ (dir' # "log" => w.pos = 0)
        BY <1>3, Zenon DEF Awaits
    <2>2. w.id \in 1 .. Len(born') /\ w.pos \in 0 .. Len(log')
        BY <1>0, <2>1
    <2>3. w.pos # 0 => log'[w.pos] = log[w.pos]
        BY <1>0, <2>1
    <2>4. (AckGone(w.id) => AckGone(w.id)') /\ (Stored(w.id) => Stored(w.id)')
        BY <1>2, <1>2a, <2>1
    <2>5. QED
        BY <1>1, <1>3, <2>1, <2>2, <2>3, <2>4 DEF Awaits
  <1>4. \A w \in waiting' : Awaits(w)'
      BY <1>3, Zenon DEF AnswerInv
  <1>5. enqOK' \subseteq 1 .. Len(born') /\ ackOK' \subseteq 1 .. Len(born')
      BY <1>0 DEF AnswerInv
  <1>6. \A id \in enqOK' : Stored(id)'
      BY <1>2a DEF AnswerInv
  <1>7. \A id \in ackOK' : AckGone(id)'
      BY <1>2 DEF AnswerInv
  <1>8. QED
      BY <1>4, <1>5, <1>6, <1>7 DEF AnswerInv

\* So does a step that leaves the snapshot for the log.
LEMMA AnswerSwap ==
    ASSUME TypeInv, LiveInv, AnswerInv, StoreOK', dir # "log",
           log' = snap, durable' = Len(snap), dir' = "log", waiting' \subseteq waiting,
           UNCHANGED <<born, enqOK, ackOK>>, acked \ Enq(snap, Len(snap)) \subseteq acked'
    PROVE  AnswerInv'
  <1>0. /\ log \in Seq(LogRecord) /\ durable \in 0 .. Len(log) /\ Len(log) \in Nat
        /\ Len(snap) \in Nat
      BY DEF TypeInv, StoreOK
  <1>1. phase = "up"
      BY Zenon DEF TypeInv, ModeOK
  <1>2. /\ Enq(snap, Len(snap)) = Enq(log, Len(log)) \ Acks(log, Len(log))
        /\ Acks(snap, Len(snap)) = {}
      BY <1>1 DEF LiveInv, Live
  <1>3. Enq(log, durable) \subseteq Enq(log, Len(log)) /\ Acks(log, durable) \subseteq Acks(log, Len(log))
      BY <1>0, Growing
  <1>4. \A id : AckGone(id) => AckGone(id)'
      BY <1>2, <1>3 DEF AckGone
  <1>5. \A id : Stored(id) => Stored(id)'
      BY <1>2, <1>3 DEF Stored, AnswerInv
  <1>6. ASSUME NEW w \in waiting
        PROVE  Awaits(w)'
    <2>1. Awaits(w) /\ w.pos = 0
        BY Zenon DEF AnswerInv, Awaits
    <2>2. 0 \in 0 .. Len(log')
        BY <1>0
    <2>3. QED
        BY <1>4, <1>5, <2>1, <2>2 DEF Awaits
  <1>7. QED
      BY <1>2, <1>4, <1>5, <1>6 DEF AnswerInv

LEMMA UnackedLive ==
    ASSUME NEW s \in Seq(LogRecord)
    PROVE  Unacked(s) = Live(s, Len(s))
  <1>1. DOMAIN s = 1 .. Len(s)
      OBVIOUS
  <1>2. QED
      BY <1>1, Zenon DEF Unacked, Live, Enq, Acks

LEMMA AnswerStep ==
    ASSUME TypeInv, TypeInv', LiveInv, AnswerInv, Classified
    PROVE  AnswerInv'
  <1>0. /\ log \in Seq(LogRecord) /\ durable \in 0 .. Len(log) /\ Len(log) \in Nat
        /\ StoreOK' /\ Len(born) \in Nat /\ durable >= durable /\ Len(log) >= Len(log)
        /\ Len(born) >= Len(born)
      BY DEF TypeInv, StoreOK, HistoryOK
  <1>1. CASE Quiet
    <2>1. /\ UNCHANGED <<log, born, enqOK, ackOK, acked>> /\ waiting' \subseteq waiting
          /\ (dir' # "log" => dir # "log") /\ durable' \in durable .. Len(log)
        BY <1>1, Zenon DEF Quiet
    <2>2. durable' >= durable
        BY <1>0, <2>1
    <2>3. QED
        BY <1>0, <2>1, <2>2, AnswerExtends DEF AnswerInv
  <1>2. CASE \E S \in SUBSET Ids : Serve(S)
    <2>1. UNCHANGED <<log, durable, dir, born, enqOK, ackOK, acked, waiting>>
        BY <1>2, Zenon DEF Serve
    <2>2. QED
        BY <1>0, <2>1, AnswerExtends DEF AnswerInv
  <1>3. ASSUME NEW w \in waiting, Return(w)
        PROVE  AnswerInv'
    <2>1. /\ UNCHANGED <<log, durable, dir, born, acked>> /\ waiting' = waiting \ {w}
          /\ enqOK' = (IF w.op = "enqueue" THEN enqOK \cup {w.id} ELSE enqOK)
          /\ ackOK' = (IF w.op = "ack" THEN ackOK \cup {w.id} ELSE ackOK)
          /\ w.pos <= durable
        BY <1>3, Zenon DEF Return, logV, disk, Log!WaitOK
    <2>2. Awaits(w)
        BY DEF AnswerInv
    <2>3. w.pos # 0 => w.pos \in 1 .. durable
        BY <1>0, <2>1, <2>2 DEF Awaits
    <2>4. w.op = "enqueue" => Stored(w.id)
      <3>1. CASE w.pos = 0
          BY <2>2, <3>1 DEF Awaits
      <3>2. CASE w.pos # 0
          BY <2>2, <2>3, <3>2 DEF Awaits, Enq, Stored
      <3>3. QED
          BY <3>1, <3>2
    <2>5. w.op = "ack" => AckGone(w.id)
      <3>1. CASE w.pos = 0
          BY <2>2, <3>1 DEF Awaits
      <3>2. CASE w.pos # 0
          BY <2>2, <2>3, <3>2 DEF Awaits, Acks, AckGone
      <3>3. QED
          BY <3>1, <3>2
    <2>6. w.id \in 1 .. Len(born)
        BY <2>2 DEF Awaits
    <2>7. \A x \in waiting' : Awaits(x)'
        BY <2>1 DEF AnswerInv, Awaits, AckGone, Stored
    <2>8. (\A id \in ackOK' : AckGone(id)') /\ (\A id \in enqOK' : Stored(id)')
        BY <2>1, <2>4, <2>5 DEF AnswerInv, AckGone, Stored
    <2>9. QED
        BY <2>1, <2>6, <2>7, <2>8 DEF AnswerInv
  <1>4. ASSUME NEW d \in DedupId \cup {NoDedup}, NEW p \in Priority, NEW delay \in Delay,
               EnqueueStep(d, p, delay)
        PROVE  AnswerInv'
    <2> DEFINE id == Len(born) + 1
               m == Fresh(d, p, delay)
               r == EnqueueRec(id, m)
    <2>1. r \in LogRecord /\ log' = Append(log, r)
        BY <1>4, EnqueueFacts
    <2>2. r.type = "ENQUEUE" /\ r.m.id = id
        BY EncodeFacts
    <2>3. /\ UNCHANGED <<durable, dir, enqOK, ackOK, acked>> /\ dir = "log"
          /\ waiting' = waiting \cup {[op |-> "enqueue", id |-> id, pos |-> Len(log')]}
        BY <1>4, Zenon DEF EnqueueStep
    <2>4. Len(born') = id /\ id \in Nat
        BY <1>4 DEF EnqueueStep, TypeInv, HistoryOK
    <2>5. id \notin Enq(log, Len(log))
        BY NextIdNew
    <2>6. id \notin 1 .. Len(born) /\ Len(born') >= Len(born) /\ id \in 1 .. id
        BY <1>0, <2>4
    <2> HIDE DEF r, m, id
    <2>7. /\ Enq(log', Len(log')) = Enq(log, Len(log)) \cup {id}
          /\ Acks(log', Len(log')) = Acks(log, Len(log))
          /\ Len(log') = Len(log) + 1
      <3>1. r.m.id \notin Enq(log, Len(log)) /\ r.type \notin {"ACK", "NACK", "LEASE_EXPIRE"}
            /\ Legal(log)
          BY <2>2, <2>5 DEF LiveInv
      <3>2. /\ Enq(log', Len(log'))
                 = Enq(log, Len(log)) \cup (IF r.type = "ENQUEUE" THEN {r.m.id} ELSE {})
            /\ Acks(log', Len(log'))
                 = Acks(log, Len(log)) \cup (IF r.type = "ACK" THEN {r.id} ELSE {})
            /\ Len(log') = Len(log) + 1
          BY <1>0, <2>1, <3>1, LegalAppend
      <3>3. QED
          BY <2>2, <3>1, <3>2
    <2>8. /\ \A k \in 1 .. Len(log) : log'[k] = log[k]
          /\ log'[Len(log')] = r /\ Len(log') >= Len(log) /\ Len(log') # 0
        BY <1>0, <2>1, <2>7, AppendFacts
    <2>9. \A w \in waiting' : w \in waiting \/ Awaits(w)'
      <3> SUFFICES ASSUME NEW w, w = [op |-> "enqueue", id |-> id, pos |-> Len(log')]
                   PROVE  Awaits(w)'
          BY <2>3
      <3>1. w.op = "enqueue" /\ w.id = id /\ w.pos = Len(log') /\ Len(log') \in 0 .. Len(log')
          BY <1>0, <2>7
      <3>2. QED
          BY <2>2, <2>3, <2>4, <2>6, <2>8, <3>1 DEF Awaits
    <2>10. QED
        BY <1>0, <2>3, <2>4, <2>6, <2>7, <2>8, <2>9, AnswerExtends DEF AnswerInv
  <1>5. ASSUME NEW id \in Ids, AckStep(id)
        PROVE  AnswerInv'
    <2>1. /\ UNCHANGED <<durable, dir, born, enqOK, ackOK>> /\ dir = "log" /\ phase = "up"
          /\ id \in DOMAIN ix.msgs /\ log' = Append(log, AckRec(id))
          /\ acked' = acked \cup {id}
          /\ waiting' = waiting \cup {[op |-> "ack", id |-> id, pos |-> Len(log')]}
        BY <1>5, Zenon DEF AckStep
    <2>2. PICK r \in LogRecord : r = AckRec(id) /\ r.type = "ACK" /\ r.id = id
        BY <1>5, AckFacts DEF AckRec
    <2>3. /\ Enq(log', Len(log')) = Enq(log, Len(log))
          /\ Acks(log', Len(log')) = Acks(log, Len(log)) \cup {id}
          /\ Len(log') = Len(log) + 1
      <3>1. Legal(log) /\ id \in Live(log, Len(log)) /\ log' = Append(log, r)
          BY <2>1, <2>2 DEF LiveInv
      <3>2. /\ r.type = "ENQUEUE" => r.m.id \notin Enq(log, Len(log))
            /\ r.type \in {"ACK", "NACK", "LEASE_EXPIRE"} => r.id \in Live(log, Len(log))
          BY <1>0, <2>2, <3>1
      <3>3. Grown(log, r, log')
          BY <1>0, <2>2, <3>1, <3>2, LegalGrown, Zenon
      <3>4. QED
          BY <1>0, <2>2, <3>1, <3>3 DEF Grown
    <2>4. /\ \A k \in 1 .. Len(log) : log'[k] = log[k]
          /\ log'[Len(log')] = r /\ Len(log') >= Len(log) /\ Len(log') # 0
        BY <1>0, <2>1, <2>2, <2>3, AppendFacts
    <2>5. id \in 1 .. Len(born)
        BY <2>1 DEF TypeInv, IndexOK
    <2>6. \A w \in waiting' : w \in waiting \/ Awaits(w)'
      <3> SUFFICES ASSUME NEW w, w = [op |-> "ack", id |-> id, pos |-> Len(log')]
                   PROVE  Awaits(w)'
          BY <2>1
      <3>1. w.op = "ack" /\ w.id = id /\ w.pos = Len(log') /\ Len(log') \in 0 .. Len(log')
          BY <1>0, <2>3
      <3>2. QED
          BY <2>1, <2>2, <2>4, <2>5, <3>1 DEF Awaits
    <2>7. QED
        BY <1>0, <2>1, <2>3, <2>4, <2>6, AnswerExtends DEF AnswerInv
  <1>6. ASSUME NEW id \in Ids, NEW r \in LogRecord, AttemptStep(id, r)
        PROVE  AnswerInv'
    <2>1. /\ r.type # "ENQUEUE" /\ r.type # "ACK" /\ r.id = id
        BY <1>6, AttemptFacts
    <2>2. /\ UNCHANGED <<durable, dir, born, enqOK, ackOK, acked>> /\ dir = "log" /\ phase = "up"
          /\ id \in DOMAIN ix.msgs /\ log' = Append(log, r)
          /\ \/ waiting' = waiting
             \/ waiting' = waiting \cup {[op |-> "nack", id |-> id, pos |-> Len(log')]}
        BY <1>6, Zenon DEF AttemptStep
    <2>3. r.id \in Live(log, Len(log)) /\ Legal(log)
        BY <2>1, <2>2 DEF LiveInv
    <2>4. /\ Enq(log', Len(log')) = Enq(log, Len(log)) \cup (IF r.type = "ENQUEUE" THEN {r.m.id} ELSE {})
          /\ Acks(log', Len(log')) = Acks(log, Len(log)) \cup (IF r.type = "ACK" THEN {r.id} ELSE {})
          /\ Len(log') = Len(log) + 1
        BY <1>0, <2>1, <2>2, <2>3, LegalAppend
    <2>5. /\ Enq(log', Len(log')) = Enq(log, Len(log)) /\ Acks(log', Len(log')) = Acks(log, Len(log))
        BY <2>1, <2>4
    <2>6. /\ \A k \in 1 .. Len(log) : log'[k] = log[k]
          /\ Len(log') >= Len(log) /\ Len(log') # 0
        BY <1>0, <2>2, <2>4, AppendFacts
    <2>7. id \in 1 .. Len(born)
        BY <2>2 DEF TypeInv, IndexOK
    <2>8. \A w \in waiting' : w \in waiting \/ Awaits(w)'
      <3> SUFFICES ASSUME NEW w, w = [op |-> "nack", id |-> id, pos |-> Len(log')]
                   PROVE  Awaits(w)'
          BY <2>2
      <3>1. w.op = "nack" /\ w.id = id /\ w.pos = Len(log') /\ Len(log') \in 0 .. Len(log')
          BY <1>0, <2>4
      <3>2. QED
          BY <2>2, <2>7, <3>1 DEF Awaits
    <2>9. QED
        BY <1>0, <2>2, <2>5, <2>6, <2>8, AnswerExtends DEF AnswerInv
  <1>7. CASE InstallStep
    <2>1. /\ UNCHANGED <<log, durable, born, enqOK, ackOK, acked>>
          /\ \A w \in waiting : w.pos <= durable
          /\ waiting' = Settled
        BY <1>7, Zenon DEF InstallStep
    <2>2. ASSUME NEW v \in waiting'
          PROVE  Awaits(v)'
      <3>1. PICK w \in waiting : v = [w EXCEPT !.pos = 0]
          BY <2>1 DEF Settled
      <3>2. v.op = w.op /\ v.id = w.id /\ v.pos = 0
          BY <3>1 DEF TypeInv, HistoryOK, Wait_
      <3>3. Awaits(w)
          BY DEF AnswerInv
      <3>4. w.pos # 0 => w.pos \in 1 .. durable
          BY <1>0, <2>1, <3>3 DEF Awaits
      <3>5. w.op = "enqueue" => Stored(w.id)
        <4>1. CASE w.pos = 0
            BY <3>3, <4>1 DEF Awaits
        <4>2. CASE w.pos # 0
            BY <3>3, <3>4, <4>2 DEF Awaits, Enq, Stored
        <4>3. QED
            BY <4>1, <4>2
      <3>6. w.op = "ack" => AckGone(w.id)
        <4>1. CASE w.pos = 0
            BY <3>3, <4>1 DEF Awaits
        <4>2. CASE w.pos # 0
            BY <3>3, <3>4, <4>2 DEF Awaits, Acks, AckGone
        <4>3. QED
            BY <4>1, <4>2
      <3>7. 0 \in 0 .. Len(log)
          BY <1>0
      <3>8. QED
          BY <2>1, <3>2, <3>3, <3>5, <3>6, <3>7 DEF Awaits, AckGone, Stored
    <2>3. QED
        BY <2>1, <2>2 DEF AnswerInv, AckGone, Stored
  <1>8. CASE ReopenStep
    <2>1. /\ log' = snap /\ durable' = Len(snap) /\ dir # "log" /\ dir' = "log"
          /\ UNCHANGED <<born, enqOK, ackOK, acked, waiting>>
        BY <1>8, Zenon DEF ReopenStep
    <2>2. QED
        BY <1>0, <2>1, AnswerSwap
  <1>9. CASE StopStep
    <2>1. /\ UNCHANGED <<born, enqOK, ackOK>> /\ dir' = "log" /\ waiting' = {}
          /\ acked' = acked \ Unacked(log')
          /\ \/ durable' = durable /\ \E k \in durable .. Len(log) : log' = SubSeq(log, 1, k)
             \/ dir # "log" /\ log' = snap /\ durable' = Len(snap)
        BY <1>9, StopFacts
    <2>1a. acked' = acked \ Live(log', Len(log'))
        BY <2>1, UnackedLive, Zenon DEF TypeInv, StoreOK
    <2>2. CASE dir # "log" /\ log' = snap /\ durable' = Len(snap)
      <3>1. acked \ Enq(snap, Len(snap)) \subseteq acked'
          BY <2>1a, <2>2 DEF Live
      <3>2. QED
          BY <1>0, <2>1, <2>2, <3>1, AnswerSwap
    <2>3. CASE durable' = durable /\ \E k \in durable .. Len(log) : log' = SubSeq(log, 1, k)
      <3>1. PICK k \in durable .. Len(log) : log' = SubSeq(log, 1, k)
          BY <2>3
      <3>2. k \in 0 .. Len(log) /\ durable \in 0 .. k /\ k \in 0 .. k
          BY <1>0
      <3>3. /\ Len(log') = k /\ Enq(log', k) = Enq(log, k) /\ Acks(log', k) = Acks(log, k)
            /\ Enq(log', durable) = Enq(log, durable) /\ Acks(log', durable) = Acks(log, durable)
          BY <1>0, <3>1, <3>2, LegalPrefix DEF LiveInv
      <3>4. Enq(log, k) \subseteq Enq(log, Len(log)) /\ Acks(log, k) \subseteq Acks(log, Len(log))
          BY <1>0, <3>2, Growing
      <3>5. Acks(log', Len(log')) \subseteq acked'
          BY <2>1a, <3>3, <3>4 DEF AnswerInv, Live
      <3>6. \A id : Stored(id) => Stored(id)'
          BY <2>1a, <2>3, <3>3, <3>4 DEF Stored, Live
      <3>7. \A id : AckGone(id) => AckGone(id)'
          BY <2>3, <3>3, <3>4 DEF AckGone
      <3>8. QED
          BY <2>1, <3>5, <3>6, <3>7 DEF AnswerInv
    <2>4. QED
        BY <2>1, <2>2, <2>3
  <1>10. CASE Load
    <2>1. /\ UNCHANGED <<log, dir, born, enqOK, ackOK, acked, waiting>>
          /\ durable' = durable \/ durable' = Len(log)
        BY <1>10, LoadCases, Zenon DEF LoadStep, RefusedStep
    <2>2. durable' >= durable
        BY <1>0, <2>1
    <2>3. QED
        BY <1>0, <2>1, <2>2, AnswerExtends DEF AnswerInv
  <1>11. QED
      BY <1>1, <1>2, <1>3, <1>4, <1>5, <1>6, <1>7, <1>8, <1>9, <1>10 DEF Classified

LEMMA AnswerAlways == Spec => []AnswerInv
  <1>1. Init => AnswerInv
    <2> SUFFICES ASSUME Init PROVE AnswerInv
        OBVIOUS
    <2>1. log = <<Meta(0)>> /\ waiting = {} /\ enqOK = {} /\ ackOK = {} /\ acked = {}
        BY Zenon DEF Init
    <2>2. Acks(log, Len(log)) = {}
        BY <2>1 DEF Acks, Meta
    <2>3. QED
        BY <2>1, <2>2 DEF AnswerInv
  <1>2. TypeInv /\ TypeInv' /\ LiveInv /\ AnswerInv /\ [Next]_vars => AnswerInv'
      BY Classify, AnswerStep
  <1>3. QED
      BY <1>1, <1>2, TypeInvariant, LiveAlways, PTL DEF Spec

\* A message answered 201 is in the queue that any crash leaves, unless an ack
\* of it was issued and no crash took that back, and one whose ack was answered 200 is in none, so that it
\* is never delivered again: whatever was durable at the crash, and whichever
\* of the log and the snapshot of a compaction the restart finds.
THEOREM AnswersAreKept == Spec => []AnswersSurvive
  <1>1. TypeInv /\ LiveInv /\ AnswerInv => AnswersSurvive
    <2> SUFFICES ASSUME TypeInv, LiveInv, AnswerInv, NEW s \in DiskImages
                 PROVE  /\ enqOK \ acked \subseteq DOMAIN Recovered(s).msgs
                        /\ ackOK \cap DOMAIN Recovered(s).msgs = {}
        BY DEF AnswersSurvive
    <2>0. /\ durable \in 0 .. Len(log) /\ Len(log) \in Nat /\ now \in Nat
        BY QueueAssumption DEF TypeInv, StoreOK, ClockOK
    <2>1. /\ s \in Seq(LogRecord) /\ Legal(s) /\ Enq(s, Len(s)) \subseteq Ids
          /\ \/ \E k \in durable .. Len(log) :
                  /\ Enq(s, Len(s)) = Enq(log, k) /\ Acks(s, Len(s)) = Acks(log, k)
             \/ dir # "log" /\ s = snap
        BY Images
    <2>2. DOMAIN Recovered(s).msgs = Enq(s, Len(s)) \ Acks(s, Len(s))
        BY <2>0, <2>1, ReplayLegal DEF Live
    <2>3. CASE \E k \in durable .. Len(log) :
                 /\ Enq(s, Len(s)) = Enq(log, k) /\ Acks(s, Len(s)) = Acks(log, k)
      <3>1. PICK k \in durable .. Len(log) :
                 /\ Enq(s, Len(s)) = Enq(log, k) /\ Acks(s, Len(s)) = Acks(log, k)
          BY <2>3
      <3>2. k \in Nat /\ durable \in 0 .. k /\ k \in 0 .. Len(log)
          BY <2>0
      <3>3. /\ Enq(log, durable) \subseteq Enq(log, k) /\ Acks(log, durable) \subseteq Acks(log, k)
            /\ Enq(log, k) \subseteq Enq(log, Len(log)) /\ Acks(log, k) \subseteq Acks(log, Len(log))
          BY <2>0, <3>2, Growing
      <3>4. QED
          BY <2>2, <3>1, <3>3 DEF AnswerInv, AckGone, Stored
    <2>4. CASE dir # "log" /\ s = snap
      <3>1. phase = "up"
          BY <2>4, Zenon DEF TypeInv, ModeOK
      <3>2. DOMAIN Recovered(s).msgs = Enq(log, Len(log)) \ Acks(log, Len(log))
          BY <2>2, <2>4, <3>1 DEF LiveInv, Live
      <3>3. Enq(log, durable) \subseteq Enq(log, Len(log)) /\ Acks(log, durable) \subseteq Acks(log, Len(log))
          BY <2>0, Growing
      <3>4. QED
          BY <3>2, <3>3 DEF AnswerInv, AckGone, Stored
    <2>5. QED
        BY <2>1, <2>3, <2>4
  <1>2. QED
      BY <1>1, TypeInvariant, LiveAlways, AnswerAlways, PTL

-----------------------------------------------------------------------------
(***************************************************************************)
(* Seq over compactions and restarts.                                      *)
(***************************************************************************)
\* What a record and the index say of a message is what it was born with.
Birthright(b, id, m) ==
    m.seq = b[id].seq /\ m.dedup = b[id].dedup /\ m.created = b[id].at

Faithful(s, b) ==
    \A k \in 1 .. Len(s) : s[k].type = "ENQUEUE" => Birthright(b, s[k].m.id, s[k].m)

RecordInv ==
    /\ Faithful(log, born)
    /\ \A x \in DOMAIN ix.msgs : Birthright(born, x, ix.msgs[x])
    /\ dir # "log" => Faithful(snap, born)

LEMMA FaithfulKept ==
    ASSUME NEW s \in Seq(LogRecord), NEW b, NEW c, NEW n, Faithful(s, b),
           \A k \in 1 .. Len(s) : Knows(s[k], n), \A x \in 1 .. n : c[x] = b[x]
    PROVE  Faithful(s, c)
  <1> SUFFICES ASSUME NEW k \in 1 .. Len(s), s[k].type = "ENQUEUE"
               PROVE  Birthright(c, s[k].m.id, s[k].m)
      BY DEF Faithful
  <1>1. s[k].m.id \in 1 .. n
      BY DEF Knows
  <1>2. Birthright(b, s[k].m.id, s[k].m)
      BY DEF Faithful
  <1>3. QED
      BY <1>1, <1>2 DEF Birthright

LEMMA FaithfulAppend ==
    ASSUME NEW s \in Seq(LogRecord), NEW b, Faithful(s, b), NEW r \in LogRecord,
           r.type = "ENQUEUE" => Birthright(b, r.m.id, r.m)
    PROVE  Faithful(Append(s, r), b)
  <1> DEFINE t == Append(s, r)
  <1>1. /\ Len(t) = Len(s) + 1 /\ \A k \in 1 .. Len(s) : t[k] = s[k]
        /\ t[Len(s) + 1] = r
      BY AppendFacts
  <1> HIDE DEF t
  <1>2. Faithful(t, b)
      BY <1>1 DEF Faithful
  <1>3. QED
      BY <1>2 DEF t

LEMMA FaithfulPrefix ==
    ASSUME NEW s \in Seq(LogRecord), NEW b, Faithful(s, b), NEW n \in 0 .. Len(s)
    PROVE  Faithful(SubSeq(s, 1, n), b)
  <1> DEFINE t == SubSeq(s, 1, n)
  <1>1. Len(t) = n /\ \A k \in 1 .. n : t[k] = s[k]
      BY PrefixFacts
  <1> HIDE DEF t
  <1>2. Faithful(t, b)
      BY <1>1 DEF Faithful
  <1>3. QED
      BY <1>2 DEF t

LEMMA RecordStep ==
    ASSUME TypeInv, RecordInv, Classified
    PROVE  RecordInv'
  <1>0. /\ log \in Seq(LogRecord) /\ durable \in 0 .. Len(log) /\ snap \in Seq(LogRecord)
        /\ Len(born) \in Nat /\ DOMAIN ix.msgs \subseteq 1 .. Len(born)
      BY DEF TypeInv, StoreOK, HistoryOK, IndexOK
  <1>1. CASE Quiet
    <2>1. UNCHANGED <<log, snap, born>> /\ (dir' # "log" => dir # "log") /\ Calm(ix, ix', now)
        BY <1>1, Zenon DEF Quiet
    <2>2. \A x \in DOMAIN ix'.msgs : Birthright(born, x, ix'.msgs[x])
        BY <2>1 DEF Calm, SameEntry, Birthright, RecordInv
    <2>3. QED
        BY <2>1, <2>2 DEF RecordInv
  <1>2. CASE \E S \in SUBSET Ids : Serve(S)
    <2>1. /\ UNCHANGED <<log, snap, dir, born>> /\ DOMAIN ix'.msgs = DOMAIN ix.msgs
          /\ \A x \in DOMAIN ix.msgs : SameEntry(ix.msgs[x], ix'.msgs[x])
        BY <1>2, Zenon DEF Serve
    <2>2. \A x \in DOMAIN ix'.msgs : Birthright(born, x, ix'.msgs[x])
        BY <2>1 DEF SameEntry, Birthright, RecordInv
    <2>3. QED
        BY <2>1, <2>2 DEF RecordInv
  <1>3. CASE \E w \in waiting : Return(w)
    <2>1. UNCHANGED <<log, snap, dir, born, ix>>
        BY <1>3, Zenon DEF Return, logV, disk
    <2>2. QED
        BY <2>1 DEF RecordInv
  <1>4. ASSUME NEW d \in DedupId \cup {NoDedup}, NEW p \in Priority, NEW delay \in Delay,
               EnqueueStep(d, p, delay)
        PROVE  RecordInv'
    <2> DEFINE id == Len(born) + 1
               m == Fresh(d, p, delay)
               r == EnqueueRec(id, m)
    <2>1. /\ r \in LogRecord /\ m.seq = ix.nextSeq /\ m.created = now /\ m.dedup = d
          /\ DOMAIN ix'.msgs = DOMAIN ix.msgs \cup {id} /\ log' = Append(log, r)
          /\ SameBut(ix, ix', id) /\ SameEntry(m, ix'.msgs[id])
        BY <1>4, EnqueueFacts
    <2>2. r.type = "ENQUEUE" /\ r.m.id = id /\ SameEntry(m, r.m)
        BY EncodeFacts
    <2>3. dir' = "log" /\ born' = Append(born, [dedup |-> d, at |-> now, seq |-> m.seq])
        BY <1>4, Zenon DEF EnqueueStep
    <2>4. /\ \A x \in 1 .. Len(born) : born'[x] = born[x]
          /\ born'[id] = [dedup |-> d, at |-> now, seq |-> m.seq]
        BY <2>3 DEF TypeInv, HistoryOK
    <2>5. Birthright(born', id, m)
        BY <2>1, <2>4 DEF Birthright
    <2>6. id \notin 1 .. Len(born)
        BY <1>0
    <2> HIDE DEF r, m, id
    <2>7. Birthright(born', id, r.m) /\ Birthright(born', id, ix'.msgs[id])
        BY <2>1, <2>2, <2>5 DEF Birthright, SameEntry
    <2>8. Faithful(log, born')
        BY <1>0, <2>4, FaithfulKept DEF RecordInv, TypeInv, StoreOK, IdsKnown
    <2>9. Faithful(log', born')
        BY <1>0, <2>1, <2>2, <2>7, <2>8, FaithfulAppend
    <2>10. ASSUME NEW x \in DOMAIN ix'.msgs
           PROVE  Birthright(born', x, ix'.msgs[x])
      <3>1. CASE x = id
          BY <2>7, <3>1
      <3>2. CASE x # id
        <4>1. x \in DOMAIN ix.msgs /\ x \in 1 .. Len(born)
            BY <1>0, <2>1, <3>2
        <4>2. ix'.msgs[x] = ix.msgs[x] /\ born'[x] = born[x]
            BY <2>1, <2>4, <3>2, <4>1 DEF SameBut
        <4>3. QED
            BY <4>1, <4>2 DEF RecordInv, Birthright
      <3>3. QED
          BY <3>1, <3>2
    <2>11. QED
        BY <2>3, <2>9, <2>10 DEF RecordInv
  <1>5. ASSUME NEW id \in Ids, AckStep(id)
        PROVE  RecordInv'
    <2>1. AckRec(id) \in LogRecord /\ AckRec(id).type = "ACK"
        BY <1>5, AckFacts DEF AckRec
    <2>2. Faithful(Append(log, AckRec(id)), born)
        BY <1>0, <2>1, FaithfulAppend DEF RecordInv
    <2>3. log' = Append(log, AckRec(id)) /\ born' = born /\ dir' = "log"
        BY <1>5, Zenon DEF AckStep
    <2>4. \A x \in DOMAIN ix'.msgs : x \in DOMAIN ix.msgs /\ ix'.msgs[x] = ix.msgs[x]
        BY <1>5, AckFacts DEF SameBut
    <2>5. QED
        BY <2>2, <2>3, <2>4 DEF RecordInv
  <1>6. ASSUME NEW id \in Ids, NEW r \in LogRecord, AttemptStep(id, r)
        PROVE  RecordInv'
    <2>1. /\ r.type # "ENQUEUE" /\ DOMAIN ix'.msgs = DOMAIN ix.msgs /\ SameBut(ix, ix', id)
          /\ ix'.msgs[id].dedup = ix.msgs[id].dedup /\ ix'.msgs[id].seq = ix.msgs[id].seq
          /\ ix'.msgs[id].created = ix.msgs[id].created
        BY <1>6, AttemptFacts
    <2>2. log' = Append(log, r) /\ born' = born /\ dir' = "log"
        BY <1>6, Zenon DEF AttemptStep
    <2>3. Faithful(log', born)
        BY <1>0, <2>1, <2>2, FaithfulAppend DEF RecordInv
    <2>4. QED
        BY <2>1, <2>2, <2>3 DEF RecordInv, Birthright, SameBut
  <1>7. CASE InstallStep
    <2>1. /\ Snapshot(snap') /\ UNCHANGED <<log, ix, born>>
        BY <1>7, Zenon DEF InstallStep
    <2>2. PICK a, b, L, R : Written(snap', a, b, L, R)
        BY <2>1, SnapshotWritten
    <2>3. ASSUME NEW k \in 1 .. Len(snap'), snap'[k].type = "ENQUEUE"
          PROVE  Birthright(born, snap'[k].m.id, snap'[k].m)
      <3>1. PICK i \in 1 .. a : /\ L[i] \in DOMAIN ix.msgs
                                /\ snap'[k] = EnqueueRec(L[i], ix.msgs[L[i]])
          BY <2>2, <2>3, SnapshotRecord
      <3>2. PICK m : m = ix.msgs[L[i]]
          OBVIOUS
      <3>3. SameEntry(m, snap'[k].m) /\ snap'[k].m.id = L[i]
          BY <3>1, <3>2, EncodeFacts
      <3>4. QED
          BY <3>1, <3>2, <3>3 DEF RecordInv, Birthright, SameEntry
    <2>4. QED
        BY <2>1, <2>3 DEF RecordInv, Faithful
  <1>8. CASE ReopenStep
    <2>1. log' = snap /\ dir = "snap" /\ dir' = "log" /\ UNCHANGED <<ix, born>>
        BY <1>8, Zenon DEF ReopenStep
    <2>2. QED
        BY <2>1 DEF RecordInv
  <1>9. CASE StopStep
    <2>1. /\ dir' = "log" /\ born' = born /\ ix' = EmptyIndex
          /\ \/ \E k \in durable .. Len(log) : log' = SubSeq(log, 1, k)
             \/ dir # "log" /\ log' = snap
        BY <1>9, StopFacts
    <2>2. \A k \in durable .. Len(log) : k \in 0 .. Len(log)
        BY <1>0
    <2>3. Faithful(log', born)
        BY <1>0, <2>1, <2>2, FaithfulPrefix DEF RecordInv
    <2>4. QED
        BY <2>1, <2>3, EmptyIndexFacts DEF RecordInv
  <1>10. CASE Load
    <2>1. UNCHANGED <<log, snap, dir, born>>
        BY <1>10, LoadCases, Zenon DEF LoadStep, RefusedStep
    <2>2. CASE LoadStep
      <3>1. PICK r : r = log[pos + 1]
          OBVIOUS
      <3>2. /\ r \in LogRecord /\ Replayed(ix, ix', r, now) /\ pos + 1 \in 1 .. Len(log)
          BY <2>2, <3>1, LoadFacts
      <3>3. r.type = "ENQUEUE" => Birthright(born, r.m.id, r.m)
          BY <3>1, <3>2 DEF RecordInv, Faithful
      <3>4. r.type \in {"META", "ENQUEUE", "ACK", "NACK", "LEASE_EXPIRE", "DEDUP"}
          BY <3>2, RecordFacts
      <3>5. ASSUME NEW x \in DOMAIN ix'.msgs
            PROVE  Birthright(born, x, ix'.msgs[x])
        <4>1. CASE r.type \in {"META", "DEDUP"}
            BY <3>2, <4>1 DEF RecordInv, Replayed
        <4>2. CASE r.type = "ENQUEUE"
            BY <3>2, <3>3, <4>2 DEF RecordInv, Replayed, SameBut, SameEntry, Birthright
        <4>3. CASE r.type = "ACK"
            BY <3>2, <4>3 DEF RecordInv, Replayed, SameBut
        <4>4. CASE r.type \in {"NACK", "LEASE_EXPIRE"}
            BY <3>2, <4>4 DEF RecordInv, Replayed, SameBut, Birthright
        <4>5. QED
            BY <3>4, <4>1, <4>2, <4>3, <4>4
      <3>6. QED
          BY <2>1, <3>5 DEF RecordInv
    <2>3. CASE ~LoadStep
      <3>1. ix' = ix
          BY <1>10, <2>3, LoadCases, Zenon DEF RefusedStep
      <3>2. QED
          BY <2>1, <3>1 DEF RecordInv
    <2>4. QED
        BY <2>2, <2>3
  <1>11. QED
      BY <1>1, <1>2, <1>3, <1>4, <1>5, <1>6, <1>7, <1>8, <1>9, <1>10 DEF Classified

\* Nothing is written of a message that it was not born with.
LEMMA RecordAlways == Spec => []RecordInv
  <1>1. Init => RecordInv
    <2> SUFFICES ASSUME Init PROVE RecordInv
        OBVIOUS
    <2>1. log = <<Meta(0)>> /\ ix = EmptyIndex /\ dir = "log"
        BY Zenon DEF Init
    <2>2. Faithful(log, born)
        BY <2>1 DEF Faithful, Meta
    <2>3. QED
        BY <2>1, <2>2, EmptyIndexFacts DEF RecordInv
  <1>2. TypeInv /\ RecordInv /\ [Next]_vars => RecordInv'
      BY Classify, RecordStep
  <1>3. QED
      BY <1>1, <1>2, TypeInvariant, PTL DEF Spec

\* The counter n is past whatever the first k records of s count.
Counted(s, k, n) ==
    \A j \in 1 .. k : /\ s[j].type = "META" => s[j].nextSeq <= n
                      /\ s[j].type = "ENQUEUE" => s[j].m.seq < n

\* The counter is past the log, also halfway through a replay, and the
\* snapshot of a compaction begins with it.
CountInv ==
    /\ phase = "up" => Counted(log, Len(log), ix.nextSeq)
    /\ phase = "loading" => Counted(log, pos, ix.nextSeq)
    /\ dir # "log" => /\ Counted(snap, Len(snap), ix.nextSeq)
                      /\ Len(snap) > 0 /\ snap[1] = Meta(ix.nextSeq)

LEMMA CountedAppend ==
    ASSUME NEW s \in Seq(LogRecord), NEW r \in LogRecord, NEW n \in Nat, NEW m \in Nat, m >= n,
           Counted(s, Len(s), n), r.type # "META", r.type = "ENQUEUE" => r.m.seq < m
    PROVE  Counted(Append(s, r), Len(Append(s, r)), m)
  <1> DEFINE t == Append(s, r)
  <1>1. /\ Len(t) = Len(s) + 1 /\ \A k \in 1 .. Len(s) : t[k] = s[k]
        /\ t[Len(s) + 1] = r
      BY AppendFacts
  <1> HIDE DEF t
  <1>2. \A k \in 1 .. Len(s) : /\ s[k].type = "META" => s[k].nextSeq \in Nat
                               /\ s[k].type = "ENQUEUE" => s[k].m.seq \in Nat
    <2> TAKE k \in 1 .. Len(s)
    <2>1. s[k] \in LogRecord
        OBVIOUS
    <2>2. QED
        BY <2>1, RecordFacts DEF Encoded
  <1>3. Counted(t, Len(t), m)
      BY <1>1, <1>2 DEF Counted
  <1>4. QED
      BY <1>3 DEF t

\* A live message was counted.
LEMMA LiveCounted ==
    ASSUME TypeInv, LiveInv, RecordInv, CountInv, phase = "up", NEW x \in DOMAIN ix.msgs
    PROVE  ix.msgs[x].seq < ix.nextSeq
  <1>1. x \in Enq(log, Len(log))
      BY DEF LiveInv, Live
  <1>2. PICK k \in 1 .. Len(log) : log[k].type = "ENQUEUE" /\ log[k].m.id = x
      BY <1>1 DEF Enq
  <1>3. log[k].m.seq = ix.msgs[x].seq
      BY <1>2 DEF RecordInv, Faithful, Birthright
  <1>4. QED
      BY <1>2, <1>3 DEF CountInv, Counted

LEMMA CountStep ==
    ASSUME TypeInv, LiveInv, RecordInv, CountInv, Classified
    PROVE  CountInv'
  <1>0. /\ log \in Seq(LogRecord) /\ Len(log) \in Nat /\ pos \in 0 .. Len(log)
        /\ ix \in Index(Ids) /\ ix.nextSeq \in Nat
      BY Fields DEF TypeInv, StoreOK, IndexOK
  <1>1. CASE Quiet
    <2>1. UNCHANGED <<log, snap, phase, pos>> /\ (dir' # "log" => dir # "log") /\ ix'.nextSeq = ix.nextSeq
        BY <1>1, Zenon DEF Quiet, Calm
    <2>2. QED
        BY <2>1 DEF CountInv
  <1>2. CASE \E S \in SUBSET Ids : Serve(S)
    <2>1. UNCHANGED <<log, snap, phase, pos, dir>> /\ ix'.nextSeq = ix.nextSeq
        BY <1>2, Zenon DEF Serve
    <2>2. QED
        BY <2>1 DEF CountInv
  <1>3. CASE \E w \in waiting : Return(w)
    <2>1. UNCHANGED <<log, snap, phase, pos, ix, dir>>
        BY <1>3, Zenon DEF Return, logV, disk, proc
    <2>2. QED
        BY <2>1 DEF CountInv
  <1>4. ASSUME NEW d \in DedupId \cup {NoDedup}, NEW p \in Priority, NEW delay \in Delay,
               EnqueueStep(d, p, delay)
        PROVE  CountInv'
    <2> DEFINE id == Len(born) + 1
               m == Fresh(d, p, delay)
               r == EnqueueRec(id, m)
    <2>1. r \in LogRecord /\ log' = Append(log, r) /\ m.seq = ix.nextSeq /\ ix'.nextSeq = ix.nextSeq + 1
        BY <1>4, EnqueueFacts
    <2>2. r.type = "ENQUEUE" /\ r.m.seq = m.seq
        BY EncodeFacts DEF SameEntry
    <2>3. phase = "up" /\ phase' = "up" /\ dir' = "log"
        BY <1>4, Zenon DEF EnqueueStep
    <2> HIDE DEF r, m, id
    <2>4. ix.nextSeq + 1 \in Nat /\ ix.nextSeq + 1 >= ix.nextSeq /\ ix.nextSeq < ix.nextSeq + 1
        BY <1>0
    <2>5. Counted(log, Len(log), ix.nextSeq)
        BY <2>3 DEF CountInv
    <2>6. Counted(log', Len(log'), ix.nextSeq + 1)
        BY <1>0, <2>1, <2>2, <2>4, <2>5, CountedAppend
    <2>7. QED
        BY <2>1, <2>3, <2>6 DEF CountInv
  <1>5. ASSUME NEW r \in LogRecord, r.type \in {"ACK", "NACK", "LEASE_EXPIRE"}, log' = Append(log, r),
               phase = "up", phase' = "up", dir' = "log", ix'.nextSeq = ix.nextSeq
        PROVE  CountInv'
    <2>1. ix.nextSeq >= ix.nextSeq /\ Counted(log, Len(log), ix.nextSeq)
          /\ r.type # "META" /\ r.type # "ENQUEUE"
        BY <1>0, <1>5 DEF CountInv
    <2>2. Counted(log', Len(log'), ix.nextSeq)
        BY <1>0, <1>5, <2>1, CountedAppend
    <2>3. QED
        BY <1>5, <2>2 DEF CountInv
  <1>6. ASSUME NEW id \in Ids, AckStep(id)
        PROVE  CountInv'
    <2>1. AckRec(id) \in LogRecord /\ AckRec(id).type = "ACK" /\ ix'.nextSeq = ix.nextSeq
        BY <1>6, AckFacts DEF AckRec
    <2>2. log' = Append(log, AckRec(id)) /\ phase = "up" /\ phase' = "up" /\ dir' = "log"
        BY <1>6, Zenon DEF AckStep
    <2>3. QED
        BY <1>5, <2>1, <2>2
  <1>7. ASSUME NEW id \in Ids, NEW r \in LogRecord, AttemptStep(id, r)
        PROVE  CountInv'
    <2>1. r.type \in {"ACK", "NACK", "LEASE_EXPIRE"} /\ ix'.nextSeq = ix.nextSeq
        BY <1>7, AttemptFacts
    <2>2. log' = Append(log, r) /\ phase = "up" /\ phase' = "up" /\ dir' = "log"
        BY <1>7, Zenon DEF AttemptStep
    <2>3. QED
        BY <1>5, <2>1, <2>2
  <1>8. CASE InstallStep
    <2>1. /\ Snapshot(snap') /\ UNCHANGED <<log, ix, phase, pos>> /\ phase = "up"
        BY <1>8, Zenon DEF InstallStep
    <2>2. PICK a, b, L, R : Written(snap', a, b, L, R)
        BY <2>1, SnapshotWritten
    <2>3. Len(snap') > 0 /\ snap'[1] = Meta(ix.nextSeq)
        BY <2>2 DEF Written
    <2>4. ASSUME NEW k \in 1 .. Len(snap')
          PROVE  /\ snap'[k].type = "META" => snap'[k].nextSeq <= ix.nextSeq
                 /\ snap'[k].type = "ENQUEUE" => snap'[k].m.seq < ix.nextSeq
      <3>1. CASE snap'[k].type = "META"
        <4>1. snap'[k] = Meta(ix.nextSeq)
            BY <2>2, <3>1, SnapshotRecord
        <4>2. QED
            BY <1>0, <3>1, <4>1 DEF Meta
      <3>2. CASE snap'[k].type = "ENQUEUE"
        <4>1. PICK i \in 1 .. a : /\ L[i] \in DOMAIN ix.msgs
                                  /\ snap'[k] = EnqueueRec(L[i], ix.msgs[L[i]])
            BY <2>2, <3>2, SnapshotRecord
        <4>2. snap'[k].m.seq = ix.msgs[L[i]].seq
            BY <4>1, EncodeFacts DEF SameEntry
        <4>3. ix.msgs[L[i]].seq < ix.nextSeq
            BY <2>1, <4>1, LiveCounted
        <4>4. QED
            BY <3>2, <4>2, <4>3
      <3>3. QED
          BY <3>1, <3>2
    <2>5. QED
        BY <2>1, <2>3, <2>4 DEF CountInv, Counted
  <1>9. CASE ReopenStep
    <2>1. log' = snap /\ dir = "snap" /\ dir' = "log" /\ UNCHANGED ix /\ phase' = "up"
        BY <1>9, Zenon DEF ReopenStep
    <2>2. QED
        BY <2>1 DEF CountInv
  <1>10. CASE StopStep
    <2>1. phase' = "down" /\ dir' = "log"
        BY <1>10, StopFacts
    <2>2. QED
        BY <2>1 DEF CountInv
  <1>11. CASE Load
    <2>0. UNCHANGED <<log, snap, dir>> /\ phase # "up"
        BY <1>11, LoadCases, Zenon DEF LoadStep, RefusedStep
    <2>1. dir = "log"
        BY <2>0, Zenon DEF TypeInv, ModeOK
    <2>2. CASE LoadStep
      <3>1. PICK r : r = log[pos + 1]
          OBVIOUS
      <3>2. /\ r \in LogRecord /\ Replayed(ix, ix', r, now) /\ pos + 1 \in 1 .. Len(log)
          BY <2>2, <3>1, LoadFacts
      <3>3. phase = "loading" /\ phase' = "loading" /\ pos' = pos + 1
          BY <2>2, Zenon DEF LoadStep
      <3>4. r.type \in {"META", "ENQUEUE", "ACK", "NACK", "LEASE_EXPIRE", "DEDUP"}
          BY <3>2, RecordFacts
      <3>5. /\ r.type = "META" => r.nextSeq \in Nat
            /\ r.type = "ENQUEUE" => r.m.seq \in Nat
          BY <3>2, RecordFacts DEF Encoded
      <3>6. /\ ix'.nextSeq \in Nat /\ ix'.nextSeq >= ix.nextSeq
            /\ r.type = "META" => r.nextSeq <= ix'.nextSeq
            /\ r.type = "ENQUEUE" => r.m.seq < ix'.nextSeq
          BY <1>0, <3>2, <3>4, <3>5 DEF Replayed
      <3>7. \A k \in 1 .. pos : /\ log[k].type = "META" => log[k].nextSeq \in Nat
                                /\ log[k].type = "ENQUEUE" => log[k].m.seq \in Nat
        <4> TAKE k \in 1 .. pos
        <4>1. log[k] \in LogRecord
            BY <1>0
        <4>2. QED
            BY <4>1, RecordFacts DEF Encoded
      <3>8. Counted(log, pos, ix.nextSeq)
          BY <3>3 DEF CountInv
      <3>9. Counted(log, pos + 1, ix'.nextSeq)
          BY <1>0, <3>1, <3>6, <3>7, <3>8 DEF Counted
      <3>10. QED
          BY <2>0, <2>1, <3>3, <3>9 DEF CountInv
    <2>3. CASE phase' = "refused"
        BY <2>0, <2>1, <2>3 DEF CountInv
    <2>4. CASE phase' = "loading" /\ pos' = 0
        BY <2>0, <2>1, <2>4 DEF CountInv, Counted
    <2>5. CASE phase = "loading" /\ phase' = "up" /\ pos = Len(log) /\ ix' = ix
        BY <2>0, <2>1, <2>5 DEF CountInv
    <2>6. QED
        BY <1>11, <2>2, <2>3, <2>4, <2>5, LoadCases, Zenon DEF RefusedStep
  <1>12. QED
      BY <1>1, <1>2, <1>3, <1>4, <1>6, <1>7, <1>8, <1>9, <1>10, <1>11 DEF Classified

LEMMA CountAlways == Spec => []CountInv
  <1>1. Init => CountInv
    <2> SUFFICES ASSUME Init PROVE CountInv
        OBVIOUS
    <2>1. log = <<Meta(0)>> /\ ix = EmptyIndex /\ phase = "up" /\ dir = "log"
        BY Zenon DEF Init
    <2>2. Len(log) = 1 /\ log[1].type = "META" /\ log[1].nextSeq = 0
        BY <2>1 DEF Meta
    <2>3. Counted(log, Len(log), 1)
        BY <2>2 DEF Counted
    <2>4. QED
        BY <2>1, <2>3, EmptyIndexFacts DEF CountInv
  <1>2. TypeInv /\ LiveInv /\ RecordInv /\ CountInv /\ [Next]_vars => CountInv'
      BY Classify, CountStep
  <1>3. QED
      BY <1>1, <1>2, TypeInvariant, LiveAlways, RecordAlways, PTL DEF Spec

\* The first n records of s count a Seq of at least q.
Covers(s, n, q) ==
    \E k \in 1 .. n : \/ s[k].type = "META" /\ s[k].nextSeq > q
                      \/ s[k].type = "ENQUEUE" /\ s[k].m.seq >= q

\* Messages that are confirmed or may still be.
Pending == {w.id : w \in {x \in waiting : x.op = "enqueue"}}
Candidates == enqOK \cup Pending

\* Every Seq that was answered is counted by what is durable, also where the
\* message itself is acked and compacted away.
OrderInv ==
    /\ \A a \in enqOK : Covers(log, durable, born[a].seq)
    /\ \A w \in waiting :
         w.op = "enqueue" /\ w.pos = 0 => Covers(log, durable, born[w.id].seq)
    /\ \A a, b \in Candidates : a < b => born[a].seq < born[b].seq

LEMMA CoversKept ==
    ASSUME NEW s, NEW t, NEW n \in Nat, NEW m \in Nat, m >= n, \A k \in 1 .. n : t[k] = s[k],
           NEW q, Covers(s, n, q)
    PROVE  Covers(t, m, q)
  <1>1. PICK k \in 1 .. n : \/ s[k].type = "META" /\ s[k].nextSeq > q
                            \/ s[k].type = "ENQUEUE" /\ s[k].m.seq >= q
      BY DEF Covers
  <1>2. k \in 1 .. m /\ t[k] = s[k]
      OBVIOUS
  <1>3. QED
      BY <1>1, <1>2, Zenon DEF Covers

LEMMA CoveredCounted ==
    ASSUME NEW s \in Seq(LogRecord), NEW n \in Nat, NEW q \in Nat, NEW m \in 0 .. Len(s),
           Covers(s, m, q), Counted(s, Len(s), n)
    PROVE  q < n
  <1>1. PICK k \in 1 .. m : \/ s[k].type = "META" /\ s[k].nextSeq > q
                            \/ s[k].type = "ENQUEUE" /\ s[k].m.seq >= q
      BY DEF Covers
  <1>2. k \in 1 .. Len(s) /\ s[k] \in LogRecord
      OBVIOUS
  <1>3. /\ s[k].type = "META" => s[k].nextSeq \in Nat
        /\ s[k].type = "ENQUEUE" => s[k].m.seq \in Nat
      BY <1>2, RecordFacts DEF Encoded
  <1>4. /\ s[k].type = "META" => s[k].nextSeq <= n
        /\ s[k].type = "ENQUEUE" => s[k].m.seq < n
      BY <1>2 DEF Counted
  <1>5. QED
      BY <1>1, <1>3, <1>4

LEMMA BornTyped ==
    ASSUME TypeInv
    PROVE  \A x \in 1 .. Len(born) : /\ born[x].seq \in Nat /\ born[x].at \in Nat
                                     /\ born[x].dedup \in DedupId \cup {NoDedup}
  <1> SUFFICES ASSUME NEW x \in 1 .. Len(born)
               PROVE  born[x] \in Birth
      BY DEF Birth
  <1>1. QED
      BY DEF TypeInv, HistoryOK

\* The record an enqueue waits for counts its Seq.
LEMMA AwaitedCovers ==
    ASSUME TypeInv, AnswerInv, RecordInv, NEW w \in waiting, w.op = "enqueue", w.pos # 0,
           NEW n \in Nat, w.pos <= n
    PROVE  Covers(log, n, born[w.id].seq)
  <1>1. w.pos \in 1 .. Len(log) /\ log[w.pos].type = "ENQUEUE" /\ log[w.pos].m.id = w.id
        /\ w.id \in 1 .. Len(born)
      BY DEF AnswerInv, Awaits, TypeInv, StoreOK
  <1>2. log[w.pos].m.seq = born[w.id].seq
      BY <1>1 DEF RecordInv, Faithful, Birthright
  <1>3. born[w.id].seq \in Nat /\ w.pos \in 1 .. n
      BY <1>1, BornTyped
  <1>4. log[w.pos].m.seq >= born[w.id].seq
      BY <1>2, <1>3
  <1>5. QED
      BY <1>1, <1>3, <1>4, Zenon DEF Covers

\* Whatever was or will be answered is below the counter of a running queue.
LEMMA CandidatesBelow ==
    ASSUME TypeInv, AnswerInv, RecordInv, CountInv, OrderInv, phase = "up", NEW a \in Candidates
    PROVE  a \in 1 .. Len(born) /\ born[a].seq \in Nat /\ born[a].seq < ix.nextSeq
  <1>0. /\ log \in Seq(LogRecord) /\ Len(log) \in Nat /\ durable \in 0 .. Len(log)
        /\ ix.nextSeq \in Nat /\ Counted(log, Len(log), ix.nextSeq)
      BY Fields DEF TypeInv, StoreOK, IndexOK, CountInv
  <1>1. a \in 1 .. Len(born)
      BY DEF Candidates, Pending, AnswerInv, Awaits
  <1>2. born[a].seq \in Nat
      BY <1>1, BornTyped
  <1>3. PICK m \in 0 .. Len(log) : Covers(log, m, born[a].seq)
    <2>1. CASE a \in enqOK
        BY <1>0, <2>1 DEF OrderInv
    <2>2. CASE a \notin enqOK
      <3>1. PICK w \in waiting : w.op = "enqueue" /\ w.id = a
          BY <2>2 DEF Candidates, Pending
      <3>2. CASE w.pos = 0
          BY <1>0, <3>1, <3>2 DEF OrderInv
      <3>3. CASE w.pos # 0
        <4>1. w.pos <= Len(log) /\ Len(log) \in 0 .. Len(log)
            BY <1>0 DEF AnswerInv, Awaits
        <4>2. Covers(log, Len(log), born[w.id].seq)
            BY <1>0, <3>1, <3>3, <4>1, AwaitedCovers
        <4>3. QED
            BY <3>1, <4>1, <4>2
      <3>4. QED
          BY <3>2, <3>3
    <2>3. QED
        BY <2>1, <2>2
  <1>4. born[a].seq < ix.nextSeq
      BY <1>0, <1>2, <1>3, CoveredCounted
  <1>5. QED
      BY <1>1, <1>2, <1>4

LEMMA OrderExtends ==
    ASSUME TypeInv, StoreOK', AnswerInv, OrderInv,
           Len(log') >= Len(log), \A k \in 1 .. Len(log) : log'[k] = log[k],
           durable' >= durable, \A x \in 1 .. Len(born) : born'[x] = born[x],
           enqOK' = enqOK,
           \A w \in waiting' : w \in waiting \/ w.pos # 0,
           \A a, b \in Candidates' : a < b => born'[a].seq < born'[b].seq
    PROVE  OrderInv'
  <1>0. durable \in Nat /\ durable' \in Nat /\ \A k \in 1 .. durable : log'[k] = log[k]
      BY DEF TypeInv, StoreOK
  <1>1. \A q : Covers(log, durable, q) => Covers(log', durable', q)
      BY <1>0, CoversKept
  <1>2. \A a \in enqOK' : Covers(log', durable', born'[a].seq)
      BY <1>1 DEF AnswerInv, OrderInv
  <1>3. ASSUME NEW w \in waiting', w.op = "enqueue", w.pos = 0
        PROVE  Covers(log', durable', born'[w.id].seq)
    <2>1. w \in waiting /\ w.id \in 1 .. Len(born)
        BY <1>3 DEF AnswerInv, Awaits
    <2>2. QED
        BY <1>1, <1>3, <2>1 DEF OrderInv
  <1>4. QED
      BY <1>2, <1>3 DEF OrderInv

LEMMA OrderSwap ==
    ASSUME TypeInv, AnswerInv, RecordInv, CountInv, OrderInv, dir # "log",
           log' = snap, durable' = Len(snap), waiting' \subseteq waiting,
           UNCHANGED <<born, enqOK>>
    PROVE  OrderInv'
  <1>0. phase = "up"
      BY Zenon DEF TypeInv, ModeOK
  <1>1. Len(snap) > 0 /\ snap[1] = Meta(ix.nextSeq) /\ Len(snap) \in Nat
      BY DEF CountInv, TypeInv, StoreOK
  <1>2. ASSUME NEW a \in Candidates
        PROVE  Covers(snap, Len(snap), born[a].seq)
    <2>1. born[a].seq < ix.nextSeq /\ born[a].seq \in Nat /\ ix.nextSeq \in Nat
        BY <1>0, CandidatesBelow, Fields DEF TypeInv, IndexOK
    <2>2. 1 \in 1 .. Len(snap) /\ snap[1].type = "META" /\ snap[1].nextSeq > born[a].seq
        BY <1>1, <2>1 DEF Meta
    <2>3. QED
        BY <2>2, Zenon DEF Covers
  <1>3. Candidates' \subseteq Candidates
      BY DEF Candidates, Pending
  <1>4. \A w \in waiting' : w.op = "enqueue" => w.id \in Candidates
      BY DEF Candidates, Pending
  <1>5. enqOK \subseteq Candidates
      BY DEF Candidates
  <1>6. QED
      BY <1>2, <1>3, <1>4, <1>5 DEF OrderInv

LEMMA OrderStep ==
    ASSUME TypeInv, TypeInv', AnswerInv, RecordInv, CountInv, OrderInv, Classified
    PROVE  OrderInv'
  <1>0. /\ log \in Seq(LogRecord) /\ durable \in 0 .. Len(log) /\ Len(log) \in Nat
        /\ StoreOK' /\ Len(born) \in Nat /\ durable >= durable /\ Len(log) >= Len(log)
        /\ ix.nextSeq \in Nat
      BY Fields DEF TypeInv, StoreOK, HistoryOK, IndexOK
  <1>1. ASSUME UNCHANGED <<log, born, enqOK>>, waiting' \subseteq waiting, durable' >= durable
        PROVE  OrderInv'
    <2>1. Candidates' \subseteq Candidates
        BY <1>1 DEF Candidates, Pending
    <2>2. \A a, b \in Candidates' : a < b => born'[a].seq < born'[b].seq
        BY <1>1, <2>1 DEF OrderInv
    <2>3. QED
        BY <1>0, <1>1, <2>2, OrderExtends
  <1>2. CASE Quiet
    <2>1. /\ UNCHANGED <<log, born, enqOK>> /\ waiting' \subseteq waiting
          /\ durable' \in durable .. Len(log)
        BY <1>2, Zenon DEF Quiet
    <2>2. durable' >= durable
        BY <1>0, <2>1
    <2>3. QED
        BY <1>1, <2>1, <2>2
  <1>3. CASE \E S \in SUBSET Ids : Serve(S)
    <2>1. UNCHANGED <<log, durable, born, enqOK, waiting>>
        BY <1>3, Zenon DEF Serve
    <2>2. QED
        BY <1>0, <1>1, <2>1
  <1>4. ASSUME NEW w \in waiting, Return(w)
        PROVE  OrderInv'
    <2>1. /\ UNCHANGED <<log, durable, born>> /\ waiting' = waiting \ {w}
          /\ enqOK' = (IF w.op = "enqueue" THEN enqOK \cup {w.id} ELSE enqOK)
          /\ w.pos <= durable
        BY <1>4, Zenon DEF Return, logV, Log!WaitOK
    <2>2. Candidates' \subseteq Candidates
        BY <2>1 DEF Candidates, Pending
    <2>3. w.op = "enqueue" => Covers(log, durable, born[w.id].seq)
      <3>1. CASE w.pos = 0
          BY <3>1 DEF OrderInv
      <3>2. CASE w.pos # 0
          BY <1>0, <2>1, <3>2, AwaitedCovers
      <3>3. QED
          BY <3>1, <3>2
    <2>4. QED
        BY <2>1, <2>2, <2>3 DEF OrderInv
  <1>5. ASSUME NEW d \in DedupId \cup {NoDedup}, NEW p \in Priority, NEW delay \in Delay,
               EnqueueStep(d, p, delay)
        PROVE  OrderInv'
    <2> DEFINE id == Len(born) + 1
               m == Fresh(d, p, delay)
               r == EnqueueRec(id, m)
    <2>1. r \in LogRecord /\ log' = Append(log, r) /\ m.seq = ix.nextSeq
        BY <1>5, EnqueueFacts
    <2>2. /\ UNCHANGED <<durable, enqOK>> /\ phase = "up"
          /\ waiting' = waiting \cup {[op |-> "enqueue", id |-> id, pos |-> Len(log')]}
          /\ born' = Append(born, [dedup |-> d, at |-> now, seq |-> m.seq])
        BY <1>5, Zenon DEF EnqueueStep
    <2>3. (\A x \in 1 .. Len(born) : born'[x] = born[x]) /\ born'[id].seq = m.seq
        BY <2>2 DEF TypeInv, HistoryOK
    <2>4. \A x \in 1 .. Len(born) : x < id /\ ~(id < x)
        BY <1>0
    <2> HIDE DEF r, m, id
    <2>5. /\ Len(log') = Len(log) + 1 /\ \A k \in 1 .. Len(log) : log'[k] = log[k]
        BY <1>0, <2>1, AppendFacts
    <2>6. Len(log') >= Len(log) /\ Len(log') # 0
        BY <1>0, <2>5
    <2>7. \A w \in waiting' : w \in waiting \/ w.pos # 0
        BY <2>2, <2>6
    <2>8. Candidates' \subseteq Candidates \cup {id}
        BY <2>2 DEF Candidates, Pending
    <2>9. \A a \in Candidates : /\ a \in 1 .. Len(born) /\ born[a].seq < ix.nextSeq
                                /\ born'[a] = born[a]
        BY <2>2, <2>3, CandidatesBelow
    <2>10. ASSUME NEW a \in Candidates', NEW b \in Candidates', a < b
           PROVE  born'[a].seq < born'[b].seq
      <3>1. CASE b = id
        <4>1. a \in Candidates
          <5>1. a # id
            <6>1. id \in Nat
                BY <1>0 DEF id
            <6>2. QED
                BY <2>10, <3>1, <6>1
          <5>2. QED
              BY <2>8, <5>1
        <4>2. QED
            BY <2>1, <2>3, <2>9, <3>1, <4>1
      <3>2. CASE b # id
        <4>1. b \in Candidates /\ a # id
            BY <2>4, <2>8, <2>9, <2>10, <3>2
        <4>2. QED
            BY <2>8, <2>9, <2>10, <4>1 DEF OrderInv
      <3>3. QED
          BY <3>1, <3>2
    <2>11. QED
        BY <1>0, <2>2, <2>3, <2>5, <2>6, <2>7, <2>10, OrderExtends
  <1>6. ASSUME NEW r \in LogRecord, log' = Append(log, r), UNCHANGED <<durable, born, enqOK>>,
               \A w \in waiting' : w \in waiting \/ (w.op # "enqueue" /\ w.pos = Len(log'))
        PROVE  OrderInv'
    <2>1. /\ Len(log') = Len(log) + 1 /\ \A k \in 1 .. Len(log) : log'[k] = log[k]
        BY <1>0, <1>6, AppendFacts
    <2>2. Len(log') >= Len(log) /\ Len(log') # 0
        BY <1>0, <2>1
    <2>3. Candidates' \subseteq Candidates
        BY <1>6 DEF Candidates, Pending
    <2>4. \A a, b \in Candidates' : a < b => born'[a].seq < born'[b].seq
        BY <1>6, <2>3 DEF OrderInv
    <2>5. QED
        BY <1>0, <1>6, <2>1, <2>2, <2>4, OrderExtends
  <1>7. ASSUME NEW id \in Ids, AckStep(id)
        PROVE  OrderInv'
    <2>1. AckRec(id) \in LogRecord
        BY <1>7, AckFacts
    <2>2. /\ log' = Append(log, AckRec(id)) /\ UNCHANGED <<durable, born, enqOK>>
          /\ waiting' = waiting \cup {[op |-> "ack", id |-> id, pos |-> Len(log')]}
        BY <1>7, Zenon DEF AckStep
    <2>3. \A w \in waiting' : w \in waiting \/ (w.op # "enqueue" /\ w.pos = Len(log'))
        BY <2>2
    <2>4. QED
        BY <1>6, <2>1, <2>2, <2>3
  <1>8. ASSUME NEW id \in Ids, NEW r \in LogRecord, AttemptStep(id, r)
        PROVE  OrderInv'
    <2>1. /\ log' = Append(log, r) /\ UNCHANGED <<durable, born, enqOK>>
          /\ \/ waiting' = waiting
             \/ waiting' = waiting \cup {[op |-> "nack", id |-> id, pos |-> Len(log')]}
        BY <1>8, Zenon DEF AttemptStep
    <2>2. \A w \in waiting' : w \in waiting \/ (w.op # "enqueue" /\ w.pos = Len(log'))
        BY <2>1
    <2>3. QED
        BY <1>6, <2>1, <2>2
  <1>9. CASE InstallStep
    <2>1. /\ UNCHANGED <<log, durable, born, enqOK>>
          /\ \A w \in waiting : w.pos <= durable
          /\ waiting' = Settled
        BY <1>9, Zenon DEF InstallStep
    <2>2. \A v \in waiting' : \E w \in waiting : v.op = w.op /\ v.id = w.id
        BY <2>1 DEF Settled, TypeInv, HistoryOK, Wait_
    <2>3. Candidates' \subseteq Candidates
        BY <2>1, <2>2 DEF Candidates, Pending
    <2>4. ASSUME NEW v \in waiting', v.op = "enqueue"
          PROVE  Covers(log, durable, born[v.id].seq)
      <3>1. PICK w \in waiting : w.op = "enqueue" /\ v.id = w.id
          BY <2>2, <2>4
      <3>2. CASE w.pos = 0
          BY <3>1, <3>2 DEF OrderInv
      <3>3. CASE w.pos # 0
        <4>1. w.pos <= durable
            BY <1>0, <2>1 DEF AnswerInv, Awaits
        <4>2. QED
            BY <1>0, <3>1, <3>3, <4>1, AwaitedCovers
      <3>4. QED
          BY <3>2, <3>3
    <2>5. QED
        BY <2>1, <2>3, <2>4 DEF OrderInv
  <1>10. CASE ReopenStep
    <2>1. /\ log' = snap /\ durable' = Len(snap) /\ dir # "log" /\ UNCHANGED <<born, enqOK, waiting>>
        BY <1>10, Zenon DEF ReopenStep
    <2>2. QED
        BY <2>1, OrderSwap
  <1>11. CASE StopStep
    <2>1. /\ UNCHANGED <<born, enqOK>> /\ waiting' = {}
          /\ \/ durable' = durable /\ \E k \in durable .. Len(log) : log' = SubSeq(log, 1, k)
             \/ dir # "log" /\ log' = snap /\ durable' = Len(snap)
        BY <1>11, StopFacts
    <2>2. CASE dir # "log" /\ log' = snap /\ durable' = Len(snap)
        BY <2>1, <2>2, OrderSwap
    <2>3. CASE durable' = durable /\ \E k \in durable .. Len(log) : log' = SubSeq(log, 1, k)
      <3>1. PICK k \in durable .. Len(log) : log' = SubSeq(log, 1, k)
          BY <2>3
      <3>2. k \in 0 .. Len(log) /\ durable \in Nat
          BY <1>0
      <3>3. \A j \in 1 .. durable : log'[j] = log[j]
          BY <1>0, <3>1, <3>2, PrefixFacts
      <3>4. \A q : Covers(log, durable, q) => Covers(log', durable, q)
          BY <1>0, <3>2, <3>3, CoversKept
      <3>5. Candidates' \subseteq Candidates
          BY <2>1 DEF Candidates, Pending
      <3>6. QED
          BY <2>1, <2>3, <3>4, <3>5 DEF OrderInv
    <2>4. QED
        BY <2>1, <2>2, <2>3
  <1>12. CASE Load
    <2>1. /\ UNCHANGED <<log, born, enqOK, waiting>>
          /\ durable' = durable \/ durable' = Len(log)
        BY <1>12, LoadCases, Zenon DEF LoadStep, RefusedStep
    <2>2. durable' >= durable
        BY <1>0, <2>1
    <2>3. QED
        BY <1>1, <2>1, <2>2
  <1>13. QED
      BY <1>2, <1>3, <1>4, <1>5, <1>7, <1>8, <1>9, <1>10, <1>11, <1>12 DEF Classified

LEMMA OrderAlways == Spec => []OrderInv
  <1>1. Init => OrderInv
    <2> SUFFICES ASSUME Init PROVE OrderInv
        OBVIOUS
    <2>1. waiting = {} /\ enqOK = {}
        BY Zenon DEF Init
    <2>2. QED
        BY <2>1 DEF OrderInv, Candidates, Pending
  <1>2. /\ TypeInv /\ TypeInv' /\ AnswerInv /\ RecordInv /\ CountInv /\ OrderInv /\ [Next]_vars
        => OrderInv'
      BY Classify, OrderStep
  <1>3. QED
      BY <1>1, <1>2, TypeInvariant, AnswerAlways, RecordAlways, CountAlways, PTL DEF Spec

\* Seq grows with enqueue order, which the comparator of the ready heap needs:
\* of two confirmed messages the later has the larger Seq, over compactions
\* that write neither of them, crashes and restarts.
THEOREM SeqAlwaysIncreases == Spec => []SeqIncreases
  <1>1. OrderInv => SeqIncreases
      BY DEF OrderInv, SeqIncreases, Candidates
  <1>2. QED
      BY <1>1, OrderAlways, PTL

-----------------------------------------------------------------------------
(***************************************************************************)
(* Dedup windows over acks, purges, compactions and restarts.              *)
(***************************************************************************)
\* No message is from the future, and those of one log are from the times
\* that their Seqs are in the order of.
BirthInv ==
    /\ \A x \in 1 .. Len(born) : born[x].at <= now
    /\ \A x, y \in Enq(log, Len(log)) : born[x].seq < born[y].seq => born[x].at <= born[y].at

\* Every message of a log was counted.
LEMMA EnqueuedCounted ==
    ASSUME TypeInv, RecordInv, CountInv, phase = "up", NEW x \in Enq(log, Len(log))
    PROVE  x \in 1 .. Len(born) /\ born[x].seq < ix.nextSeq
  <1>1. PICK k \in 1 .. Len(log) : log[k].type = "ENQUEUE" /\ log[k].m.id = x
      BY DEF Enq
  <1>2. log[k].m.seq = born[x].seq
      BY <1>1 DEF RecordInv, Faithful, Birthright
  <1>3. x \in 1 .. Len(born)
      BY <1>1 DEF TypeInv, StoreOK, IdsKnown, Knows
  <1>4. log[k].m.seq < ix.nextSeq
      BY <1>1 DEF CountInv, Counted
  <1>5. QED
      BY <1>2, <1>3, <1>4

LEMMA BirthStep ==
    ASSUME TypeInv, LiveInv, RecordInv, CountInv, BirthInv, Classified
    PROVE  BirthInv'
  <1>0. /\ log \in Seq(LogRecord) /\ durable \in 0 .. Len(log) /\ Len(log) \in Nat
        /\ Len(born) \in Nat /\ now \in Nat /\ ix.nextSeq \in Nat
        /\ \A x \in 1 .. Len(born) : born[x].at \in Nat
      BY Fields, BornTyped, QueueAssumption DEF TypeInv, StoreOK, HistoryOK, IndexOK, ClockOK
  <1>1. ASSUME born' = born, now' \in now .. MaxTime,
               Enq(log', Len(log')) \subseteq Enq(log, Len(log))
        PROVE  BirthInv'
    <2>1. \A x \in 1 .. Len(born') : born'[x].at <= now'
        BY <1>0, <1>1, QueueAssumption DEF BirthInv
    <2>2. QED
        BY <1>1, <2>1 DEF BirthInv
  <1>2. now \in now .. MaxTime
      BY QueueAssumption DEF TypeInv, ClockOK
  <1>3. CASE Quiet
    <2>1. UNCHANGED <<log, born>> /\ now' \in now .. MaxTime
        BY <1>3, Zenon DEF Quiet
    <2>2. QED
        BY <1>1, <2>1
  <1>4. CASE (\E S \in SUBSET Ids : Serve(S)) \/ (\E w \in waiting : Return(w)) \/ InstallStep \/ Load
    <2>1. UNCHANGED <<log, born, now>>
      <3>1. CASE Load
          BY <3>1, LoadCases, Zenon DEF LoadStep, RefusedStep
      <3>2. CASE ~Load
          BY <1>4, <3>2, Zenon DEF Serve, Return, InstallStep, logV
      <3>3. QED
          BY <3>1, <3>2
    <2>2. QED
        BY <1>1, <1>2, <2>1
  <1>5. ASSUME NEW d \in DedupId \cup {NoDedup}, NEW p \in Priority, NEW delay \in Delay,
               EnqueueStep(d, p, delay)
        PROVE  BirthInv'
    <2> DEFINE id == Len(born) + 1
               m == Fresh(d, p, delay)
               r == EnqueueRec(id, m)
    <2>1. r \in LogRecord /\ log' = Append(log, r) /\ m.seq = ix.nextSeq
        BY <1>5, EnqueueFacts
    <2>2. r.type = "ENQUEUE" /\ r.m.id = id
        BY EncodeFacts
    <2>3. /\ now' = now /\ phase = "up"
          /\ born' = Append(born, [dedup |-> d, at |-> now, seq |-> m.seq])
        BY <1>5, Zenon DEF EnqueueStep
    <2>4. /\ \A x \in 1 .. Len(born) : born'[x] = born[x]
          /\ born'[id].seq = m.seq /\ born'[id].at = now /\ Len(born') = id
        BY <2>3 DEF TypeInv, HistoryOK
    <2>5. id \notin Enq(log, Len(log))
        BY NextIdNew
    <2>6. id = Len(born) + 1 /\ id \in Nat
        BY <1>0
    <2> HIDE DEF r, m, id
    <2>7. Enq(log', Len(log')) = Enq(log, Len(log)) \cup {id}
      <3>1. r.m.id \notin Enq(log, Len(log)) /\ r.type \notin {"ACK", "NACK", "LEASE_EXPIRE"}
            /\ Legal(log)
          BY <2>2, <2>5 DEF LiveInv
      <3>2. Enq(log', Len(log'))
                = Enq(log, Len(log)) \cup (IF r.type = "ENQUEUE" THEN {r.m.id} ELSE {})
          BY <1>0, <2>1, <3>1, LegalAppend
      <3>3. QED
          BY <2>2, <3>2
    <2>8. \A x \in 1 .. Len(born') : born'[x].at <= now'
        BY <1>0, <2>3, <2>4, <2>6 DEF BirthInv
    <2>9. \A x \in Enq(log, Len(log)) : x \in 1 .. Len(born) /\ born[x].seq < ix.nextSeq
        BY <2>3, EnqueuedCounted
    <2>10. ASSUME NEW x \in Enq(log', Len(log')), NEW y \in Enq(log', Len(log')),
                  born'[x].seq < born'[y].seq
           PROVE  born'[x].at <= born'[y].at
      <3>1. x \in 1 .. Len(born') /\ (x = id \/ x \in Enq(log, Len(log)))
          BY <1>0, <2>4, <2>6, <2>7, <2>9
      <3>2. CASE y = id
          BY <2>3, <2>4, <2>8, <3>1, <3>2
      <3>3. CASE y # id
        <4>1. y \in Enq(log, Len(log)) /\ born'[y] = born[y] /\ born[y].seq < ix.nextSeq
            BY <2>4, <2>7, <2>9, <3>3
        <4>2. born[y].seq \in Nat
            BY <2>9, <4>1, BornTyped
        <4>3. x # id
            BY <1>0, <2>1, <2>4, <2>10, <4>1, <4>2
        <4>4. x \in Enq(log, Len(log)) /\ born'[x] = born[x]
            BY <2>4, <2>9, <3>1, <4>3
        <4>5. QED
            BY <2>10, <4>1, <4>4 DEF BirthInv
      <3>4. QED
          BY <3>2, <3>3
    <2>11. QED
        BY <2>8, <2>10 DEF BirthInv
  <1>6. ASSUME NEW id \in Ids, AckStep(id)
        PROVE  BirthInv'
    <2>1. /\ UNCHANGED <<born, now>> /\ phase = "up"
          /\ id \in DOMAIN ix.msgs /\ log' = Append(log, AckRec(id))
        BY <1>6, Zenon DEF AckStep
    <2>2. PICK r \in LogRecord : r = AckRec(id) /\ r.type = "ACK" /\ r.id = id
        BY <1>6, AckFacts DEF AckRec
    <2>3. r.id \in Live(log, Len(log)) /\ Legal(log) /\ log' = Append(log, r)
        BY <2>1, <2>2 DEF LiveInv
    <2>4. Enq(log', Len(log')) = Enq(log, Len(log)) \cup (IF r.type = "ENQUEUE" THEN {r.m.id} ELSE {})
        BY <1>0, <2>2, <2>3, LegalAppend
    <2>5. QED
        BY <1>1, <1>2, <2>1, <2>2, <2>4
  <1>7. ASSUME NEW id \in Ids, NEW r \in LogRecord, AttemptStep(id, r)
        PROVE  BirthInv'
    <2>1. r.type # "ENQUEUE" /\ r.type # "ACK" /\ r.id = id
        BY <1>7, AttemptFacts
    <2>2. /\ UNCHANGED <<born, now>> /\ phase = "up" /\ id \in DOMAIN ix.msgs /\ log' = Append(log, r)
        BY <1>7, Zenon DEF AttemptStep
    <2>3. r.id \in Live(log, Len(log)) /\ Legal(log)
        BY <2>1, <2>2 DEF LiveInv
    <2>4. Enq(log', Len(log')) = Enq(log, Len(log)) \cup (IF r.type = "ENQUEUE" THEN {r.m.id} ELSE {})
        BY <1>0, <2>1, <2>2, <2>3, LegalAppend
    <2>5. QED
        BY <1>1, <1>2, <2>1, <2>2, <2>4
  <1>8. ASSUME dir # "log", log' = snap, UNCHANGED <<born, now>>
        PROVE  BirthInv'
    <2>1. phase = "up"
        BY <1>8, Zenon DEF TypeInv, ModeOK
    <2>2. Enq(snap, Len(snap)) \subseteq Enq(log, Len(log))
        BY <1>8, <2>1 DEF LiveInv, Live
    <2>3. QED
        BY <1>1, <1>2, <1>8, <2>2
  <1>9. CASE ReopenStep
    <2>1. log' = snap /\ dir # "log" /\ UNCHANGED <<born, now>>
        BY <1>9, Zenon DEF ReopenStep
    <2>2. QED
        BY <1>8, <2>1
  <1>10. CASE StopStep
    <2>1. /\ UNCHANGED <<born, now>>
          /\ \/ \E k \in durable .. Len(log) : log' = SubSeq(log, 1, k)
             \/ dir # "log" /\ log' = snap
        BY <1>10, StopFacts
    <2>2. CASE dir # "log" /\ log' = snap
        BY <1>8, <2>1, <2>2
    <2>3. CASE \E k \in durable .. Len(log) : log' = SubSeq(log, 1, k)
      <3>1. PICK k \in durable .. Len(log) : log' = SubSeq(log, 1, k)
          BY <2>3
      <3>2. k \in 0 .. Len(log) /\ k \in 0 .. k
          BY <1>0
      <3>3. Len(log') = k /\ Enq(log', k) = Enq(log, k)
          BY <1>0, <3>1, <3>2, LegalPrefix DEF LiveInv
      <3>4. Enq(log, k) \subseteq Enq(log, Len(log))
          BY <1>0, <3>2, Growing
      <3>5. QED
          BY <1>1, <1>2, <2>1, <3>3, <3>4
    <2>4. QED
        BY <2>1, <2>2, <2>3
  <1>11. QED
      BY <1>3, <1>4, <1>5, <1>6, <1>7, <1>9, <1>10 DEF Classified

LEMMA BirthAlways == Spec => []BirthInv
  <1>1. Init => BirthInv
    <2> SUFFICES ASSUME Init PROVE BirthInv
        OBVIOUS
    <2>1. log = <<Meta(0)>> /\ born = <<>>
        BY Zenon DEF Init
    <2>2. Enq(log, Len(log)) = {}
        BY <2>1 DEF Enq, Meta
    <2>3. QED
        BY <2>1, <2>2 DEF BirthInv
  <1>2. TypeInv /\ LiveInv /\ RecordInv /\ CountInv /\ BirthInv /\ [Next]_vars => BirthInv'
      BY Classify, BirthStep
  <1>3. QED
      BY <1>1, <1>2, TypeInvariant, LiveAlways, RecordAlways, CountAlways, PTL DEF Spec

\* The record r opens the window of dedup id d until time e.
Opens(r, d, e) ==
    \/ r.type = "ENQUEUE" /\ r.m.dedup = d /\ d # NoDedup /\ e = r.m.created + DedupWindow
    \/ r.type = "DEDUP" /\ r.d = d /\ e = r.e.expires

LEMMA OpensTyped ==
    ASSUME NEW r \in LogRecord, NEW d, NEW e, Opens(r, d, e)
    PROVE  d \in DedupId /\ e \in Nat
  <1>1. DedupWindow \in Nat
      BY ConfigAssumption DEF ValidConfig
  <1>2. CASE r.type = "ENQUEUE"
    <2>1. r.m \in Encoded /\ r.m.dedup = d /\ d # NoDedup /\ e = r.m.created + DedupWindow
        BY <1>2, RecordFacts DEF Opens
    <2>2. r.m.created \in Nat /\ r.m.dedup \in DedupId \cup {NoDedup}
        BY <2>1 DEF Encoded
    <2>3. QED
        BY <1>1, <2>1, <2>2
  <1>3. CASE r.type # "ENQUEUE"
    <2>1. r.e \in DedupEntry /\ r.d \in DedupId /\ r.d = d /\ e = r.e.expires
        BY <1>3, RecordFacts DEF Opens
    <2>2. QED
        BY <2>1 DEF DedupEntry
  <1>4. QED
      BY <1>2, <1>3

\* What the table becomes when a record is replayed: the window that the record
\* opens takes the place of the one it had for the dedup id.
Entered(f, g, r) ==
    \/ g = f /\ \A d, e : ~Opens(r, d, e)
    \/ \E d \in DedupId, v \in DedupEntry :
         /\ g = Put(f, d, v) /\ Opens(r, d, v.expires)
         /\ \A c, e : Opens(r, c, e) => c = d /\ e = v.expires

LEMMA EnqueueEnters ==
    ASSUME NEW r \in LogRecord, r.type = "ENQUEUE", NEW f, NEW g,
           g = IF r.m.dedup = NoDedup THEN f
               ELSE Put(f, r.m.dedup, [msg |-> r.m.id, expires |-> r.m.created + DedupWindow])
    PROVE  Entered(f, g, r)
  <1>1. CASE r.m.dedup = NoDedup
      BY <1>1, Zenon DEF Entered, Opens
  <1>2. CASE r.m.dedup # NoDedup
    <2> DEFINE v == [msg |-> r.m.id, expires |-> r.m.created + DedupWindow]
    <2>1. r.m \in Encoded /\ DedupWindow \in Nat
        BY RecordFacts, ConfigAssumption DEF ValidConfig
    <2>2. v \in DedupEntry /\ r.m.dedup \in DedupId /\ v.expires = r.m.created + DedupWindow
        BY <1>2, <2>1 DEF Encoded, DedupEntry
    <2>3. g = Put(f, r.m.dedup, v)
        BY <1>2
    <2> HIDE DEF v
    <2>4. /\ Opens(r, r.m.dedup, v.expires)
          /\ \A c, e : Opens(r, c, e) => c = r.m.dedup /\ e = v.expires
        BY <1>2, <2>2, Zenon DEF Opens
    <2>5. QED
        BY <2>2, <2>3, <2>4, Zenon DEF Entered
  <1>3. QED
      BY <1>1, <1>2

LEMMA ReplayEnters ==
    ASSUME NEW r \in LogRecord, NEW i, NEW j, NEW t, Replayed(i, j, r, t)
    PROVE  Entered(i.dedup, j.dedup, r)
  <1>0. r.type \in {"META", "ENQUEUE", "ACK", "NACK", "LEASE_EXPIRE", "DEDUP"}
      BY RecordFacts
  <1>1. CASE r.type = "ENQUEUE"
    <2>1. j.dedup = IF r.m.dedup = NoDedup THEN i.dedup
                    ELSE Put(i.dedup, r.m.dedup,
                             [msg |-> r.m.id, expires |-> r.m.created + DedupWindow])
        BY <1>1, Zenon DEF Replayed
    <2>2. QED
        BY <1>1, <2>1, EnqueueEnters
  <1>2. CASE r.type = "DEDUP"
    <2>1. j.dedup = Put(i.dedup, r.d, r.e)
        BY <1>2, Zenon DEF Replayed
    <2>2. r.d \in DedupId /\ r.e \in DedupEntry
        BY <1>2, RecordFacts
    <2>3. QED
        BY <1>2, <2>1, <2>2, Zenon DEF Entered, Opens
  <1>3. CASE r.type \in {"META", "ACK", "NACK", "LEASE_EXPIRE"}
    <2>1. j.dedup = i.dedup
        BY <1>3 DEF Replayed
    <2>2. \A d, e : ~Opens(r, d, e)
        BY <1>3 DEF Opens
    <2>3. QED
        BY <2>1, <2>2, Zenon DEF Entered
  <1>4. QED
      BY <1>0, <1>1, <1>2, <1>3

-----------------------------------------------------------------------------
\* An entry of the table, in memory or in a record, is what its message was
\* born with.
Honest(b, d, e) ==
    b[e.msg].dedup = d /\ e.expires = b[e.msg].at + DedupWindow

AllHonest(s, b) ==
    \A k \in 1 .. Len(s) : s[k].type = "DEDUP" => Honest(b, s[k].d, s[k].e)

EntryInv ==
    /\ AllHonest(log, born)
    /\ dir # "log" => AllHonest(snap, born)
    /\ \A d \in DOMAIN ix.dedup : Honest(born, d, ix.dedup[d])

\* A window that a log opens is that of a message, and began by now.
LEMMA WindowBounded ==
    ASSUME TypeInv, BirthInv, NEW s \in Seq(LogRecord), IdsKnown(s), Faithful(s, born),
           AllHonest(s, born), NEW k \in 1 .. Len(s), NEW d, NEW e, Opens(s[k], d, e)
    PROVE  e <= now + DedupWindow
  <1>0. s[k] \in LogRecord /\ Knows(s[k], Len(born)) /\ DedupWindow \in Nat /\ now \in Nat
      BY ConfigAssumption DEF IdsKnown, ValidConfig, TypeInv, ClockOK
  <1>1. \A x \in 1 .. Len(born) : born[x].at \in Nat /\ born[x].at <= now
      BY BornTyped DEF BirthInv
  <1>2. PICK x \in 1 .. Len(born) : e = born[x].at + DedupWindow
    <2>1. CASE s[k].type = "ENQUEUE"
      <3>1. e = s[k].m.created + DedupWindow
          BY <2>1 DEF Opens
      <3>2. s[k].m.created = born[s[k].m.id].at
          BY <2>1 DEF Faithful, Birthright
      <3>3. s[k].m.id \in 1 .. Len(born)
          BY <1>0, <2>1 DEF Knows
      <3>4. QED
          BY <3>1, <3>2, <3>3
    <2>2. CASE s[k].type # "ENQUEUE"
      <3>1. s[k].type = "DEDUP" /\ e = s[k].e.expires
          BY <2>2 DEF Opens
      <3>2. e = born[s[k].e.msg].at + DedupWindow
          BY <3>1 DEF AllHonest, Honest
      <3>3. s[k].e.msg \in 1 .. Len(born)
          BY <1>0, <3>1 DEF Knows
      <3>4. QED
          BY <3>2, <3>3
    <2>3. QED
        BY <2>1, <2>2
  <1>3. QED
      BY <1>0, <1>1, <1>2

LEMMA EntryStep ==
    ASSUME TypeInv, RecordInv, EntryInv, Classified
    PROVE  EntryInv'
  <1>0. /\ log \in Seq(LogRecord) /\ durable \in 0 .. Len(log) /\ snap \in Seq(LogRecord)
        /\ Len(log) \in Nat /\ Len(born) \in Nat
      BY DEF TypeInv, StoreOK, HistoryOK
  <1>1. ASSUME UNCHANGED <<log, snap, born>>, dir' # "log" => dir # "log",
               \A d \in DOMAIN ix'.dedup : d \in DOMAIN ix.dedup /\ ix'.dedup[d] = ix.dedup[d]
        PROVE  EntryInv'
      BY <1>1 DEF EntryInv
  <1>2. CASE Quiet
    <2>1. UNCHANGED <<log, snap, born>> /\ (dir' # "log" => dir # "log") /\ Calm(ix, ix', now)
        BY <1>2, Zenon DEF Quiet
    <2>2. \A d \in DOMAIN ix'.dedup : d \in DOMAIN ix.dedup /\ ix'.dedup[d] = ix.dedup[d]
        BY <2>1 DEF Calm
    <2>3. QED
        BY <1>1, <2>1, <2>2
  <1>3. CASE (\E S \in SUBSET Ids : Serve(S)) \/ (\E w \in waiting : Return(w))
    <2>1. UNCHANGED <<log, snap, dir, born>> /\ ix'.dedup = ix.dedup
        BY <1>3, Zenon DEF Serve, Return, logV, disk
    <2>2. QED
        BY <1>1, <2>1
  <1>4. ASSUME NEW d \in DedupId \cup {NoDedup}, NEW p \in Priority, NEW delay \in Delay,
               EnqueueStep(d, p, delay)
        PROVE  EntryInv'
    <2> DEFINE id == Len(born) + 1
               m == Fresh(d, p, delay)
               r == EnqueueRec(id, m)
               v == [msg |-> id, expires |-> now + DedupWindow]
    <2>1. /\ r \in LogRecord /\ log' = Append(log, r)
          /\ ix'.dedup = IF d = NoDedup THEN ix.dedup ELSE Put(ix.dedup, d, v)
        BY <1>4, EnqueueFacts
    <2>2. r.type = "ENQUEUE"
        BY EncodeFacts
    <2>3. dir' = "log" /\ born' = Append(born, [dedup |-> d, at |-> now, seq |-> m.seq])
        BY <1>4, Zenon DEF EnqueueStep
    <2>4. /\ \A x \in 1 .. Len(born) : born'[x] = born[x]
          /\ born'[id].dedup = d /\ born'[id].at = now
        BY <2>3 DEF TypeInv, HistoryOK
    <2>5. Honest(born', d, v)
        BY <2>4 DEF Honest
    <2> HIDE DEF r, m, v, id
    <2>6. /\ Len(log') = Len(log) + 1 /\ \A k \in 1 .. Len(log) : log'[k] = log[k]
          /\ log'[Len(log) + 1] = r
        BY <1>0, <2>1, AppendFacts
    <2>7. ASSUME NEW k \in 1 .. Len(log'), log'[k].type = "DEDUP"
          PROVE  Honest(born', log'[k].d, log'[k].e)
      <3>1. k \in 1 .. Len(log) /\ log'[k] = log[k]
          BY <1>0, <2>2, <2>6, <2>7
      <3>2. Honest(born, log[k].d, log[k].e) /\ log[k].e.msg \in 1 .. Len(born)
          BY <2>7, <3>1 DEF EntryInv, AllHonest, TypeInv, StoreOK, IdsKnown, Knows
      <3>3. QED
          BY <2>4, <3>1, <3>2 DEF Honest
    <2>8. \A c \in DOMAIN ix.dedup : Honest(born', c, ix.dedup[c])
        BY <2>4 DEF EntryInv, Honest, TypeInv, IndexOK
    <2>9. \A c \in DOMAIN ix'.dedup : Honest(born', c, ix'.dedup[c])
      <3>1. CASE d = NoDedup
          BY <2>1, <2>8, <3>1
      <3>2. CASE d # NoDedup
          BY <2>1, <2>5, <2>8, <3>2 DEF Put
      <3>3. QED
          BY <3>1, <3>2
    <2>10. QED
        BY <2>3, <2>7, <2>9 DEF EntryInv, AllHonest
  <1>5. ASSUME NEW r \in LogRecord, r.type # "DEDUP", log' = Append(log, r), dir' = "log",
               born' = born, ix'.dedup = ix.dedup
        PROVE  EntryInv'
    <2>1. /\ Len(log') = Len(log) + 1 /\ \A k \in 1 .. Len(log) : log'[k] = log[k]
          /\ log'[Len(log) + 1] = r
        BY <1>0, <1>5, AppendFacts
    <2>2. AllHonest(log', born)
        BY <1>0, <1>5, <2>1 DEF EntryInv, AllHonest
    <2>3. QED
        BY <1>5, <2>2 DEF EntryInv
  <1>6. ASSUME NEW id \in Ids, AckStep(id)
        PROVE  EntryInv'
    <2>1. AckRec(id) \in LogRecord /\ AckRec(id).type # "DEDUP" /\ ix'.dedup = ix.dedup
        BY <1>6, AckFacts DEF AckRec
    <2>2. log' = Append(log, AckRec(id)) /\ born' = born /\ dir' = "log"
        BY <1>6, Zenon DEF AckStep
    <2>3. QED
        BY <1>5, <2>1, <2>2
  <1>7. ASSUME NEW id \in Ids, NEW r \in LogRecord, AttemptStep(id, r)
        PROVE  EntryInv'
    <2>1. r.type # "DEDUP" /\ ix'.dedup = ix.dedup
        BY <1>7, AttemptFacts
    <2>2. log' = Append(log, r) /\ born' = born /\ dir' = "log"
        BY <1>7, Zenon DEF AttemptStep
    <2>3. QED
        BY <1>5, <2>1, <2>2
  <1>8. CASE InstallStep
    <2>1. /\ Snapshot(snap') /\ UNCHANGED <<log, ix, born>>
        BY <1>8, Zenon DEF InstallStep
    <2>2. PICK a, b, L, R : Written(snap', a, b, L, R)
        BY <2>1, SnapshotWritten
    <2>3. ASSUME NEW k \in 1 .. Len(snap'), snap'[k].type = "DEDUP"
          PROVE  Honest(born, snap'[k].d, snap'[k].e)
      <3>1. PICK i \in 1 .. b : /\ R[i] \in orphans
                                /\ snap'[k] = DedupRec(R[i], ix.dedup[R[i]])
          BY <2>2, <2>3, SnapshotRecord
      <3>2. snap'[k].d = R[i] /\ snap'[k].e = ix.dedup[R[i]]
          BY <3>1 DEF DedupRec
      <3>3. QED
          BY <3>1, <3>2 DEF EntryInv, orphans
    <2>4. QED
        BY <2>1, <2>3 DEF EntryInv, AllHonest
  <1>9. CASE ReopenStep
    <2>1. log' = snap /\ dir = "snap" /\ dir' = "log" /\ UNCHANGED <<ix, born>>
        BY <1>9, Zenon DEF ReopenStep
    <2>2. QED
        BY <2>1 DEF EntryInv
  <1>10. CASE StopStep
    <2>1. /\ dir' = "log" /\ born' = born /\ ix' = EmptyIndex
          /\ \/ \E k \in durable .. Len(log) : log' = SubSeq(log, 1, k)
             \/ dir # "log" /\ log' = snap
        BY <1>10, StopFacts
    <2>2. AllHonest(log', born)
      <3>1. CASE dir # "log" /\ log' = snap
          BY <3>1 DEF EntryInv
      <3>2. CASE \E k \in durable .. Len(log) : log' = SubSeq(log, 1, k)
        <4>1. PICK k \in durable .. Len(log) : log' = SubSeq(log, 1, k)
            BY <3>2
        <4>2. k \in 0 .. Len(log)
            BY <1>0
        <4>3. Len(log') = k /\ \A j \in 1 .. k : log'[j] = log[j]
            BY <1>0, <4>1, <4>2, PrefixFacts
        <4>4. QED
            BY <1>0, <4>2, <4>3 DEF EntryInv, AllHonest
      <3>3. QED
          BY <2>1, <3>1, <3>2
    <2>3. QED
        BY <2>1, <2>2, EmptyIndexFacts DEF EntryInv
  <1>11. CASE Load
    <2>1. UNCHANGED <<log, snap, dir, born>>
        BY <1>11, LoadCases, Zenon DEF LoadStep, RefusedStep
    <2>2. CASE LoadStep
      <3>1. PICK r : r = log[pos + 1]
          OBVIOUS
      <3>2. /\ r \in LogRecord /\ Replayed(ix, ix', r, now) /\ pos + 1 \in 1 .. Len(log)
          BY <2>2, <3>1, LoadFacts
      <3>3. r.type = "ENQUEUE" => Birthright(born, r.m.id, r.m)
          BY <3>1, <3>2 DEF RecordInv, Faithful
      <3>4. r.type = "DEDUP" => Honest(born, r.d, r.e)
          BY <3>1, <3>2 DEF EntryInv, AllHonest
      <3>5. r.type \in {"META", "ENQUEUE", "ACK", "NACK", "LEASE_EXPIRE", "DEDUP"}
          BY <3>2, RecordFacts
      <3>6. CASE r.type = "ENQUEUE" /\ r.m.dedup # NoDedup
        <4>1. PICK v : v = [msg |-> r.m.id, expires |-> r.m.created + DedupWindow]
            OBVIOUS
        <4>2. ix'.dedup = Put(ix.dedup, r.m.dedup, v)
            BY <3>2, <3>6, <4>1, Zenon DEF Replayed
        <4>3. Honest(born, r.m.dedup, v)
            BY <3>3, <3>6, <4>1 DEF Honest, Birthright
        <4>4. \A c \in DOMAIN ix'.dedup : Honest(born, c, ix'.dedup[c])
            BY <4>2, <4>3 DEF EntryInv, Put
        <4>5. QED
            BY <2>1, <4>4 DEF EntryInv
      <3>7. CASE r.type = "DEDUP"
        <4>1. ix'.dedup = Put(ix.dedup, r.d, r.e)
            BY <3>2, <3>7, Zenon DEF Replayed
        <4>2. \A c \in DOMAIN ix'.dedup : Honest(born, c, ix'.dedup[c])
            BY <3>4, <3>7, <4>1 DEF EntryInv, Put
        <4>3. QED
            BY <2>1, <4>2 DEF EntryInv
      <3>8. CASE ~(r.type = "ENQUEUE" /\ r.m.dedup # NoDedup) /\ r.type # "DEDUP"
        <4>1. ix'.dedup = ix.dedup
            BY <3>2, <3>5, <3>8 DEF Replayed
        <4>2. QED
            BY <1>1, <2>1, <4>1
      <3>9. QED
          BY <3>6, <3>7, <3>8
    <2>3. CASE ~LoadStep
      <3>1. ix' = ix
          BY <1>11, <2>3, LoadCases, Zenon DEF RefusedStep
      <3>2. QED
          BY <1>1, <2>1, <3>1
    <2>4. QED
        BY <2>2, <2>3
  <1>12. QED
      BY <1>2, <1>3, <1>4, <1>6, <1>7, <1>8, <1>9, <1>10, <1>11 DEF Classified

LEMMA EntryAlways == Spec => []EntryInv
  <1>1. Init => EntryInv
    <2> SUFFICES ASSUME Init PROVE EntryInv
        OBVIOUS
    <2>1. log = <<Meta(0)>> /\ ix = EmptyIndex /\ dir = "log"
        BY Zenon DEF Init
    <2>2. AllHonest(log, born)
        BY <2>1 DEF AllHonest, Meta
    <2>3. QED
        BY <2>1, <2>2, EmptyIndexFacts DEF EntryInv
  <1>2. TypeInv /\ RecordInv /\ EntryInv /\ [Next]_vars => EntryInv'
      BY Classify, EntryStep
  <1>3. QED
      BY <1>1, <1>2, TypeInvariant, RecordAlways, PTL DEF Spec

-----------------------------------------------------------------------------
\* The windows of one dedup id follow each other in the order they end in.
InOrder(s) ==
    \A k \in 1 .. Len(s), j \in 1 .. Len(s) :
        \A d, e, f : j < k /\ Opens(s[j], d, e) /\ Opens(s[k], d, f) => e <= f

WindowInv == InOrder(log) /\ (dir # "log" => InOrder(snap))

\* The table f has every window that the first n records of s open and that
\* is still open at time t, or a later one.
Remembers(s, n, f, t) ==
    \A k \in 1 .. n : \A d, e :
        Opens(s[k], d, e) => e <= t \/ (d \in DOMAIN f /\ e <= f[d].expires)

MemoryInv ==
    /\ phase = "up" => Remembers(log, Len(log), ix.dedup, now)
    /\ phase = "loading" => Remembers(log, pos, ix.dedup, now)
    /\ dir # "log" => Remembers(snap, Len(snap), ix.dedup, now)

LEMMA InOrderAppend ==
    ASSUME NEW s \in Seq(LogRecord), InOrder(s), NEW r \in LogRecord,
           \A k \in 1 .. Len(s) : \A d, e, f : Opens(s[k], d, e) /\ Opens(r, d, f) => e <= f
    PROVE  InOrder(Append(s, r))
  <1> DEFINE t == Append(s, r)
  <1>1. /\ Len(t) = Len(s) + 1 /\ Len(s) \in Nat /\ \A k \in 1 .. Len(s) : t[k] = s[k]
        /\ t[Len(s) + 1] = r
      BY AppendFacts
  <1> HIDE DEF t
  <1>2. ASSUME NEW k \in 1 .. Len(t), NEW j \in 1 .. Len(t), NEW d, NEW e, NEW f,
               j < k, Opens(t[j], d, e), Opens(t[k], d, f)
        PROVE  e <= f
    <2>1. j \in 1 .. Len(s) /\ t[j] = s[j]
        BY <1>1, <1>2
    <2>2. CASE k = Len(s) + 1
        BY <1>1, <1>2, <2>1, <2>2
    <2>3. CASE k # Len(s) + 1
      <3>1. k \in 1 .. Len(s) /\ t[k] = s[k]
          BY <1>1, <2>3
      <3>2. QED
          BY <1>2, <2>1, <3>1 DEF InOrder
    <2>4. QED
        BY <2>2, <2>3
  <1>3. InOrder(t)
      BY <1>2 DEF InOrder
  <1>4. QED
      BY <1>3 DEF t

LEMMA InOrderPrefix ==
    ASSUME NEW s \in Seq(LogRecord), InOrder(s), NEW n \in 0 .. Len(s)
    PROVE  InOrder(SubSeq(s, 1, n))
  <1> DEFINE t == SubSeq(s, 1, n)
  <1>1. Len(t) = n /\ \A k \in 1 .. n : t[k] = s[k]
      BY PrefixFacts
  <1> HIDE DEF t
  <1>2. \A k \in 1 .. n : k \in 1 .. Len(s)
      OBVIOUS
  <1>3. InOrder(t)
      BY <1>1, <1>2 DEF InOrder
  <1>4. QED
      BY <1>3 DEF t

\* The window of a record of a snapshot is that of a live message, which the
\* log opens too, or one of the table's that is nowhere else.
Copied(k, d, e, a, b, L) ==
    \/ \E i \in 1 .. a : /\ k = 1 + i /\ L[i] \in DOMAIN ix.msgs
                         /\ e = ix.msgs[L[i]].created + DedupWindow
                         /\ \E j \in 1 .. Len(log) : Opens(log[j], d, e)
    \/ \E i \in 1 .. b : k = 1 + a + i /\ d \in orphans /\ e = ix.dedup[d].expires

LEMMA SnapshotOpens ==
    ASSUME TypeInv, LiveInv, RecordInv, phase = "up",
           NEW s, NEW a, NEW b, NEW L, NEW R, Written(s, a, b, L, R),
           NEW k \in 1 .. Len(s), NEW d, NEW e, Opens(s[k], d, e)
    PROVE  Copied(k, d, e, a, b, L)
  <1>1. CASE s[k].type = "ENQUEUE"
    <2>1. PICK i \in 1 .. a : /\ k = 1 + i /\ L[i] \in DOMAIN ix.msgs
                              /\ s[k] = EnqueueRec(L[i], ix.msgs[L[i]])
        BY <1>1, SnapshotRecord
    <2>2. PICK x, m : x = L[i] /\ m = ix.msgs[L[i]]
        OBVIOUS
    <2>3. SameEntry(m, s[k].m)
        BY <2>1, <2>2, EncodeFacts
    <2>4. m.dedup = d /\ d # NoDedup /\ e = m.created + DedupWindow
        BY <1>1, <2>3 DEF Opens, SameEntry
    <2>5. x \in Enq(log, Len(log))
        BY <2>1, <2>2 DEF LiveInv, Live
    <2>6. PICK j \in 1 .. Len(log) : log[j].type = "ENQUEUE" /\ log[j].m.id = x
        BY <2>5 DEF Enq
    <2>7. log[j].m.dedup = m.dedup /\ log[j].m.created = m.created
        BY <2>1, <2>2, <2>6 DEF RecordInv, Faithful, Birthright
    <2>8. Opens(log[j], d, e)
        BY <2>4, <2>6, <2>7 DEF Opens
    <2>9. QED
        BY <2>1, <2>2, <2>4, <2>8, Zenon DEF Copied
  <1>2. CASE s[k].type # "ENQUEUE"
    <2>1. s[k].type = "DEDUP" /\ s[k].d = d /\ e = s[k].e.expires
        BY <1>2 DEF Opens
    <2>2. PICK i \in 1 .. b : /\ k = 1 + a + i /\ R[i] \in orphans
                              /\ s[k] = DedupRec(R[i], ix.dedup[R[i]])
        BY <2>1, SnapshotRecord
    <2>3. R[i] = d /\ e = ix.dedup[d].expires
        BY <2>1, <2>2 DEF DedupRec
    <2>4. QED
        BY <2>2, <2>3, Zenon DEF Copied
  <1>3. QED
      BY <1>1, <1>2

LEMMA SumsOrdered ==
    ASSUME NEW a \in Nat, NEW b \in Nat, NEW w \in Nat, a <= b
    PROVE  a + w <= b + w
  OBVIOUS

LEMMA SnapshotInOrder ==
    ASSUME TypeInv, LiveInv, RecordInv, BirthInv, MemoryInv, phase = "up",
           NEW s, NEW a, NEW b, NEW L, NEW R, Written(s, a, b, L, R)
    PROVE  InOrder(s)
  <1>0. /\ a \in Nat /\ b \in Nat /\ DedupWindow \in Nat /\ now \in Nat
        /\ \A i, j \in 1 .. a : i < j => ix.msgs[L[i]].seq < ix.msgs[L[j]].seq
      BY ConfigAssumption DEF Written, ValidConfig, TypeInv, ClockOK
  <1>1. SUFFICES ASSUME NEW k \in 1 .. Len(s), NEW j \in 1 .. Len(s), NEW d, NEW e, NEW f,
                        j < k, Opens(s[j], d, e), Opens(s[k], d, f)
                 PROVE  e <= f
      BY DEF InOrder
  <1>2. Copied(k, d, f, a, b, L) /\ Copied(j, d, e, a, b, L)
      BY <1>1, SnapshotOpens
  <1>3. \/ \E i \in 1 .. a : /\ j = 1 + i /\ L[i] \in DOMAIN ix.msgs
                             /\ e = ix.msgs[L[i]].created + DedupWindow
                             /\ \E h \in 1 .. Len(log) : Opens(log[h], d, e)
        \/ \E i \in 1 .. b : j = 1 + a + i /\ e = ix.dedup[d].expires
      BY <1>2, Zenon DEF Copied
  <1>4. CASE \E i \in 1 .. a : /\ k = 1 + i /\ L[i] \in DOMAIN ix.msgs
                              /\ f = ix.msgs[L[i]].created + DedupWindow
    <2>1. PICK i \in 1 .. a : /\ k = 1 + i /\ L[i] \in DOMAIN ix.msgs
                              /\ f = ix.msgs[L[i]].created + DedupWindow
        BY <1>4
    <2>2. PICK h \in 1 .. a : /\ j = 1 + h /\ L[h] \in DOMAIN ix.msgs
                              /\ e = ix.msgs[L[h]].created + DedupWindow
      <3>1. ~\E h \in 1 .. b : j = 1 + a + h
          BY <1>0, <1>1, <2>1
      <3>2. QED
          BY <1>3, <3>1, Zenon
    <2>3. ix.msgs[L[h]].seq < ix.msgs[L[i]].seq
      <3>1. h < i
          BY <1>0, <1>1, <2>1, <2>2
      <3>2. QED
          BY <1>0, <3>1
    <2>4. PICK x \in DOMAIN ix.msgs, y \in DOMAIN ix.msgs : x = L[h] /\ y = L[i]
        BY <2>1, <2>2
    <2>5. /\ ix.msgs[x].seq = born[x].seq /\ ix.msgs[x].created = born[x].at
          /\ ix.msgs[y].seq = born[y].seq /\ ix.msgs[y].created = born[y].at
        BY <2>4 DEF RecordInv, Birthright
    <2>6. x \in Enq(log, Len(log)) /\ y \in Enq(log, Len(log))
        BY <2>4 DEF LiveInv, Live
    <2>7. born[x].at <= born[y].at
      <3>1. born[x].seq < born[y].seq
          BY <2>3, <2>4, <2>5
      <3>2. QED
          BY <2>6, <3>1 DEF BirthInv
    <2>8. born[x].at \in Nat /\ born[y].at \in Nat
        BY <2>4, BornTyped DEF TypeInv, IndexOK
    <2>9. e = born[x].at + DedupWindow /\ f = born[y].at + DedupWindow
        BY <2>1, <2>2, <2>4, <2>5
    <2>10. DedupWindow \in Nat
        BY <1>0
    <2>11. born[x].at + DedupWindow <= born[y].at + DedupWindow
        BY <2>7, <2>8, <2>10, SumsOrdered, Zenon
    <2>12. QED
        BY <2>9, <2>11, Zenon
  <1>5. CASE d \in orphans /\ f = ix.dedup[d].expires
    <2>1. f \in Nat /\ now < f
      <3>1. ix.dedup \in DedupMap /\ d \in DOMAIN ix.dedup
          BY <1>5, Fields DEF TypeInv, IndexOK, orphans
      <3>2. QED
          BY <1>5, <3>1, DedupFacts DEF DedupEntry, orphans
    <2>2. CASE e = ix.dedup[d].expires
        BY <1>5, <2>1, <2>2
    <2>3. CASE \E h \in 1 .. Len(log) : Opens(log[h], d, e)
      <3>1. PICK h \in 1 .. Len(log) : Opens(log[h], d, e)
          BY <2>3
      <3>2. e <= now \/ e <= ix.dedup[d].expires
          BY <3>1 DEF MemoryInv, Remembers
      <3>3. log[h] \in LogRecord
          BY DEF TypeInv, StoreOK
      <3>4. e \in Nat
          BY <3>1, <3>3, OpensTyped
      <3>5. now \in Nat
          BY <1>0
      <3>6. e <= now \/ e <= f
          BY <1>5, <3>2, Zenon
      <3>7. QED
          BY <2>1, <3>4, <3>5, <3>6
    <2>4. QED
        BY <1>3, <2>2, <2>3
  <1>6. QED
      BY <1>2, <1>4, <1>5, Zenon DEF Copied

LEMMA WindowStep ==
    ASSUME TypeInv, LiveInv, RecordInv, BirthInv, EntryInv, MemoryInv, WindowInv, Classified
    PROVE  WindowInv'
  <1>0. /\ log \in Seq(LogRecord) /\ durable \in 0 .. Len(log) /\ Len(log) \in Nat
        /\ now \in Nat /\ DedupWindow \in Nat
      BY ConfigAssumption DEF TypeInv, StoreOK, ClockOK, ValidConfig
  <1>1. CASE Quiet
    <2>1. UNCHANGED <<log, snap>> /\ (dir' # "log" => dir # "log")
        BY <1>1, Zenon DEF Quiet
    <2>2. QED
        BY <2>1 DEF WindowInv
  <1>2. CASE (\E S \in SUBSET Ids : Serve(S)) \/ (\E w \in waiting : Return(w)) \/ Load
    <2>1. UNCHANGED <<log, snap, dir>>
      <3>1. CASE Load
          BY <3>1, LoadCases, Zenon DEF LoadStep, RefusedStep
      <3>2. CASE ~Load
          BY <1>2, <3>2, Zenon DEF Serve, Return, logV, disk
      <3>3. QED
          BY <3>1, <3>2
    <2>2. QED
        BY <2>1 DEF WindowInv
  <1>3. ASSUME NEW d \in DedupId \cup {NoDedup}, NEW p \in Priority, NEW delay \in Delay,
               EnqueueStep(d, p, delay)
        PROVE  WindowInv'
    <2> DEFINE id == Len(born) + 1
               m == Fresh(d, p, delay)
               r == EnqueueRec(id, m)
    <2>1. r \in LogRecord /\ log' = Append(log, r) /\ m.created = now
        BY <1>3, EnqueueFacts
    <2>2. r.type = "ENQUEUE" /\ r.m.created = m.created
        BY EncodeFacts DEF SameEntry
    <2>3. dir' = "log"
        BY <1>3, Zenon DEF EnqueueStep
    <2> HIDE DEF r, m, id
    <2>4. \A c, f : Opens(r, c, f) => f = now + DedupWindow
        BY <2>1, <2>2 DEF Opens
    <2>5. \A k \in 1 .. Len(log) : \A c, e : Opens(log[k], c, e) => e <= now + DedupWindow
        BY <1>0, WindowBounded DEF RecordInv, EntryInv, TypeInv, StoreOK
    <2>6. InOrder(Append(log, r))
        BY <1>0, <2>1, <2>4, <2>5, InOrderAppend DEF WindowInv
    <2>7. QED
        BY <2>1, <2>3, <2>6 DEF WindowInv
  <1>4. ASSUME NEW r \in LogRecord, r.type \in {"ACK", "NACK", "LEASE_EXPIRE"},
               log' = Append(log, r), dir' = "log"
        PROVE  WindowInv'
    <2>1. \A c, f : ~Opens(r, c, f)
        BY <1>4 DEF Opens
    <2>2. InOrder(Append(log, r))
        BY <1>0, <2>1, InOrderAppend DEF WindowInv
    <2>3. QED
        BY <1>4, <2>2 DEF WindowInv
  <1>5. ASSUME NEW id \in Ids, AckStep(id)
        PROVE  WindowInv'
    <2>1. AckRec(id) \in LogRecord /\ AckRec(id).type = "ACK"
        BY <1>5, AckFacts DEF AckRec
    <2>2. log' = Append(log, AckRec(id)) /\ dir' = "log"
        BY <1>5, Zenon DEF AckStep
    <2>3. QED
        BY <1>4, <2>1, <2>2
  <1>6. ASSUME NEW id \in Ids, NEW r \in LogRecord, AttemptStep(id, r)
        PROVE  WindowInv'
    <2>1. r.type \in {"ACK", "NACK", "LEASE_EXPIRE"}
        BY <1>6, AttemptFacts
    <2>2. log' = Append(log, r) /\ dir' = "log"
        BY <1>6, Zenon DEF AttemptStep
    <2>3. QED
        BY <1>4, <2>1, <2>2
  <1>7. CASE InstallStep
    <2>1. /\ Snapshot(snap') /\ log' = log /\ phase = "up"
        BY <1>7, Zenon DEF InstallStep
    <2>2. PICK a, b, L, R : Written(snap', a, b, L, R)
        BY <2>1, SnapshotWritten
    <2>3. InOrder(snap')
        BY <2>1, <2>2, SnapshotInOrder
    <2>4. QED
        BY <2>1, <2>3 DEF WindowInv
  <1>8. CASE ReopenStep
    <2>1. log' = snap /\ dir = "snap" /\ dir' = "log"
        BY <1>8, Zenon DEF ReopenStep
    <2>2. QED
        BY <2>1 DEF WindowInv
  <1>9. CASE StopStep
    <2>1. /\ dir' = "log"
          /\ \/ \E k \in durable .. Len(log) : log' = SubSeq(log, 1, k)
             \/ dir # "log" /\ log' = snap
        BY <1>9, StopFacts
    <2>2. \A k \in durable .. Len(log) : k \in 0 .. Len(log)
        BY <1>0
    <2>3. InOrder(log')
        BY <1>0, <2>1, <2>2, InOrderPrefix DEF WindowInv
    <2>4. QED
        BY <2>1, <2>3 DEF WindowInv
  <1>10. QED
      BY <1>1, <1>2, <1>3, <1>5, <1>6, <1>7, <1>8, <1>9 DEF Classified

\* A purge takes no window that is open, and time only closes windows.
LEMMA RemembersCalm ==
    ASSUME NEW s \in Seq(LogRecord), NEW n \in 0 .. Len(s), NEW f \in DedupMap, NEW g,
           NEW t \in Nat, NEW u \in Nat, u >= t, Remembers(s, n, f, t),
           DOMAIN g \subseteq DOMAIN f, \A d \in DOMAIN g : g[d] = f[d],
           \A d \in DOMAIN f \ DOMAIN g : f[d].expires <= t
    PROVE  Remembers(s, n, g, u)
  <1> SUFFICES ASSUME NEW k \in 1 .. n, NEW d, NEW e, Opens(s[k], d, e)
               PROVE  e <= u \/ (d \in DOMAIN g /\ e <= g[d].expires)
      BY DEF Remembers
  <1>1. s[k] \in LogRecord
      OBVIOUS
  <1>2. e \in Nat
      BY <1>1, OpensTyped
  <1>3. e <= t \/ (d \in DOMAIN f /\ e <= f[d].expires)
      BY DEF Remembers
  <1>4. d \in DOMAIN f => f[d].expires \in Nat
      BY DedupFacts DEF DedupEntry
  <1>5. QED
      BY <1>2, <1>3, <1>4

\* One record more, and the entry it makes.
LEMMA RemembersNext ==
    ASSUME NEW s \in Seq(LogRecord), NEW n \in 0 .. Len(s) - 1, NEW r \in LogRecord, r = s[n + 1],
           InOrder(s), NEW f, NEW g, Entered(f, g, r), NEW t \in Nat, Remembers(s, n, f, t)
    PROVE  Remembers(s, n + 1, g, t)
  <1>0. n + 1 \in 1 .. Len(s) /\ \A k \in 1 .. n : k \in 1 .. Len(s) /\ k < n + 1
      OBVIOUS
  <1> SUFFICES ASSUME NEW k \in 1 .. n + 1, NEW d, NEW e, Opens(s[k], d, e)
               PROVE  e <= t \/ (d \in DOMAIN g /\ e <= g[d].expires)
      BY DEF Remembers
  <1>1. CASE g = f /\ \A c, h : ~Opens(r, c, h)
    <2>1. k \in 1 .. n
        BY <1>1
    <2>2. QED
        BY <1>1, <2>1 DEF Remembers
  <1>2. CASE \E c \in DedupId, v \in DedupEntry :
               /\ g = Put(f, c, v) /\ Opens(r, c, v.expires)
               /\ \A h, w : Opens(r, h, w) => h = c /\ w = v.expires
    <2>1. PICK c \in DedupId, v \in DedupEntry :
               /\ g = Put(f, c, v) /\ Opens(r, c, v.expires)
               /\ \A h, w : Opens(r, h, w) => h = c /\ w = v.expires
        BY <1>2
    <2>2. /\ c \in DOMAIN g /\ g[c] = v
          /\ \A h \in DOMAIN f : h \in DOMAIN g /\ (h # c => g[h] = f[h])
        BY <2>1 DEF Put
    <2>3. CASE k = n + 1
      <3>1. d = c /\ e = v.expires
          BY <2>1, <2>3
      <3>2. e \in Nat
          BY <3>1 DEF DedupEntry
      <3>3. QED
          BY <2>2, <3>1, <3>2
    <2>4. CASE k # n + 1
      <3>1. k \in 1 .. n
          BY <2>4
      <3>2. CASE d = c
        <4>1. Opens(s[k], c, e) /\ Opens(s[n + 1], c, v.expires)
            BY <2>1, <3>2
        <4>2. e <= v.expires
            BY <1>0, <3>1, <4>1 DEF InOrder
        <4>3. QED
            BY <2>2, <3>2, <4>2
      <3>3. CASE d # c
          BY <2>2, <3>1, <3>3 DEF Remembers
      <3>4. QED
          BY <3>2, <3>3
    <2>5. QED
        BY <2>3, <2>4
  <1>3. QED
      BY <1>1, <1>2 DEF Entered

LEMMA RemembersSame ==
    ASSUME NEW s, NEW u, NEW n \in Nat, \A k \in 1 .. n : u[k] = s[k], NEW f, NEW t,
           Remembers(s, n, f, t)
    PROVE  Remembers(u, n, f, t)
  BY DEF Remembers

LEMMA MemoryStep ==
    ASSUME TypeInv, TypeInv', LiveInv, RecordInv, WindowInv, WindowInv', MemoryInv, Classified
    PROVE  MemoryInv'
  <1>0. /\ log \in Seq(LogRecord) /\ snap \in Seq(LogRecord) /\ Len(log) \in Nat /\ Len(snap) \in Nat
        /\ pos \in 0 .. Len(log) /\ now \in Nat /\ now' \in Nat
        /\ Len(log) \in 0 .. Len(log) /\ Len(snap) \in 0 .. Len(snap)
        /\ ix.dedup \in DedupMap /\ log' \in Seq(LogRecord)
    <2>1. ix.dedup \in DedupMap
        BY Fields DEF TypeInv, IndexOK
    <2>2. now \in Nat /\ now' \in Nat
        BY QueueAssumption DEF TypeInv, ClockOK
    <2>3. /\ log \in Seq(LogRecord) /\ snap \in Seq(LogRecord) /\ log' \in Seq(LogRecord)
          /\ pos \in 0 .. Len(log)
        BY Zenon DEF TypeInv, StoreOK
    <2>4. QED
        BY <2>1, <2>2, <2>3
  <1>1. ASSUME UNCHANGED <<log, snap, phase, pos, dir, now>>, ix'.dedup = ix.dedup
        PROVE  MemoryInv'
      BY <1>1 DEF MemoryInv
  <1>2. CASE Quiet
    <2>1. /\ UNCHANGED <<log, snap, phase, pos>> /\ (dir' # "log" => dir # "log")
          /\ now' \in now .. MaxTime /\ Calm(ix, ix', now)
        BY <1>2, Zenon DEF Quiet
    <2>2. /\ DOMAIN ix'.dedup \subseteq DOMAIN ix.dedup
          /\ \A d \in DOMAIN ix'.dedup : ix'.dedup[d] = ix.dedup[d]
          /\ \A d \in DOMAIN ix.dedup \ DOMAIN ix'.dedup : ix.dedup[d].expires <= now
          /\ now' >= now
        BY <1>0, <2>1, QueueAssumption DEF Calm
    <2>3. /\ \A n \in 0 .. Len(log) :
               Remembers(log, n, ix.dedup, now) => Remembers(log, n, ix'.dedup, now')
          /\ Remembers(snap, Len(snap), ix.dedup, now)
               => Remembers(snap, Len(snap), ix'.dedup, now')
        BY <1>0, <2>2, RemembersCalm
    <2>4. QED
        BY <1>0, <2>1, <2>3 DEF MemoryInv
  <1>3. CASE (\E S \in SUBSET Ids : Serve(S)) \/ (\E w \in waiting : Return(w))
    <2>1. UNCHANGED <<log, snap, phase, pos, dir, now>> /\ ix'.dedup = ix.dedup
        BY <1>3, Zenon DEF Serve, Return, logV, disk, proc
    <2>2. QED
        BY <1>1, <2>1
  <1>4. ASSUME NEW r \in LogRecord, log' = Append(log, r), Entered(ix.dedup, ix'.dedup, r),
               phase = "up", phase' = "up", dir' = "log", now' = now
        PROVE  MemoryInv'
    <2>1. /\ Len(log') = Len(log) + 1 /\ (\A k \in 1 .. Len(log) : log'[k] = log[k])
          /\ r = log'[Len(log) + 1]
        BY <1>0, <1>4, AppendFacts
    <2>2. Remembers(log', Len(log), ix.dedup, now)
        BY <1>0, <1>4, <2>1, RemembersSame DEF MemoryInv
    <2>3. Len(log) \in 0 .. Len(log') - 1 /\ InOrder(log')
        BY <1>0, <2>1 DEF WindowInv
    <2>4. Remembers(log', Len(log) + 1, ix'.dedup, now)
        BY <1>0, <2>1, <2>2, <2>3, <1>4, RemembersNext
    <2>5. QED
        BY <1>4, <2>1, <2>4 DEF MemoryInv
  <1>5. ASSUME NEW d \in DedupId \cup {NoDedup}, NEW p \in Priority, NEW delay \in Delay,
               EnqueueStep(d, p, delay)
        PROVE  MemoryInv'
    <2> DEFINE id == Len(born) + 1
               m == Fresh(d, p, delay)
               r == EnqueueRec(id, m)
    <2>1. /\ r \in LogRecord /\ log' = Append(log, r) /\ m.created = now /\ m.dedup = d
          /\ ix'.dedup = IF d = NoDedup THEN ix.dedup
                         ELSE Put(ix.dedup, d, [msg |-> id, expires |-> now + DedupWindow])
        BY <1>5, EnqueueFacts
    <2>2. r.type = "ENQUEUE" /\ r.m.id = id /\ r.m.created = m.created /\ r.m.dedup = m.dedup
        BY EncodeFacts DEF SameEntry
    <2>3. phase = "up" /\ phase' = "up" /\ dir' = "log" /\ now' = now
        BY <1>5, Zenon DEF EnqueueStep
    <2> HIDE DEF r, m, id
    <2>4. ix'.dedup = IF r.m.dedup = NoDedup THEN ix.dedup
                      ELSE Put(ix.dedup, r.m.dedup,
                               [msg |-> r.m.id, expires |-> r.m.created + DedupWindow])
        BY <2>1, <2>2, Zenon
    <2>5. Entered(ix.dedup, ix'.dedup, r)
        BY <2>1, <2>2, <2>4, EnqueueEnters
    <2>6. QED
        BY <1>4, <2>1, <2>3, <2>5
  <1>6. ASSUME NEW id \in Ids, AckStep(id)
        PROVE  MemoryInv'
    <2>1. AckRec(id) \in LogRecord /\ AckRec(id).type = "ACK" /\ ix'.dedup = ix.dedup
        BY <1>6, AckFacts DEF AckRec
    <2>2. /\ log' = Append(log, AckRec(id))
          /\ phase = "up" /\ phase' = "up" /\ dir' = "log" /\ now' = now
        BY <1>6, Zenon DEF AckStep
    <2>3. Entered(ix.dedup, ix'.dedup, AckRec(id))
        BY <2>1 DEF Entered, Opens
    <2>4. QED
        BY <1>4, <2>1, <2>2, <2>3
  <1>7. ASSUME NEW id \in Ids, NEW r \in LogRecord, AttemptStep(id, r)
        PROVE  MemoryInv'
    <2>1. r.type \in {"NACK", "LEASE_EXPIRE"} /\ ix'.dedup = ix.dedup
        BY <1>7, AttemptFacts
    <2>2. /\ log' = Append(log, r)
          /\ phase = "up" /\ phase' = "up" /\ dir' = "log" /\ now' = now
        BY <1>7, Zenon DEF AttemptStep
    <2>3. Entered(ix.dedup, ix'.dedup, r)
        BY <2>1 DEF Entered, Opens
    <2>4. QED
        BY <1>4, <2>2, <2>3
  <1>8. CASE InstallStep
    <2>1. /\ Snapshot(snap') /\ UNCHANGED <<log, phase, pos, ix, now>> /\ phase = "up"
        BY <1>8, Zenon DEF InstallStep
    <2>2. PICK a, b, L, R : Written(snap', a, b, L, R)
        BY <2>1, SnapshotWritten
    <2>3. ASSUME NEW k \in 1 .. Len(snap'), NEW d, NEW e, Opens(snap'[k], d, e)
          PROVE  e <= now \/ (d \in DOMAIN ix.dedup /\ e <= ix.dedup[d].expires)
      <3>1. Copied(k, d, e, a, b, L)
          BY <2>1, <2>2, <2>3, SnapshotOpens
      <3>2. \/ \E j \in 1 .. Len(log) : Opens(log[j], d, e)
            \/ d \in orphans /\ e = ix.dedup[d].expires
          BY <3>1, Zenon DEF Copied
      <3>3. CASE \E j \in 1 .. Len(log) : Opens(log[j], d, e)
          BY <2>1, <3>3 DEF MemoryInv, Remembers
      <3>4. CASE d \in orphans /\ e = ix.dedup[d].expires
        <4>1. d \in DOMAIN ix.dedup
            BY <3>4 DEF orphans
        <4>2. e \in Nat
            BY <1>0, <3>4, <4>1, DedupFacts DEF DedupEntry
        <4>3. QED
            BY <3>4, <4>1, <4>2
      <3>5. QED
          BY <3>2, <3>3, <3>4
    <2>4. Remembers(snap', Len(snap'), ix.dedup, now)
        BY <2>3 DEF Remembers
    <2>5. QED
        BY <2>1, <2>4 DEF MemoryInv
  <1>9. CASE ReopenStep
    <2>1. /\ log' = snap /\ dir = "snap" /\ dir' = "log" /\ UNCHANGED <<phase, ix, now>>
          /\ phase = "up"
        BY <1>9, Zenon DEF ReopenStep
    <2>2. QED
        BY <2>1 DEF MemoryInv
  <1>10. CASE StopStep
    <2>1. dir' = "log" /\ phase' = "down"
        BY <1>10, StopFacts
    <2>2. QED
        BY <2>1 DEF MemoryInv
  <1>11. CASE Load
    <2>1. UNCHANGED <<log, snap, dir, now>>
        BY <1>11, LoadCases, Zenon DEF LoadStep, RefusedStep
    <2>2. dir = "log"
        BY <1>11, LoadCases, Zenon DEF LoadStep, RefusedStep, TypeInv, ModeOK
    <2>3. CASE LoadStep
      <3>1. PICK r : r = log[pos + 1]
          OBVIOUS
      <3>2. r \in LogRecord /\ Replayed(ix, ix', r, now)
          BY <2>3, <3>1, LoadFacts
      <3>3. Entered(ix.dedup, ix'.dedup, r)
          BY <3>2, ReplayEnters
      <3>4. phase = "loading" /\ phase' = "loading" /\ pos' = pos + 1 /\ pos < Len(log)
          BY <2>3, Zenon DEF LoadStep
      <3>5. pos \in 0 .. Len(log) - 1 /\ InOrder(log) /\ Remembers(log, pos, ix.dedup, now)
          BY <1>0, <3>4 DEF WindowInv, MemoryInv
      <3>6. Remembers(log, pos + 1, ix'.dedup, now)
          BY <1>0, <3>1, <3>2, <3>3, <3>5, RemembersNext
      <3>7. QED
          BY <2>1, <2>2, <3>4, <3>6 DEF MemoryInv
    <2>4. CASE ~LoadStep
      <3>1. /\ ix' = ix
            /\ \/ phase' = "loading" /\ pos' = 0
               \/ phase' = "refused"
               \/ phase = "loading" /\ phase' = "up" /\ pos = Len(log)
          BY <1>11, <2>4, LoadCases, Zenon DEF RefusedStep
      <3>2. Remembers(log, 0, ix.dedup, now)
          BY DEF Remembers
      <3>3. QED
          BY <2>1, <2>2, <3>1, <3>2 DEF MemoryInv
    <2>5. QED
        BY <2>3, <2>4
  <1>12. QED
      BY <1>2, <1>3, <1>5, <1>6, <1>7, <1>8, <1>9, <1>10, <1>11 DEF Classified

\* A running queue remembers every window that its log opens, and a replay the
\* windows of the records it has read.
LEMMA MemoryAlways == Spec => [](WindowInv /\ MemoryInv)
  <1>1. Init => WindowInv /\ MemoryInv
    <2> SUFFICES ASSUME Init PROVE WindowInv /\ MemoryInv
        OBVIOUS
    <2>1. log = <<Meta(0)>> /\ dir = "log" /\ phase = "up"
        BY Zenon DEF Init
    <2>2. Len(log) = 1 /\ \A k \in 1 .. Len(log) : \A d, e : ~Opens(log[k], d, e)
        BY <2>1 DEF Opens, Meta
    <2>3. QED
        BY <2>1, <2>2 DEF WindowInv, InOrder, MemoryInv, Remembers
  <1>2. /\ TypeInv /\ TypeInv' /\ LiveInv /\ RecordInv /\ BirthInv /\ EntryInv
        /\ WindowInv /\ MemoryInv /\ [Next]_vars
        => WindowInv' /\ MemoryInv'
      BY Classify, WindowStep, MemoryStep
  <1>3. QED
      BY <1>1, <1>2, TypeInvariant, LiveAlways, RecordAlways, BirthAlways, EntryAlways,
         PTL DEF Spec

-----------------------------------------------------------------------------
\* The message born as b has no dedup id, its window is over at time t, or the
\* first n records of s keep it open.
Guards(s, n, b, t) ==
    \/ b.dedup = NoDedup
    \/ b.at + DedupWindow <= t
    \/ \E k \in 1 .. n, e \in Nat : Opens(s[k], b.dedup, e) /\ b.at + DedupWindow <= e

Apart(a, b) ==
    a.dedup # NoDedup /\ a.dedup = b.dedup => b.at - a.at >= DedupWindow

\* The log that a crash leaves, whichever it is, keeps the windows of the
\* messages that were answered.
GuardInv ==
    /\ \A a \in enqOK : Guards(log, durable, born[a], now)
    /\ \A w \in waiting :
         w.op = "enqueue" /\ w.pos = 0 => Guards(log, durable, born[w.id], now)
    /\ dir # "log" => \A a \in Candidates : Guards(snap, Len(snap), born[a], now)
    /\ \A a, b \in Candidates : a < b => Apart(born[a], born[b])

LEMMA GuardsKept ==
    ASSUME NEW s, NEW u, NEW n \in Nat, NEW m \in Nat, m >= n, \A k \in 1 .. n : u[k] = s[k],
           NEW t \in Nat, NEW v \in Nat, v >= t, NEW b \in Birth, Guards(s, n, b, t)
    PROVE  Guards(u, m, b, v)
  <1>0. b.at + DedupWindow \in Nat
      BY ConfigAssumption DEF ValidConfig, Birth
  <1>1. CASE b.dedup = NoDedup \/ b.at + DedupWindow <= t
      BY <1>0, <1>1 DEF Guards
  <1>2. CASE \E k \in 1 .. n, e \in Nat : Opens(s[k], b.dedup, e) /\ b.at + DedupWindow <= e
    <2>1. PICK k \in 1 .. n, e \in Nat : Opens(s[k], b.dedup, e) /\ b.at + DedupWindow <= e
        BY <1>2
    <2>2. k \in 1 .. m /\ u[k] = s[k]
        OBVIOUS
    <2>3. QED
        BY <2>1, <2>2, Zenon DEF Guards
  <1>3. QED
      BY <1>1, <1>2 DEF Guards

\* The record an enqueue waits for opens its window.
LEMMA AwaitedGuards ==
    ASSUME TypeInv, AnswerInv, RecordInv, NEW w \in waiting, w.op = "enqueue", w.pos # 0,
           NEW n \in Nat, w.pos <= n
    PROVE  Guards(log, n, born[w.id], now)
  <1>1. w.pos \in 1 .. Len(log) /\ log[w.pos].type = "ENQUEUE" /\ log[w.pos].m.id = w.id
        /\ w.id \in 1 .. Len(born)
      BY DEF AnswerInv, Awaits, TypeInv, StoreOK
  <1>2. log[w.pos].m.dedup = born[w.id].dedup /\ log[w.pos].m.created = born[w.id].at
      BY <1>1 DEF RecordInv, Faithful, Birthright
  <1>3. born[w.id].at \in Nat /\ w.pos \in 1 .. n /\ DedupWindow \in Nat
      BY <1>1, BornTyped, ConfigAssumption DEF ValidConfig
  <1>4. PICK e \in Nat : e = born[w.id].at + DedupWindow
      BY <1>3
  <1>5. born[w.id].dedup # NoDedup => Opens(log[w.pos], born[w.id].dedup, e)
      BY <1>1, <1>2, <1>4 DEF Opens
  <1>6. born[w.id].at + DedupWindow <= e
      BY <1>4
  <1>7. QED
      BY <1>3, <1>5, <1>6, Zenon DEF Guards

LEMMA BornBirth ==
    ASSUME TypeInv
    PROVE  \A x \in 1 .. Len(born) : born[x] \in Birth
  BY DEF TypeInv, HistoryOK

\* While the queue runs, its log keeps the window of whatever was or will be
\* answered.
LEMMA CandidatesGuarded ==
    ASSUME TypeInv, AnswerInv, RecordInv, GuardInv, NEW a \in Candidates
    PROVE  a \in 1 .. Len(born) /\ Guards(log, Len(log), born[a], now)
  <1>0. /\ Len(log) \in Nat /\ durable \in Nat /\ Len(log) >= durable /\ now \in Nat /\ now >= now
        /\ \A k \in 1 .. durable : log[k] = log[k]
      BY DEF TypeInv, StoreOK, ClockOK
  <1>1. a \in 1 .. Len(born)
      BY DEF Candidates, Pending, AnswerInv, Awaits
  <1>2. born[a] \in Birth
      BY <1>1, BornBirth
  <1>3. CASE Guards(log, durable, born[a], now)
      BY <1>0, <1>1, <1>2, <1>3, GuardsKept
  <1>4. CASE ~Guards(log, durable, born[a], now)
    <2>1. a \notin enqOK
        BY <1>4 DEF GuardInv
    <2>2. PICK w \in waiting : w.op = "enqueue" /\ w.id = a
        BY <2>1 DEF Candidates, Pending
    <2>3. w.pos # 0
        BY <1>4, <2>2 DEF GuardInv
    <2>4. w.pos <= Len(log)
        BY <1>0 DEF AnswerInv, Awaits
    <2>5. Guards(log, Len(log), born[w.id], now)
        BY <1>0, <2>2, <2>3, <2>4, AwaitedGuards
    <2>6. QED
        BY <1>1, <2>2, <2>5
  <1>5. QED
      BY <1>3, <1>4

\* So does the table, which is what the next request is tested against.
LEMMA TableGuards ==
    ASSUME TypeInv, MemoryInv, phase = "up", NEW b \in Birth, Guards(log, Len(log), b, now),
           b.dedup # NoDedup, now < b.at + DedupWindow
    PROVE  /\ b.dedup \in DOMAIN ix.dedup /\ ix.dedup[b.dedup].expires \in Nat
           /\ b.at + DedupWindow <= ix.dedup[b.dedup].expires
  <1>0. /\ b.at + DedupWindow \in Nat /\ now \in Nat /\ ix.dedup \in DedupMap
      BY ConfigAssumption, Fields DEF ValidConfig, Birth, TypeInv, ClockOK, IndexOK
  <1>1. ~(b.at + DedupWindow <= now)
      BY <1>0
  <1>2. PICK k \in 1 .. Len(log), e \in Nat : Opens(log[k], b.dedup, e) /\ b.at + DedupWindow <= e
      BY <1>1 DEF Guards
  <1>3. e <= now \/ (b.dedup \in DOMAIN ix.dedup /\ e <= ix.dedup[b.dedup].expires)
      BY <1>2 DEF MemoryInv, Remembers
  <1>4. b.dedup \in DOMAIN ix.dedup /\ e <= ix.dedup[b.dedup].expires
      BY <1>0, <1>1, <1>2, <1>3
  <1>5. ix.dedup[b.dedup].expires \in Nat
      BY <1>0, <1>4, DedupFacts DEF DedupEntry
  <1>6. QED
      BY <1>0, <1>2, <1>4, <1>5

\* A snapshot keeps them too, with the live message or with the orphaned entry.
LEMMA SnapshotGuards ==
    ASSUME TypeInv, RecordInv, EntryInv, MemoryInv, phase = "up",
           NEW s, NEW a, NEW b, NEW L, NEW R, Written(s, a, b, L, R),
           NEW x \in Birth, Guards(log, Len(log), x, now)
    PROVE  Guards(s, Len(s), x, now)
  <1>0. /\ x.at + DedupWindow \in Nat /\ now \in Nat /\ ix.dedup \in DedupMap
        /\ a \in Nat /\ b \in Nat /\ Len(s) = 1 + a + b
      BY ConfigAssumption, Fields DEF ValidConfig, Birth, TypeInv, ClockOK, IndexOK, Written
  <1>1. CASE x.dedup = NoDedup \/ x.at + DedupWindow <= now
      BY <1>1 DEF Guards
  <1>2. CASE x.dedup # NoDedup /\ ~(x.at + DedupWindow <= now)
    <2> DEFINE d == x.dedup
    <2>1. now < x.at + DedupWindow
        BY <1>0, <1>2
    <2>2. /\ d \in DOMAIN ix.dedup /\ ix.dedup[d].expires \in Nat
          /\ x.at + DedupWindow <= ix.dedup[d].expires
        BY <1>2, <2>1, TableGuards
    <2> HIDE DEF d
    <2>3. PICK e \in Nat : e = ix.dedup[d].expires
        BY <2>2
    <2>4. CASE ix.dedup[d].msg \notin DOMAIN ix.msgs
      <3>1. d \in orphans
          BY <1>0, <2>1, <2>2, <2>4 DEF orphans
      <3>2. PICK i \in 1 .. b : R[i] = d
          BY <3>1 DEF Written
      <3>3. s[1 + a + i] = DedupRec(d, ix.dedup[d]) /\ 1 + a + i \in 1 .. Len(s)
        <4>1. s[1 + a + i] = DedupRec(R[i], ix.dedup[R[i]])
            BY Zenon DEF Written
        <4>2. QED
            BY <1>0, <3>2, <4>1
      <3>4. Opens(s[1 + a + i], d, e)
          BY <2>3, <3>3 DEF Opens, DedupRec
      <3>5. QED
          BY <2>2, <2>3, <3>3, <3>4 DEF Guards, d
    <2>5. CASE ix.dedup[d].msg \in DOMAIN ix.msgs
      <3>1. PICK y \in DOMAIN ix.msgs : y = ix.dedup[d].msg
          BY <2>5
      <3>2. PICK i \in 1 .. a : L[i] = y
          BY DEF Written
      <3>3. s[1 + i] = EnqueueRec(y, ix.msgs[y]) /\ 1 + i \in 1 .. Len(s)
        <4>1. s[1 + i] = EnqueueRec(L[i], ix.msgs[L[i]])
            BY Zenon DEF Written
        <4>2. QED
            BY <1>0, <3>2, <4>1
      <3>4. PICK m : m = ix.msgs[y]
          OBVIOUS
      <3>5. born[y].dedup = d /\ e = born[y].at + DedupWindow
          BY <2>2, <2>3, <3>1 DEF EntryInv, Honest
      <3>6. m.dedup = d /\ e = m.created + DedupWindow
          BY <3>4, <3>5 DEF RecordInv, Birthright
      <3>7. s[1 + i].type = "ENQUEUE" /\ SameEntry(m, s[1 + i].m)
          BY <3>3, <3>4, EncodeFacts
      <3>8. Opens(s[1 + i], d, e)
          BY <1>2, <3>6, <3>7 DEF Opens, SameEntry, d
      <3>9. QED
          BY <2>2, <2>3, <3>3, <3>8 DEF Guards, d
    <2>6. QED
        BY <2>4, <2>5
  <1>3. QED
      BY <1>1, <1>2

LEMMA GuardExtends ==
    ASSUME TypeInv, StoreOK', ClockOK', AnswerInv, GuardInv,
           Len(log') >= Len(log), \A k \in 1 .. Len(log) : log'[k] = log[k],
           durable' >= durable, \A x \in 1 .. Len(born) : born'[x] = born[x],
           enqOK' = enqOK, now' >= now,
           dir' # "log" => dir # "log" /\ snap' = snap /\ Candidates' \subseteq Candidates,
           \A w \in waiting' : w \in waiting \/ w.pos # 0,
           \A a, b \in Candidates' : a < b => Apart(born'[a], born'[b])
    PROVE  GuardInv'
  <1>0. /\ durable \in Nat /\ durable' \in Nat /\ \A k \in 1 .. durable : log'[k] = log[k]
        /\ now \in Nat /\ now' \in Nat /\ Len(snap) \in Nat /\ Len(snap) >= Len(snap)
      BY DEF TypeInv, StoreOK, ClockOK
  <1>1. \A x \in 1 .. Len(born) :
          Guards(log, durable, born[x], now) => Guards(log', durable', born'[x], now')
      BY <1>0, BornBirth, GuardsKept
  <1>2. \A a \in enqOK' : Guards(log', durable', born'[a], now')
      BY <1>1 DEF AnswerInv, GuardInv
  <1>3. ASSUME NEW w \in waiting', w.op = "enqueue", w.pos = 0
        PROVE  Guards(log', durable', born'[w.id], now')
    <2>1. w \in waiting /\ w.id \in 1 .. Len(born)
        BY <1>3 DEF AnswerInv, Awaits
    <2>2. QED
        BY <1>1, <1>3, <2>1 DEF GuardInv
  <1>4. ASSUME dir' # "log", NEW a \in Candidates'
        PROVE  Guards(snap', Len(snap'), born'[a], now')
    <2>1. a \in Candidates /\ a \in 1 .. Len(born) /\ dir # "log" /\ snap' = snap
        BY <1>4 DEF Candidates, Pending, AnswerInv, Awaits
    <2>2. born[a] \in Birth /\ born'[a] = born[a] /\ Guards(snap, Len(snap), born[a], now)
        BY <2>1, BornBirth DEF GuardInv
    <2>3. Guards(snap, Len(snap), born[a], now')
        BY <1>0, <2>2, GuardsKept
    <2>4. QED
        BY <2>1, <2>2, <2>3
  <1>5. QED
      BY <1>2, <1>3, <1>4 DEF GuardInv

LEMMA GuardSwap ==
    ASSUME GuardInv, dir # "log", dir' = "log",
           log' = snap, durable' = Len(snap), waiting' \subseteq waiting,
           UNCHANGED <<born, enqOK, now>>
    PROVE  GuardInv'
  <1>1. Candidates' \subseteq Candidates
      BY DEF Candidates, Pending
  <1>2. \A w \in waiting' : w.op = "enqueue" => w.id \in Candidates
      BY DEF Candidates, Pending
  <1>3. enqOK \subseteq Candidates
      BY DEF Candidates
  <1>4. QED
      BY <1>1, <1>2, <1>3 DEF GuardInv

LEMMA GuardStep ==
    ASSUME TypeInv, TypeInv', AnswerInv, RecordInv, BirthInv, EntryInv, MemoryInv, GuardInv,
           Classified
    PROVE  GuardInv'
  <1>0. /\ log \in Seq(LogRecord) /\ durable \in 0 .. Len(log) /\ Len(log) \in Nat
        /\ StoreOK' /\ ClockOK' /\ Len(born) \in Nat /\ durable >= durable
        /\ Len(log) >= Len(log) /\ now \in Nat /\ now >= now
    <2>1. StoreOK' /\ ClockOK' /\ log \in Seq(LogRecord) /\ durable \in 0 .. Len(log)
        BY Zenon DEF TypeInv, StoreOK
    <2>2. now \in Nat /\ Len(born) \in Nat
        BY QueueAssumption DEF TypeInv, ClockOK, HistoryOK
    <2>3. QED
        BY <2>1, <2>2
  <1>1. ASSUME UNCHANGED <<log, born, enqOK, snap>>, waiting' \subseteq waiting,
               durable' >= durable, now' >= now, dir' # "log" => dir # "log"
        PROVE  GuardInv'
    <2>1. Candidates' \subseteq Candidates
        BY <1>1 DEF Candidates, Pending
    <2>2. \A a, b \in Candidates' : a < b => Apart(born'[a], born'[b])
        BY <1>1, <2>1 DEF GuardInv
    <2>3. QED
        BY <1>0, <1>1, <2>1, <2>2, GuardExtends
  <1>2. CASE Quiet
    <2>1. /\ UNCHANGED <<log, born, enqOK, snap>> /\ waiting' \subseteq waiting
          /\ durable' \in durable .. Len(log) /\ now' \in now .. MaxTime
          /\ (dir' # "log" => dir # "log")
        BY <1>2, Zenon DEF Quiet
    <2>2. durable' >= durable /\ now' >= now
        BY <1>0, <2>1, QueueAssumption
    <2>3. QED
        BY <1>1, <2>1, <2>2
  <1>3. CASE \E S \in SUBSET Ids : Serve(S)
    <2>1. UNCHANGED <<log, durable, born, enqOK, waiting, snap, dir, now>>
        BY <1>3, Zenon DEF Serve
    <2>2. QED
        BY <1>0, <1>1, <2>1
  <1>4. ASSUME NEW w \in waiting, Return(w)
        PROVE  GuardInv'
    <2>1. /\ UNCHANGED <<log, durable, born, snap, dir, now>> /\ waiting' = waiting \ {w}
          /\ enqOK' = (IF w.op = "enqueue" THEN enqOK \cup {w.id} ELSE enqOK)
          /\ w.pos <= durable
        BY <1>4, Zenon DEF Return, logV, disk, Log!WaitOK
    <2>2. Candidates' \subseteq Candidates
        BY <2>1 DEF Candidates, Pending
    <2>3. w.op = "enqueue" => Guards(log, durable, born[w.id], now)
      <3>1. CASE w.pos = 0
          BY <3>1 DEF GuardInv
      <3>2. CASE w.pos # 0
          BY <1>0, <2>1, <3>2, AwaitedGuards
      <3>3. QED
          BY <3>1, <3>2
    <2>4. QED
        BY <2>1, <2>2, <2>3 DEF GuardInv
  <1>5. ASSUME NEW d \in DedupId \cup {NoDedup}, NEW p \in Priority, NEW delay \in Delay,
               EnqueueStep(d, p, delay)
        PROVE  GuardInv'
    <2> DEFINE id == Len(born) + 1
               m == Fresh(d, p, delay)
               r == EnqueueRec(id, m)
    <2>1. r \in LogRecord /\ log' = Append(log, r)
        BY <1>5, EnqueueFacts
    <2>2. /\ UNCHANGED <<durable, enqOK, now>> /\ phase = "up" /\ dir' = "log"
          /\ waiting' = waiting \cup {[op |-> "enqueue", id |-> id, pos |-> Len(log')]}
          /\ born' = Append(born, [dedup |-> d, at |-> now, seq |-> m.seq])
          /\ ~isDuplicate(ix, d, now)
        BY <1>5, Zenon DEF EnqueueStep
    <2>3. /\ \A x \in 1 .. Len(born) : born'[x] = born[x]
          /\ born'[id].dedup = d /\ born'[id].at = now
        BY <2>2 DEF TypeInv, HistoryOK
    <2>4. id \in Nat /\ \A x \in 1 .. Len(born) : x < id /\ ~(id < x)
        BY <1>0
    <2> HIDE DEF r, m, id
    <2>5. /\ Len(log') = Len(log) + 1 /\ \A k \in 1 .. Len(log) : log'[k] = log[k]
        BY <1>0, <2>1, AppendFacts
    <2>6. Len(log') >= Len(log) /\ Len(log') # 0
        BY <1>0, <2>5
    <2>7. \A w \in waiting' : w \in waiting \/ w.pos # 0
        BY <2>2, <2>6
    <2>8. Candidates' \subseteq Candidates \cup {id}
        BY <2>2 DEF Candidates, Pending
    <2>9. \A a \in Candidates : /\ a \in 1 .. Len(born) /\ Guards(log, Len(log), born[a], now)
                                /\ born'[a] = born[a]
        BY <2>2, <2>3, CandidatesGuarded
    <2>10. ASSUME NEW a \in Candidates, born[a].dedup # NoDedup, born[a].dedup = d
           PROVE  now - born[a].at >= DedupWindow
      <3>1. born[a] \in Birth /\ born[a].at \in Nat /\ DedupWindow \in Nat
          BY <2>9, BornBirth, BornTyped, ConfigAssumption DEF ValidConfig
      <3>2. ~(now < born[a].at + DedupWindow)
        <4> SUFFICES ASSUME now < born[a].at + DedupWindow PROVE FALSE
            OBVIOUS
        <4>1. /\ d \in DOMAIN ix.dedup /\ ix.dedup[d].expires \in Nat
              /\ born[a].at + DedupWindow <= ix.dedup[d].expires
            BY <2>2, <2>9, <2>10, <3>1, TableGuards
        <4>2. now < ix.dedup[d].expires
            BY <1>0, <3>1, <4>1
        <4>3. QED
            BY <2>2, <4>1, <4>2 DEF isDuplicate
      <3>3. QED
          BY <1>0, <3>1, <3>2
    <2>11. ASSUME NEW a \in Candidates', NEW b \in Candidates', a < b
           PROVE  Apart(born'[a], born'[b])
      <3>1. CASE b = id
        <4>1. a # id
            BY <2>4, <2>11, <3>1
        <4>2. a \in Candidates
            BY <2>8, <4>1
        <4>3. QED
            BY <2>3, <2>9, <2>10, <3>1, <4>2 DEF Apart
      <3>2. CASE b # id
        <4>1. b \in Candidates /\ a # id
            BY <2>4, <2>8, <2>9, <2>11, <3>2
        <4>2. a \in Candidates
            BY <2>8, <4>1
        <4>3. Apart(born[a], born[b])
            BY <2>11, <4>1, <4>2 DEF GuardInv
        <4>4. QED
            BY <2>9, <4>1, <4>2, <4>3
      <3>3. QED
          BY <3>1, <3>2
    <2>12. QED
        BY <1>0, <2>2, <2>3, <2>5, <2>6, <2>7, <2>11, GuardExtends
  <1>6. ASSUME NEW r \in LogRecord, log' = Append(log, r), dir' = "log",
               UNCHANGED <<durable, born, enqOK, now>>,
               \A w \in waiting' : w \in waiting \/ (w.op # "enqueue" /\ w.pos = Len(log'))
        PROVE  GuardInv'
    <2>1. /\ Len(log') = Len(log) + 1 /\ \A k \in 1 .. Len(log) : log'[k] = log[k]
        BY <1>0, <1>6, AppendFacts
    <2>2. Len(log') >= Len(log) /\ Len(log') # 0
        BY <1>0, <2>1
    <2>3. Candidates' \subseteq Candidates
        BY <1>6 DEF Candidates, Pending
    <2>4. \A a, b \in Candidates' : a < b => Apart(born'[a], born'[b])
        BY <1>6, <2>3 DEF GuardInv
    <2>5. \A w \in waiting' : w \in waiting \/ w.pos # 0
        BY <1>6, <2>2
    <2>6. QED
        BY <1>0, <1>6, <2>1, <2>2, <2>4, <2>5, GuardExtends
  <1>7. ASSUME NEW id \in Ids, AckStep(id)
        PROVE  GuardInv'
    <2>1. AckRec(id) \in LogRecord
        BY <1>7, AckFacts
    <2>2. /\ log' = Append(log, AckRec(id)) /\ UNCHANGED <<durable, born, enqOK, now>>
          /\ waiting' = waiting \cup {[op |-> "ack", id |-> id, pos |-> Len(log')]}
          /\ dir' = "log"
        BY <1>7, Zenon DEF AckStep
    <2>3. \A w \in waiting' : w \in waiting \/ (w.op # "enqueue" /\ w.pos = Len(log'))
        BY <2>2
    <2>4. QED
        BY <1>6, <2>1, <2>2, <2>3
  <1>8. ASSUME NEW id \in Ids, NEW r \in LogRecord, AttemptStep(id, r)
        PROVE  GuardInv'
    <2>1. /\ log' = Append(log, r) /\ UNCHANGED <<durable, born, enqOK, now>> /\ dir' = "log"
          /\ \/ waiting' = waiting
             \/ waiting' = waiting \cup {[op |-> "nack", id |-> id, pos |-> Len(log')]}
        BY <1>8, Zenon DEF AttemptStep
    <2>2. \A w \in waiting' : w \in waiting \/ (w.op # "enqueue" /\ w.pos = Len(log'))
        BY <2>1
    <2>3. QED
        BY <1>6, <2>1, <2>2
  <1>9. CASE InstallStep
    <2>1. /\ UNCHANGED <<log, durable, born, enqOK, now>>
          /\ waiting' = Settled /\ Snapshot(snap') /\ phase = "up"
          /\ \A w \in waiting : w.pos <= durable
        BY <1>9, Zenon DEF InstallStep
    <2>2. \A v \in waiting' : \E w \in waiting : v.op = w.op /\ v.id = w.id
        BY <2>1 DEF Settled, TypeInv, HistoryOK, Wait_
    <2>3. Candidates' \subseteq Candidates
        BY <2>1, <2>2 DEF Candidates, Pending
    <2>4. \A a \in Candidates : a \in 1 .. Len(born) /\ Guards(log, Len(log), born[a], now)
        BY CandidatesGuarded
    <2>5. PICK a, b, L, R : Written(snap', a, b, L, R)
        BY <2>1, SnapshotWritten
    <2>6. ASSUME NEW c \in Candidates
          PROVE  Guards(snap', Len(snap'), born[c], now)
      <3>1. born[c] \in Birth /\ Guards(log, Len(log), born[c], now)
          BY <2>4, BornBirth
      <3>2. QED
          BY <2>1, <2>5, <3>1, SnapshotGuards
    <2>7. ASSUME NEW v \in waiting', v.op = "enqueue"
          PROVE  Guards(log, durable, born[v.id], now)
      <3>1. PICK w \in waiting : w.op = "enqueue" /\ v.id = w.id
          BY <2>2, <2>7
      <3>2. CASE w.pos = 0
          BY <3>1, <3>2 DEF GuardInv
      <3>3. CASE w.pos # 0
          BY <1>0, <2>1, <3>1, <3>3, AwaitedGuards
      <3>4. QED
          BY <3>2, <3>3
    <2>8. QED
        BY <2>1, <2>3, <2>4, <2>6, <2>7 DEF GuardInv
  <1>10. CASE ReopenStep
    <2>1. /\ log' = snap /\ durable' = Len(snap) /\ dir # "log" /\ dir' = "log"
          /\ UNCHANGED <<born, enqOK, waiting, now>>
        BY <1>10, Zenon DEF ReopenStep
    <2>2. QED
        BY <2>1, GuardSwap
  <1>11. CASE StopStep
    <2>1. /\ UNCHANGED <<born, enqOK, now>> /\ waiting' = {} /\ dir' = "log"
          /\ \/ durable' = durable /\ \E k \in durable .. Len(log) : log' = SubSeq(log, 1, k)
             \/ dir # "log" /\ log' = snap /\ durable' = Len(snap)
        BY <1>11, StopFacts
    <2>2. CASE dir # "log" /\ log' = snap /\ durable' = Len(snap)
        BY <2>1, <2>2, GuardSwap
    <2>3. CASE durable' = durable /\ \E k \in durable .. Len(log) : log' = SubSeq(log, 1, k)
      <3>1. PICK k \in durable .. Len(log) : log' = SubSeq(log, 1, k)
          BY <2>3
      <3>2. k \in 0 .. Len(log) /\ durable \in Nat
          BY <1>0
      <3>3. \A j \in 1 .. durable : log'[j] = log[j]
          BY <1>0, <3>1, <3>2, PrefixFacts
      <3>4. \A x \in 1 .. Len(born) :
              Guards(log, durable, born[x], now) => Guards(log', durable, born[x], now)
          BY <1>0, <3>2, <3>3, BornBirth, GuardsKept
      <3>5. Candidates' \subseteq Candidates
          BY <2>1 DEF Candidates, Pending
      <3>6. enqOK \subseteq 1 .. Len(born)
          BY DEF AnswerInv
      <3>7. QED
          BY <2>1, <2>3, <3>4, <3>5, <3>6 DEF GuardInv
    <2>4. QED
        BY <2>1, <2>2, <2>3
  <1>12. CASE Load
    <2>1. /\ UNCHANGED <<log, born, enqOK, waiting, snap, dir, now>>
          /\ durable' = durable \/ durable' = Len(log)
        BY <1>12, LoadCases, Zenon DEF LoadStep, RefusedStep
    <2>2. durable' >= durable
        BY <1>0, <2>1
    <2>3. QED
        BY <1>0, <1>1, <2>1, <2>2
  <1>13. QED
      BY <1>2, <1>3, <1>4, <1>5, <1>7, <1>8, <1>9, <1>10, <1>11, <1>12 DEF Classified

LEMMA GuardAlways == Spec => []GuardInv
  <1>1. Init => GuardInv
    <2> SUFFICES ASSUME Init PROVE GuardInv
        OBVIOUS
    <2>1. waiting = {} /\ enqOK = {} /\ dir = "log"
        BY Zenon DEF Init
    <2>2. QED
        BY <2>1 DEF GuardInv, Candidates, Pending
  <1>2. /\ TypeInv /\ TypeInv' /\ AnswerInv /\ RecordInv /\ BirthInv /\ EntryInv /\ MemoryInv
        /\ GuardInv /\ [Next]_vars
        => GuardInv'
      BY Classify, GuardStep
  <1>3. QED
      BY <1>1, <1>2, TypeInvariant, AnswerAlways, RecordAlways, BirthAlways, EntryAlways,
         MemoryAlways, PTL DEF Spec

\* Two confirmed messages with one dedup id are a window apart, although in
\* between the first was acked, its entry purged or carried by a compaction as
\* a DEDUP record, and the queue crashed and replayed its log.
THEOREM DedupAlwaysHonoured == Spec => []DedupHonoured
  <1>1. GuardInv => DedupHonoured
      BY DEF GuardInv, DedupHonoured, Candidates, Apart
  <1>2. QED
      BY <1>1, GuardAlways, PTL
=============================================================================
