--------------------------- MODULE PromiseProofs ---------------------------
(***************************************************************************)
(* What a queue promises: the log replays to the index in memory, the      *)
(* queue with its log, compaction, failures and restarts implements the    *)
(* abstract queue of module AtLeastOnce, and what is handed out first is   *)
(* what the priorities and their aging say.                                *)
(***************************************************************************)
EXTENDS RecoveryProofs

-----------------------------------------------------------------------------
(***************************************************************************)
(* Indexes that no restart can tell apart.                                 *)
(***************************************************************************)
\* A message already visible at time t may have become so at any time.
AlikeMsg(m, n, t) ==
    /\ n.dedup = m.dedup /\ n.seq = m.seq /\ n.prio = m.prio
    /\ n.created = m.created /\ n.attempts = m.attempts
    /\ n.visible = m.visible \/ (m.visible <= t /\ n.visible <= t)
    /\ n.state = "dead" <=> m.state = "dead"

\* Every window that the table f has open at time t, g has too.
OpenIn(f, g, t) ==
    \A d \in DOMAIN f : t < f[d].expires => d \in DOMAIN g /\ g[d] = f[d]

Alike(i, j, t) ==
    /\ DOMAIN j.msgs = DOMAIN i.msgs
    /\ \A x \in DOMAIN i.msgs : AlikeMsg(i.msgs[x], j.msgs[x], t)
    /\ OpenIn(i.dedup, j.dedup, t) /\ OpenIn(j.dedup, i.dedup, t)
    /\ j.nextSeq = i.nextSeq

LEMMA AlikeSelf ==
    ASSUME NEW i, NEW t
    PROVE  Alike(i, i, t)
  BY Zenon DEF Alike, AlikeMsg, OpenIn

LEMMA AlikeTurned ==
    ASSUME NEW i, NEW j, NEW t, Alike(i, j, t)
    PROVE  Alike(j, i, t)
  BY Zenon DEF Alike, AlikeMsg

LEMMA AlikeJoined ==
    ASSUME NEW i, NEW j, NEW k, NEW t, Alike(i, j, t), Alike(j, k, t)
    PROVE  Alike(i, k, t)
  <1>1. DOMAIN k.msgs = DOMAIN i.msgs /\ k.nextSeq = i.nextSeq
      BY DEF Alike
  <1>2. ASSUME NEW x \in DOMAIN i.msgs
        PROVE  AlikeMsg(i.msgs[x], k.msgs[x], t)
    <2>1. AlikeMsg(i.msgs[x], j.msgs[x], t) /\ AlikeMsg(j.msgs[x], k.msgs[x], t)
        BY DEF Alike
    <2>2. QED
        BY <2>1, Zenon DEF AlikeMsg
  <1>3. OpenIn(i.dedup, k.dedup, t) /\ OpenIn(k.dedup, i.dedup, t)
    <2>1. /\ OpenIn(i.dedup, j.dedup, t) /\ OpenIn(j.dedup, i.dedup, t)
          /\ OpenIn(j.dedup, k.dedup, t) /\ OpenIn(k.dedup, j.dedup, t)
        BY DEF Alike
    <2>2. QED
        BY <2>1 DEF OpenIn
  <1>4. QED
      BY <1>1, <1>2, <1>3 DEF Alike

\* Time only closes windows and makes messages visible.
LEMMA AlikeLater ==
    ASSUME NEW i \in Index(Ids), NEW j \in Index(Ids), NEW t \in Nat, NEW u \in Nat, u >= t,
           Alike(i, j, t)
    PROVE  Alike(i, j, u)
  <1>1. /\ i.dedup \in DedupMap /\ j.dedup \in DedupMap
        /\ \A x \in DOMAIN i.msgs : i.msgs[x] \in Message
        /\ \A x \in DOMAIN j.msgs : j.msgs[x] \in Message
      BY Fields
  <1>2. ASSUME NEW x \in DOMAIN i.msgs
        PROVE  AlikeMsg(i.msgs[x], j.msgs[x], u)
    <2>1. AlikeMsg(i.msgs[x], j.msgs[x], t) /\ x \in DOMAIN j.msgs
        BY DEF Alike
    <2>2. i.msgs[x].visible \in Nat /\ j.msgs[x].visible \in Nat
        BY <1>1, <2>1 DEF Message
    <2>3. /\ i.msgs[x].visible <= t => i.msgs[x].visible <= u
          /\ j.msgs[x].visible <= t => j.msgs[x].visible <= u
        BY <2>2
    <2>4. QED
        BY <2>1, <2>3, Zenon DEF AlikeMsg
  <1>3. ASSUME NEW f \in DedupMap, NEW g \in DedupMap, OpenIn(f, g, t)
        PROVE  OpenIn(f, g, u)
    <2>1. \A d \in DOMAIN f : f[d].expires \in Nat
        BY DedupFacts DEF DedupEntry
    <2>2. QED
        BY <1>3, <2>1 DEF OpenIn
  <1>4. QED
      BY <1>1, <1>2, <1>3 DEF Alike

\* Promotion, aging and purges leave nothing for a restart to see.
LEMMA AlikeCalm ==
    ASSUME NEW i \in Index(Ids), NEW j, NEW t \in Nat, Calm(i, j, t)
    PROVE  Alike(i, j, t)
  <1>1. /\ DOMAIN j.msgs = DOMAIN i.msgs /\ j.nextSeq = i.nextSeq
        /\ DOMAIN j.dedup \subseteq DOMAIN i.dedup
        /\ \A d \in DOMAIN j.dedup : j.dedup[d] = i.dedup[d]
        /\ \A d \in DOMAIN i.dedup \ DOMAIN j.dedup : i.dedup[d].expires <= t
      BY Zenon DEF Calm
  <1>2. ASSUME NEW x \in DOMAIN i.msgs
        PROVE  AlikeMsg(i.msgs[x], j.msgs[x], t)
      BY Zenon DEF Calm, AlikeMsg, SameEntry
  <1>3. \A d \in DOMAIN i.dedup : i.dedup[d].expires \in Nat
      BY Fields, DedupFacts DEF DedupEntry
  <1>4. OpenIn(i.dedup, j.dedup, t) /\ OpenIn(j.dedup, i.dedup, t)
      BY <1>1, <1>3 DEF OpenIn
  <1>5. QED
      BY <1>1, <1>2, <1>4 DEF Alike

\* Neither do leases.
LEMMA AlikeServed ==
    ASSUME NEW S, Serve(S)
    PROVE  Alike(ix, ix', now)
  <1>1. /\ DOMAIN ix'.msgs = DOMAIN ix.msgs
        /\ ix'.nextSeq = ix.nextSeq /\ ix'.dedup = ix.dedup
      BY Zenon DEF Serve
  <1>2. ASSUME NEW x \in DOMAIN ix.msgs
        PROVE  AlikeMsg(ix.msgs[x], ix'.msgs[x], now)
    <2>1. SameEntry(ix.msgs[x], ix'.msgs[x])
        BY Zenon DEF Serve
    <2>2. ix'.msgs[x].state = "dead" <=> ix.msgs[x].state = "dead"
      <3>1. CASE x \in S
          BY <3>1 DEF Serve
      <3>2. CASE x \notin S
        <4>1. \/ ix'.msgs[x].state = ix.msgs[x].state
              \/ ix.msgs[x].state = "delayed" /\ ix'.msgs[x].state = "ready"
            BY <3>2, Zenon DEF Serve
        <4>2. QED
            BY <4>1
      <3>3. QED
          BY <3>1, <3>2
    <2>3. QED
        BY <2>1, <2>2, Zenon DEF AlikeMsg, SameEntry
  <1>3. QED
      BY <1>1, <1>2, Zenon DEF Alike, OpenIn

LEMMA OpenPut ==
    ASSUME NEW f, NEW g, NEW t, OpenIn(f, g, t), NEW d, NEW v
    PROVE  OpenIn(Put(f, d, v), Put(g, d, v), t)
  BY DEF OpenIn, Put

\* One record makes of two such indexes two such indexes, whenever it is
\* applied to each, up to the time they are compared at.
LEMMA AlikeReplayed ==
    ASSUME NEW r \in LogRecord, NEW t \in Nat, NEW a \in 0 .. t, NEW b \in 0 .. t,
           NEW i \in Index(Ids), NEW j \in Index(Ids),
           NEW p \in Index(Ids), NEW q \in Index(Ids),
           Alike(i, j, t), Replayed(i, p, r, a), Replayed(j, q, r, b)
    PROVE  Alike(p, q, t)
  <1>0. /\ r.type \in {"META", "ENQUEUE", "ACK", "NACK", "LEASE_EXPIRE", "DEDUP"}
        /\ MaxAttempts \in Nat
      BY RecordFacts, ConfigAssumption DEF ValidConfig
  <1>00. /\ DOMAIN j.msgs = DOMAIN i.msgs /\ j.nextSeq = i.nextSeq
         /\ OpenIn(i.dedup, j.dedup, t) /\ OpenIn(j.dedup, i.dedup, t)
         /\ \A x \in DOMAIN i.msgs : AlikeMsg(i.msgs[x], j.msgs[x], t)
      BY Zenon DEF Alike
  <1>1. CASE r.type = "META"
    <2>1. /\ p.msgs = i.msgs /\ p.dedup = i.dedup /\ q.msgs = j.msgs /\ q.dedup = j.dedup
          /\ p.nextSeq = q.nextSeq
        BY <1>1, <1>00, Zenon DEF Replayed
    <2>2. QED
        BY <1>00, <2>1, Zenon DEF Alike
  <1>2. CASE r.type = "ENQUEUE"
    <2>1. /\ DOMAIN p.msgs = DOMAIN i.msgs \cup {r.m.id} /\ r.m.id \notin DOMAIN i.msgs
          /\ DOMAIN q.msgs = DOMAIN j.msgs \cup {r.m.id}
          /\ SameBut(i, p, r.m.id) /\ SameBut(j, q, r.m.id)
          /\ SameEntry(r.m, p.msgs[r.m.id]) /\ SameEntry(r.m, q.msgs[r.m.id])
          /\ p.nextSeq = q.nextSeq
        BY <1>2, <1>00, Zenon DEF Replayed
    <2>2. /\ p.msgs[r.m.id].state = "dead" <=> r.m.dead
          /\ q.msgs[r.m.id].state = "dead" <=> r.m.dead
      <3>1. /\ p.msgs[r.m.id].state = IF r.m.dead THEN "dead"
                                      ELSE IF r.m.visible > a THEN "delayed" ELSE "ready"
            /\ q.msgs[r.m.id].state = IF r.m.dead THEN "dead"
                                      ELSE IF r.m.visible > b THEN "delayed" ELSE "ready"
          BY <1>2, Zenon DEF Replayed
      <3>2. "delayed" # "dead" /\ "ready" # "dead"
          OBVIOUS
      <3>3. QED
          BY <3>1, <3>2, Zenon
    <2>3. AlikeMsg(p.msgs[r.m.id], q.msgs[r.m.id], t)
        BY <2>1, <2>2, Zenon DEF AlikeMsg, SameEntry
    <2>4. \A x \in DOMAIN p.msgs : AlikeMsg(p.msgs[x], q.msgs[x], t)
        BY <1>00, <2>1, <2>3, Zenon DEF SameBut
    <2>5. OpenIn(p.dedup, q.dedup, t) /\ OpenIn(q.dedup, p.dedup, t)
      <3> DEFINE v == [msg |-> r.m.id, expires |-> r.m.created + DedupWindow]
      <3>1. /\ p.dedup = IF r.m.dedup = NoDedup THEN i.dedup ELSE Put(i.dedup, r.m.dedup, v)
            /\ q.dedup = IF r.m.dedup = NoDedup THEN j.dedup ELSE Put(j.dedup, r.m.dedup, v)
          BY <1>2, Zenon DEF Replayed
      <3> HIDE DEF v
      <3>2. QED
          BY <1>00, <3>1, OpenPut, Zenon
    <2>6. QED
        BY <1>00, <2>1, <2>4, <2>5, Zenon DEF Alike
  <1>3. CASE r.type = "ACK"
    <2>1. /\ DOMAIN p.msgs = DOMAIN i.msgs \ {r.id} /\ DOMAIN q.msgs = DOMAIN j.msgs \ {r.id}
          /\ SameBut(i, p, r.id) /\ SameBut(j, q, r.id)
          /\ p.nextSeq = i.nextSeq /\ p.dedup = i.dedup
          /\ q.nextSeq = j.nextSeq /\ q.dedup = j.dedup
        BY <1>3, Zenon DEF Replayed
    <2>2. \A x \in DOMAIN p.msgs : AlikeMsg(p.msgs[x], q.msgs[x], t)
        BY <1>00, <2>1, Zenon DEF SameBut
    <2>3. QED
        BY <1>00, <2>1, <2>2, Zenon DEF Alike
  <1>4. CASE r.type \in {"NACK", "LEASE_EXPIRE"}
    <2>1. PICK x : x = r.id
        OBVIOUS
    <2>2. /\ x \in DOMAIN i.msgs
          /\ DOMAIN p.msgs = DOMAIN i.msgs /\ DOMAIN q.msgs = DOMAIN j.msgs
          /\ SameBut(i, p, x) /\ SameBut(j, q, x)
          /\ p.nextSeq = i.nextSeq /\ p.dedup = i.dedup
          /\ q.nextSeq = j.nextSeq /\ q.dedup = j.dedup
        BY <1>4, <2>1, Zenon DEF Replayed
    <2>3. AlikeMsg(p.msgs[x], q.msgs[x], t)
      <3>1. PICK m, n, mm, nn : m = i.msgs[x] /\ n = j.msgs[x] /\ mm = p.msgs[x] /\ nn = q.msgs[x]
          OBVIOUS
      <3>2. /\ mm.dedup = m.dedup /\ mm.seq = m.seq /\ mm.prio = m.prio
            /\ mm.created = m.created /\ mm.attempts = m.attempts + 1
            /\ nn.dedup = n.dedup /\ nn.seq = n.seq /\ nn.prio = n.prio
            /\ nn.created = n.created /\ nn.attempts = n.attempts + 1
            /\ IF m.attempts + 1 >= MaxAttempts
               THEN mm.state = "dead" /\ mm.visible = m.visible
               ELSE mm.state = "ready" /\ mm.visible = a
            /\ IF n.attempts + 1 >= MaxAttempts
               THEN nn.state = "dead" /\ nn.visible = n.visible
               ELSE nn.state = "ready" /\ nn.visible = b
          BY <1>4, <2>1, <3>1, Zenon DEF Replayed
      <3>3. AlikeMsg(m, n, t)
          BY <1>00, <2>2, <3>1
      <3>4. a <= t /\ b <= t /\ "ready" # "dead"
          OBVIOUS
      <3>5. AlikeMsg(mm, nn, t)
        <4>1. n.attempts = m.attempts
            BY <3>3, Zenon DEF AlikeMsg
        <4>2. CASE m.attempts + 1 >= MaxAttempts
          <5>1. mm.state = "dead" /\ mm.visible = m.visible /\ nn.state = "dead" /\ nn.visible = n.visible
              BY <3>2, <4>1, <4>2, Zenon
          <5>2. QED
              BY <3>2, <3>3, <5>1, Zenon DEF AlikeMsg
        <4>3. CASE ~(m.attempts + 1 >= MaxAttempts)
          <5>1. mm.state = "ready" /\ mm.visible = a /\ nn.state = "ready" /\ nn.visible = b
              BY <3>2, <4>1, <4>3, Zenon
          <5>2. QED
              BY <3>2, <3>3, <3>4, <5>1, Zenon DEF AlikeMsg
        <4>4. QED
            BY <4>2, <4>3
      <3>6. QED
          BY <3>1, <3>5
    <2>4. \A y \in DOMAIN p.msgs : AlikeMsg(p.msgs[y], q.msgs[y], t)
        BY <1>00, <2>2, <2>3, Zenon DEF SameBut
    <2>5. QED
        BY <1>00, <2>2, <2>4, Zenon DEF Alike
  <1>5. CASE r.type = "DEDUP"
    <2>1. /\ p.msgs = i.msgs /\ p.nextSeq = i.nextSeq /\ p.dedup = Put(i.dedup, r.d, r.e)
          /\ q.msgs = j.msgs /\ q.nextSeq = j.nextSeq /\ q.dedup = Put(j.dedup, r.d, r.e)
        BY <1>5, Zenon DEF Replayed
    <2>2. OpenIn(p.dedup, q.dedup, t) /\ OpenIn(q.dedup, p.dedup, t)
        BY <1>00, <2>1, OpenPut, Zenon
    <2>3. QED
        BY <1>00, <2>1, <2>2, Zenon DEF Alike
  <1>6. QED
      BY <1>0, <1>1, <1>2, <1>3, <1>4, <1>5

\* What no restart can tell apart is the same to a reader of the queue.
LEMMA AlikePersistent ==
    ASSUME NEW i \in Index(Ids), NEW j \in Index(Ids), now \in Nat, Alike(i, j, now)
    PROVE  Persistent(i) = Persistent(j)
  <1> DEFINE M(k) == [x \in DOMAIN k.msgs |->
                        LET m == k.msgs[x] IN
                        [dedup |-> m.dedup, seq |-> m.seq, prio |-> m.prio,
                         created |-> m.created, attempts |-> m.attempts,
                         dead |-> m.state = "dead",
                         visible |-> IF m.visible > now THEN m.visible ELSE now]]
             D(k) == {<<d, k.dedup[d]>> : d \in {e \in DOMAIN k.dedup : now < k.dedup[e].expires}}
  <1>0. /\ DOMAIN j.msgs = DOMAIN i.msgs /\ j.nextSeq = i.nextSeq
        /\ OpenIn(i.dedup, j.dedup, now) /\ OpenIn(j.dedup, i.dedup, now)
        /\ \A x \in DOMAIN i.msgs : AlikeMsg(i.msgs[x], j.msgs[x], now)
      BY Zenon DEF Alike
  <1>1. M(i) = M(j)
    <2>1. ASSUME NEW x \in DOMAIN i.msgs
          PROVE  M(i)[x] = M(j)[x]
      <3>1. PICK m, n : m = i.msgs[x] /\ n = j.msgs[x]
          OBVIOUS
      <3>2. m \in Message /\ n \in Message /\ AlikeMsg(m, n, now)
          BY <1>0, <3>1, Fields
      <3>3. m.visible \in Nat /\ n.visible \in Nat
          BY <3>2 DEF Message
      <3>4. (IF m.visible > now THEN m.visible ELSE now) = (IF n.visible > now THEN n.visible ELSE now)
        <4>1. n.visible = m.visible \/ (m.visible <= now /\ n.visible <= now)
            BY <3>2, Zenon DEF AlikeMsg
        <4>2. QED
            BY <3>3, <4>1
      <3>5. (m.state = "dead") = (n.state = "dead")
          BY <3>2, Zenon DEF AlikeMsg
      <3>6. QED
          BY <1>0, <3>1, <3>2, <3>4, <3>5, Zenon DEF AlikeMsg
    <2>2. QED
        BY <1>0, <2>1, Zenon
  <1>2. D(i) = D(j)
      BY <1>0, Zenon DEF OpenIn
  <1>3. \A k : Persistent(k) = [msgs |-> M(k), dedup |-> D(k), nextSeq |-> k.nextSeq]
      BY Zenon DEF Persistent
  <1> HIDE DEF M, D
  <1>4. QED
      BY <1>0, <1>1, <1>2, <1>3, Zenon

-----------------------------------------------------------------------------
(***************************************************************************)
(* Replays, at a time that need not be the present.                        *)
(***************************************************************************)
\* f[k] is the index after k of the first n records of s, replayed at time t.
IndexRun(s, n, f, t) ==
    /\ f[0] = EmptyIndex
    /\ \A k \in 0 .. n : /\ f[k] \in Index(Ids) /\ Consistent(f[k])
                         /\ DOMAIN f[k].msgs = Live(s, k)
    /\ \A k \in 0 .. n - 1 : Replayed(f[k], f[k + 1], s[k + 1], t)

\* The index i is, for a restart, what the first n records of s replay to.
Echoes(s, n, i, t) ==
    \A f : IndexRun(s, n, f, t) => Alike(f[n], i, t)

\* A log that replay accepts, of messages with proper ids.
Sound(s) == s \in Seq(LogRecord) /\ Legal(s) /\ Enq(s, Len(s)) \subseteq Ids

LEMMA Induct ==
    ASSUME NEW n \in Nat, NEW T, 0 \in T, \A k \in 0 .. n - 1 : k \in T => k + 1 \in T
    PROVE  \A k \in 0 .. n : k \in T
  <1> DEFINE U == {k \in 0 .. n : k \notin T}
  <1> SUFFICES ASSUME U # {} PROVE FALSE
      OBVIOUS
  <1>1. PICK m \in U : \A x \in U : m <= x
    <2>1. U \subseteq Nat
        OBVIOUS
    <2>2. QED
        BY <2>1, Least
  <1>2. m \in 0 .. n /\ m \notin T /\ m # 0
      BY <1>1
  <1>3. m - 1 \in 0 .. n - 1 /\ m - 1 \in 0 .. n /\ (m - 1) + 1 = m
      BY <1>2
  <1>4. m - 1 \in T
      BY <1>1, <1>3
  <1>5. QED
      BY <1>2, <1>3, <1>4

\* A record of a sound log is not refused after the ones before it.
LEMMA SoundAccepted ==
    ASSUME NEW s, Sound(s), NEW k \in 0 .. Len(s) - 1, NEW i, DOMAIN i.msgs = Live(s, k)
    PROVE  /\ s[k + 1] \in LogRecord /\ ~Refuses(i, s[k + 1])
           /\ s[k + 1].type = "ENQUEUE" => s[k + 1].m.id \in Ids
  <1>1. s \in Seq(LogRecord) /\ Legal(s) /\ Enq(s, Len(s)) \subseteq Ids
      BY DEF Sound
  <1>2. k + 1 \in 1 .. Len(s)
      BY <1>1
  <1>3. PICK r \in LogRecord : r = s[k + 1]
      BY <1>1, <1>2
  <1>4. /\ r.type = "ENQUEUE" => r.m.id \notin Enq(s, k)
        /\ r.type = "ACK" => r.id \in Live(s, k)
        /\ r.type \in {"NACK", "LEASE_EXPIRE"} => r.id \in Live(s, k)
      BY <1>1, <1>3, LiveNext
  <1>5. ~Refuses(i, r)
      BY <1>4 DEF Refuses, Live
  <1>6. r.type = "ENQUEUE" => r.m.id \in Enq(s, Len(s))
      BY <1>2, <1>3 DEF Enq
  <1>7. QED
      BY <1>1, <1>3, <1>5, <1>6

\* The live messages after one record more.
LEMMA LiveReplayed ==
    ASSUME NEW s, Sound(s), NEW k \in 0 .. Len(s) - 1, NEW i, NEW j, NEW t,
           DOMAIN i.msgs = Live(s, k), Replayed(i, j, s[k + 1], t)
    PROVE  DOMAIN j.msgs = Live(s, k + 1)
  <1>1. PICK r \in LogRecord : r = s[k + 1]
      BY SoundAccepted
  <1>2. r.type \in {"META", "ENQUEUE", "ACK", "NACK", "LEASE_EXPIRE", "DEDUP"}
      BY RecordFacts
  <1>3. /\ r.type = "ENQUEUE" => Live(s, k + 1) = Live(s, k) \cup {r.m.id}
        /\ r.type = "ACK" => Live(s, k + 1) = Live(s, k) \ {r.id}
        /\ r.type \in {"NACK", "LEASE_EXPIRE"} => Live(s, k + 1) = Live(s, k)
        /\ r.type \in {"META", "DEDUP"} => Live(s, k + 1) = Live(s, k)
      BY <1>1, LiveNext DEF Sound
  <1>4. /\ r.type = "ENQUEUE" => DOMAIN j.msgs = DOMAIN i.msgs \cup {r.m.id}
        /\ r.type = "ACK" => DOMAIN j.msgs = DOMAIN i.msgs \ {r.id}
        /\ r.type \in {"NACK", "LEASE_EXPIRE"} => DOMAIN j.msgs = DOMAIN i.msgs
        /\ r.type \in {"META", "DEDUP"} => DOMAIN j.msgs = DOMAIN i.msgs
      BY <1>1 DEF Replayed
  <1>5. QED
      BY <1>2, <1>3, <1>4

\* A sound log can be replayed at any time.
LEMMA RunExists ==
    ASSUME NEW s, Sound(s), NEW n \in 0 .. Len(s), NEW t \in Nat
    PROVE  \E f : IndexRun(s, n, f, t)
  <1> DEFINE T == {m \in 0 .. n : \E f : IndexRun(s, m, f, t)}
  <1>0. Len(s) \in Nat /\ n \in Nat /\ Ids \subseteq Id
      BY QueueAssumption DEF Sound, Ids, Id
  <1>1. 0 \in T
    <2> DEFINE f == [k \in 0 .. 0 |-> EmptyIndex]
    <2>1. f[0] = EmptyIndex /\ Live(s, 0) = {} /\ 0 \in 0 .. n
        BY <1>0 DEF Live, Enq
    <2>2. \A k \in 0 .. 0 : k = 0
        OBVIOUS
    <2>3. \A k \in 0 .. 0 - 1 : FALSE
        OBVIOUS
    <2> HIDE DEF f
    <2>4. IndexRun(s, 0, f, t)
        BY <2>1, <2>2, <2>3, EmptyIndexFacts, Zenon DEF IndexRun
    <2>5. QED
        BY <2>1, <2>4
  <1>2. ASSUME NEW m \in 0 .. n - 1, m \in T
        PROVE  m + 1 \in T
    <2>1. PICK f : IndexRun(s, m, f, t)
        BY <1>2
    <2>2. m \in 0 .. Len(s) - 1 /\ m \in 0 .. m /\ m + 1 \in 0 .. n /\ m \in Nat
        BY <1>0
    <2>3. PICK i : i = f[m]
        OBVIOUS
    <2>4. i \in Index(Ids) /\ Consistent(i) /\ DOMAIN i.msgs = Live(s, m)
        BY <2>1, <2>2, <2>3, Zenon DEF IndexRun
    <2>5. PICK r \in LogRecord : r = s[m + 1] /\ ~Refuses(i, r) /\ (r.type = "ENQUEUE" => r.m.id \in Ids)
        BY <2>2, <2>4, SoundAccepted
    <2>6. PICK j : j = apply(i, r, t)
        OBVIOUS
    <2>7. j \in Index(Ids) /\ Consistent(j) /\ Replayed(i, j, r, t)
        BY <1>0, <2>4, <2>5, <2>6, ApplyFacts
    <2>8. DOMAIN j.msgs = Live(s, m + 1)
        BY <2>2, <2>4, <2>5, <2>7, LiveReplayed
    <2> DEFINE g == [k \in 0 .. m + 1 |-> IF k = m + 1 THEN j ELSE f[k]]
    <2>9. /\ g[m + 1] = j
          /\ \A k \in 0 .. m : g[k] = f[k]
        BY <2>2
    <2>10. /\ \A k \in 0 .. m + 1 : k = m + 1 \/ k \in 0 .. m
           /\ \A k \in 0 .. (m + 1) - 1 : /\ k \in 0 .. m
                                          /\ (k = m \/ (k \in 0 .. m - 1 /\ k + 1 \in 0 .. m))
           /\ 0 \in 0 .. m
        BY <2>2
    <2> HIDE DEF g
    <2>11. g[0] = EmptyIndex
        BY <2>1, <2>9, <2>10, Zenon DEF IndexRun
    <2>12. \A k \in 0 .. m + 1 : /\ g[k] \in Index(Ids) /\ Consistent(g[k])
                                 /\ DOMAIN g[k].msgs = Live(s, k)
        BY <2>1, <2>7, <2>8, <2>9, <2>10, Zenon DEF IndexRun
    <2>13. \A k \in 0 .. (m + 1) - 1 : Replayed(g[k], g[k + 1], s[k + 1], t)
        BY <2>1, <2>3, <2>5, <2>7, <2>9, <2>10, Zenon DEF IndexRun
    <2>14. IndexRun(s, m + 1, g, t)
        BY <2>11, <2>12, <2>13, Zenon DEF IndexRun
    <2>15. QED
        BY <2>2, <2>14
  <1> HIDE DEF T
  <1>3. \A k \in 0 .. n : k \in T
      BY <1>0, <1>1, <1>2, Induct
  <1>4. n \in T
      BY <1>0, <1>3
  <1>5. QED
      BY <1>4 DEF T

\* Two replays of a log at two times come to the same, seen from the later.
LEMMA RunsAlike ==
    ASSUME NEW s, Sound(s), NEW n \in 0 .. Len(s), NEW t \in Nat, NEW a \in 0 .. t,
           NEW b \in 0 .. t, NEW f, IndexRun(s, n, f, a), NEW g, IndexRun(s, n, g, b)
    PROVE  Alike(f[n], g[n], t)
  <1> DEFINE T == {m \in 0 .. n : Alike(f[m], g[m], t)}
  <1>0. Len(s) \in Nat /\ n \in Nat
      BY DEF Sound
  <1>1. 0 \in T
    <2>1. f[0] = g[0] /\ 0 \in 0 .. n
        BY <1>0 DEF IndexRun
    <2>2. QED
        BY <2>1, AlikeSelf
  <1>2. ASSUME NEW m \in 0 .. n - 1, m \in T
        PROVE  m + 1 \in T
    <2>1. m \in 0 .. Len(s) - 1 /\ m \in 0 .. n /\ m + 1 \in 0 .. n
        BY <1>0
    <2>2. PICK i, j, p, q : i = f[m] /\ j = g[m] /\ p = f[m + 1] /\ q = g[m + 1]
        OBVIOUS
    <2>3. /\ i \in Index(Ids) /\ j \in Index(Ids) /\ p \in Index(Ids) /\ q \in Index(Ids)
          /\ DOMAIN i.msgs = Live(s, m)
          /\ Replayed(i, p, s[m + 1], a) /\ Replayed(j, q, s[m + 1], b)
        BY <2>1, <2>2, Zenon DEF IndexRun
    <2>4. PICK r \in LogRecord : r = s[m + 1]
        BY <2>1, <2>3, SoundAccepted
    <2>5. Alike(i, j, t)
        BY <1>2, <2>2
    <2>6. Alike(p, q, t)
        BY <2>3, <2>4, <2>5, AlikeReplayed
    <2>7. QED
        BY <2>1, <2>2, <2>6
  <1> HIDE DEF T
  <1>3. \A k \in 0 .. n : k \in T
      BY <1>0, <1>1, <1>2, Induct
  <1>4. n \in T
      BY <1>0, <1>3
  <1>5. QED
      BY <1>4 DEF T

\* Replay is such a run.
LEMMA RecoveredRun ==
    ASSUME NEW s, Sound(s), now \in Nat
    PROVE  \E f : IndexRun(s, Len(s), f, now) /\ Recovered(s) = f[Len(s)]
  <1>0. /\ s \in Seq(LogRecord) /\ Len(s) \in Nat /\ Ids \subseteq Id
      BY QueueAssumption DEF Sound, Ids, Id
  <1>1. PICK h : ReplayedTo(s, Len(s), h) /\ Replay(s) = h[Len(s)]
      BY <1>0, ReplayDef
  <1>2. \A k \in 0 .. Len(s) : h[k] = IF k = 0 THEN [refused |-> FALSE, ix |-> EmptyIndex]
                                      ELSE Fed(h[k - 1], s[k])
    <2> TAKE k \in 0 .. Len(s)
    <2>1. h = [j \in 0 .. Len(s) |-> IF j = 0 THEN [refused |-> FALSE, ix |-> EmptyIndex]
                                     ELSE Fed(h[j - 1], s[j])]
        BY <1>1 DEF ReplayedTo
    <2>2. QED
        BY <2>1, Zenon
  <1> DEFINE Fine(k) == /\ h[k] = [refused |-> FALSE, ix |-> h[k].ix]
                        /\ h[k].ix \in Index(Ids) /\ Consistent(h[k].ix)
                        /\ DOMAIN h[k].ix.msgs = Live(s, k)
                        /\ k # 0 => Replayed(h[k - 1].ix, h[k].ix, s[k], now)
             T == {k \in 0 .. Len(s) : Fine(k)}
  <1>3. 0 \in T
    <2>0. 0 \in 0 .. Len(s)
        BY <1>0
    <2>1. h[0] = [refused |-> FALSE, ix |-> EmptyIndex] /\ 0 \in 0 .. Len(s)
        BY <1>2, <2>0, Zenon
    <2>2. h[0].ix = EmptyIndex /\ Live(s, 0) = {}
        BY <2>1 DEF Live, Enq
    <2>3. Fine(0)
        BY <2>1, <2>2, EmptyIndexFacts, Zenon
    <2>4. QED
        BY <2>1, <2>3
  <1>4. ASSUME NEW m \in 0 .. Len(s) - 1, m \in T
        PROVE  m + 1 \in T
    <2>1. m + 1 \in 0 .. Len(s) /\ m + 1 # 0 /\ (m + 1) - 1 = m
        BY <1>0
    <2>2. PICK acc, i : acc = h[m] /\ i = acc.ix
        OBVIOUS
    <2>3. /\ acc = [refused |-> FALSE, ix |-> i] /\ i \in Index(Ids) /\ Consistent(i)
          /\ DOMAIN i.msgs = Live(s, m)
        BY <1>4, <2>2, Zenon
    <2> HIDE DEF T, Fine
    <2>4. PICK r \in LogRecord : r = s[m + 1] /\ ~Refuses(i, r) /\ (r.type = "ENQUEUE" => r.m.id \in Ids)
        BY <2>3, SoundAccepted
    <2>5. PICK j : j = apply(i, r, now)
        OBVIOUS
    <2>6. j \in Index(Ids) /\ Consistent(j) /\ Replayed(i, j, r, now)
        BY <1>0, <2>3, <2>4, <2>5, ApplyFacts
    <2>7. DOMAIN j.msgs = Live(s, m + 1)
        BY <2>3, <2>4, <2>6, LiveReplayed
    <2>8. PICK c : c = m + 1
        OBVIOUS
    <2>9. h[c] = [refused |-> FALSE, ix |-> j]
      <3>1. h[c] = Fed(acc, r)
          BY <1>2, <2>1, <2>2, <2>4, <2>8, Zenon
      <3>2. acc.refused = FALSE /\ acc.ix = i
          BY <2>3
      <3>3. Fed(acc, r) = [acc EXCEPT !.ix = j]
          BY <2>4, <2>5, <3>2, Zenon DEF Fed
      <3>4. QED
          BY <2>3, <3>1, <3>3
    <2>10. h[c].ix = j
        BY <2>9
    <2>11. Fine(c)
        BY <2>1, <2>2, <2>4, <2>6, <2>7, <2>8, <2>9, <2>10, Zenon DEF Fine
    <2>12. QED
        BY <2>1, <2>8, <2>11 DEF T
  <1>5. \A k \in 0 .. Len(s) : k \in T
    <2> HIDE DEF T, Fine
    <2>1. QED
        BY <1>0, <1>3, <1>4, Induct
  <1> DEFINE f == [k \in 0 .. Len(s) |-> h[k].ix]
  <1>6. \A k \in 0 .. Len(s) : f[k] = h[k].ix
      OBVIOUS
  <1> HIDE DEF f
  <1>7. \A k \in 0 .. Len(s) : Fine(k)
      BY <1>5
  <1>8. 0 \in 0 .. Len(s) /\ Len(s) \in 0 .. Len(s)
        /\ \A k \in 0 .. Len(s) - 1 : /\ k \in 0 .. Len(s) /\ k + 1 \in 0 .. Len(s)
                                      /\ k + 1 # 0 /\ (k + 1) - 1 = k
      BY <1>0
  <1> HIDE DEF T
  <1>9. f[0] = EmptyIndex
    <2>1. h[0] = [refused |-> FALSE, ix |-> EmptyIndex]
        BY <1>2, <1>8, Zenon
    <2>2. QED
        BY <1>6, <1>8, <2>1
  <1>10. \A k \in 0 .. Len(s) : /\ f[k] \in Index(Ids) /\ Consistent(f[k])
                                /\ DOMAIN f[k].msgs = Live(s, k)
      BY <1>6, <1>7, Zenon
  <1>11. \A k \in 0 .. Len(s) - 1 : Replayed(f[k], f[k + 1], s[k + 1], now)
      BY <1>6, <1>7, <1>8, Zenon
  <1>12. IndexRun(s, Len(s), f, now)
      BY <1>9, <1>10, <1>11, Zenon DEF IndexRun
  <1>13. Recovered(s) = f[Len(s)]
      BY <1>1, <1>6, <1>8, Zenon DEF Recovered
  <1>14. QED
      BY <1>12, <1>13

-----------------------------------------------------------------------------
\* One record more, in the log and in the index.
LEMMA EchoNext ==
    ASSUME NEW s, Sound(s), NEW n \in 0 .. Len(s) - 1, NEW i \in Index(Ids), NEW j \in Index(Ids),
           NEW t \in Nat, Echoes(s, n, i, t), Replayed(i, j, s[n + 1], t)
    PROVE  Echoes(s, n + 1, j, t)
  <1> SUFFICES ASSUME NEW f, IndexRun(s, n + 1, f, t)
               PROVE  Alike(f[n + 1], j, t)
      BY DEF Echoes
  <1>1. /\ \A k \in 0 .. n : k \in 0 .. n + 1
        /\ \A k \in 0 .. n - 1 : k \in 0 .. (n + 1) - 1
        /\ n \in 0 .. (n + 1) - 1 /\ n \in 0 .. n + 1 /\ n + 1 \in 0 .. n + 1 /\ t \in 0 .. t
      OBVIOUS
  <1>2. IndexRun(s, n, f, t)
      BY <1>1, Zenon DEF IndexRun
  <1>3. Alike(f[n], i, t)
      BY <1>2 DEF Echoes
  <1>4. PICK p, q : p = f[n] /\ q = f[n + 1]
      OBVIOUS
  <1>5. /\ p \in Index(Ids) /\ q \in Index(Ids) /\ DOMAIN p.msgs = Live(s, n)
        /\ Replayed(p, q, s[n + 1], t)
      BY <1>1, <1>4, Zenon DEF IndexRun
  <1>6. PICK r \in LogRecord : r = s[n + 1]
      BY <1>5, SoundAccepted
  <1>7. Alike(q, j, t)
      BY <1>1, <1>3, <1>4, <1>5, <1>6, AlikeReplayed
  <1>8. QED
      BY <1>4, <1>7

LEMMA EchoSame ==
    ASSUME NEW s, NEW u, NEW n \in Nat, \A k \in 1 .. n : u[k] = s[k], NEW i, NEW t,
           Echoes(s, n, i, t)
    PROVE  Echoes(u, n, i, t)
  <1> SUFFICES ASSUME NEW f, IndexRun(u, n, f, t)
               PROVE  Alike(f[n], i, t)
      BY DEF Echoes
  <1>1. \A m \in 0 .. n : Live(u, m) = Live(s, m)
      BY SameUpto
  <1>2. \A k \in 0 .. n - 1 : u[k + 1] = s[k + 1]
      OBVIOUS
  <1>3. IndexRun(s, n, f, t)
      BY <1>1, <1>2, Zenon DEF IndexRun
  <1>4. QED
      BY <1>3 DEF Echoes

LEMMA EchoAlike ==
    ASSUME NEW s, NEW n, NEW i, NEW j, NEW t, Echoes(s, n, i, t), Alike(i, j, t)
    PROVE  Echoes(s, n, j, t)
  BY AlikeJoined, Zenon DEF Echoes

LEMMA EchoLater ==
    ASSUME NEW s, Sound(s), NEW n \in 0 .. Len(s), NEW i \in Index(Ids),
           NEW t \in Nat, NEW u \in Nat, u >= t, Echoes(s, n, i, t)
    PROVE  Echoes(s, n, i, u)
  <1> SUFFICES ASSUME NEW g, IndexRun(s, n, g, u)
               PROVE  Alike(g[n], i, u)
      BY DEF Echoes
  <1>1. PICK f : IndexRun(s, n, f, t)
      BY RunExists
  <1>2. t \in 0 .. u /\ u \in 0 .. u /\ n \in 0 .. n
      BY DEF Sound
  <1>3. Alike(f[n], i, t) /\ f[n] \in Index(Ids)
      BY <1>1, <1>2 DEF Echoes, IndexRun
  <1>4. PICK p : p = f[n]
      OBVIOUS
  <1>5. Alike(p, i, u)
      BY <1>3, <1>4, AlikeLater
  <1>6. Alike(g[n], p, u)
      BY <1>1, <1>2, <1>4, RunsAlike
  <1>7. QED
      BY <1>5, <1>6, AlikeJoined

-----------------------------------------------------------------------------
(***************************************************************************)
(* Snapshots.                                                              *)
(***************************************************************************)
\* Two messages of a log with one dedup id were enqueued a window apart: the
\* later one was no duplicate, and the table had the window of the earlier.
FarApart(x, y) ==
    x # y /\ born[x].dedup = born[y].dedup /\ born[x].dedup # NoDedup
        => \/ born[x].at + DedupWindow <= born[y].at
           \/ born[y].at + DedupWindow <= born[x].at

ApartInv == \A x, y \in Enq(log, Len(log)) : FarApart(x, y)

LEMMA ApartKept ==
    ASSUME ApartInv, Enq(log', Len(log')) \subseteq Enq(log, Len(log)), UNCHANGED born
    PROVE  ApartInv'
  BY DEF ApartInv, FarApart

LEMMA ApartStep ==
    ASSUME TypeInv, LiveInv, RecordInv, MemoryInv, ApartInv, Classified
    PROVE  ApartInv'
  <1>0. /\ log \in Seq(LogRecord) /\ Len(log) \in Nat /\ now \in Nat /\ durable \in 0 .. Len(log)
        /\ DedupWindow \in Nat /\ Legal(log) /\ Len(born) \in Nat /\ born \in Seq(Birth)
      BY ConfigAssumption DEF TypeInv, StoreOK, ClockOK, ValidConfig, LiveInv, HistoryOK
  <1>1. CASE UNCHANGED <<log, born>>
      BY <1>1, ApartKept
  <1>2. CASE Quiet \/ (\E S \in SUBSET Ids : Serve(S)) \/ (\E w \in waiting : Return(w))
             \/ InstallStep \/ Load
    <2>1. UNCHANGED <<log, born>>
        BY <1>2, LoadCases, Zenon DEF Quiet, Serve, Return, InstallStep, LoadStep, RefusedStep, logV
    <2>2. QED
        BY <1>1, <2>1
  <1>3. ASSUME NEW d \in DedupId \cup {NoDedup}, NEW p \in Priority, NEW delay \in Delay,
               EnqueueStep(d, p, delay)
        PROVE  ApartInv'
    <2> DEFINE id == Len(born) + 1
               m == Fresh(d, p, delay)
               r == EnqueueRec(id, m)
    <2>1. r \in LogRecord /\ log' = Append(log, r) /\ m.seq = ix.nextSeq
        BY <1>3, EnqueueFacts
    <2>2. r.type = "ENQUEUE" /\ r.m.id = id
        BY EncodeFacts
    <2>3. /\ phase = "up" /\ ~isDuplicate(ix, d, now)
          /\ born' = Append(born, [dedup |-> d, at |-> now, seq |-> m.seq])
        BY <1>3, Zenon DEF EnqueueStep
    <2>4. id \notin Enq(log, Len(log))
        BY NextIdNew
    <2> HIDE DEF r, m
    <2>5. born'[id].dedup = d /\ born'[id].at = now /\ \A x \in 1 .. Len(born) : born'[x] = born[x]
        BY <1>0, <2>3
    <2> HIDE DEF id
    <2>6. Enq(log', Len(log')) = Enq(log, Len(log)) \cup {id}
      <3>1. /\ r.type = "ENQUEUE" => r.m.id \notin Enq(log, Len(log))
            /\ r.type \in {"ACK", "NACK", "LEASE_EXPIRE"} => r.id \in Live(log, Len(log))
          BY <2>2, <2>4
      <3>2. Grown(log, r, log')
          BY <1>0, <2>1, <3>1, LegalGrown, Zenon
      <3>3. QED
          BY <2>2, <3>2 DEF Grown
    <2>7. \A x \in Enq(log, Len(log)) : x \in 1 .. Len(born)
      <3>1. \A k \in 1 .. Len(log) : log[k].type = "ENQUEUE" => log[k].m.id \in 1 .. Len(born)
          BY DEF TypeInv, StoreOK, IdsKnown, Knows
      <3>2. QED
          BY <3>1, Zenon DEF Enq
    <2>8. ASSUME NEW x \in Enq(log, Len(log)), born[x].dedup = d, d # NoDedup
          PROVE  born[x].at + DedupWindow <= now
      <3>1. PICK k \in 1 .. Len(log) : log[k].type = "ENQUEUE" /\ log[k].m.id = x
          BY DEF Enq
      <3>2. log[k].m.dedup = d /\ log[k].m.created = born[x].at
          BY <2>8, <3>1 DEF RecordInv, Faithful, Birthright
      <3>3. PICK e : e = born[x].at + DedupWindow
          OBVIOUS
      <3>4. Opens(log[k], d, e)
          BY <2>8, <3>1, <3>2, <3>3, Zenon DEF Opens
      <3>5. e <= now \/ (d \in DOMAIN ix.dedup /\ e <= ix.dedup[d].expires)
          BY <2>3, <3>4, Zenon DEF MemoryInv, Remembers
      <3>6. e \in Nat
        <4>1. born[x].at \in Nat
            BY <2>7, BornTyped
        <4>2. QED
            BY <1>0, <3>3, <4>1
      <3>7. d \in DOMAIN ix.dedup => ix.dedup[d].expires \in Nat /\ ~(now < ix.dedup[d].expires)
        <4>1. ix.dedup \in DedupMap
            BY Fields DEF TypeInv, IndexOK
        <4>2. QED
            BY <2>3, <4>1, DedupFacts DEF isDuplicate, DedupEntry
      <3>8. e <= now
          BY <1>0, <3>5, <3>6, <3>7
      <3>9. QED
          BY <3>3, <3>8
    <2>8a. PICK v : v = id
        OBVIOUS
    <2>9. ASSUME NEW x \in Enq(log, Len(log)), NEW y \in Enq(log, Len(log))
          PROVE  FarApart(x, y)'
      <3>1. FarApart(x, y) /\ born'[x] = born[x] /\ born'[y] = born[y]
          BY <2>5, <2>7 DEF ApartInv
      <3>2. QED
          BY <3>1 DEF FarApart
    <2>10. ASSUME NEW x \in Enq(log, Len(log))
           PROVE  FarApart(x, v)' /\ FarApart(v, x)'
      <3>1. born'[x] = born[x] /\ born'[v].dedup = d /\ born'[v].at = now
          BY <2>5, <2>7, <2>8a
      <3>2. QED
          BY <2>8, <3>1, Zenon DEF FarApart
    <2>11. FarApart(v, v)'
        BY DEF FarApart
    <2>12. QED
        BY <2>6, <2>8a, <2>9, <2>10, <2>11 DEF ApartInv
  <1>4. CASE \E id \in Ids : AckStep(id) \/ \E r \in LogRecord : AttemptStep(id, r)
    <2>1. PICK id \in Ids : AckStep(id) \/ \E r \in LogRecord : AttemptStep(id, r)
        BY <1>4
    <2>2. PICK r \in LogRecord : log' = Append(log, r) /\ r.type \in {"ACK", "NACK", "LEASE_EXPIRE"}
                                 /\ r.id = id
      <3>1. CASE AckStep(id)
          BY <3>1, AckFacts DEF AckStep, AckRec
      <3>2. CASE \E r \in LogRecord : AttemptStep(id, r)
          BY <3>2, AttemptFacts DEF AttemptStep
      <3>3. QED
          BY <2>1, <3>1, <3>2
    <2>3. born' = born /\ phase = "up" /\ id \in DOMAIN ix.msgs
        BY <2>1, Zenon DEF AckStep, AttemptStep
    <2>4. /\ r.type = "ENQUEUE" => r.m.id \notin Enq(log, Len(log))
          /\ r.type \in {"ACK", "NACK", "LEASE_EXPIRE"} => r.id \in Live(log, Len(log))
        BY <2>2, <2>3 DEF LiveInv
    <2>5. Grown(log, r, log')
        BY <1>0, <2>2, <2>4, LegalGrown, Zenon
    <2>6. Enq(log', Len(log')) = Enq(log, Len(log))
        BY <2>2, <2>5 DEF Grown
    <2>7. QED
        BY <2>3, <2>6, ApartKept
  <1>5. CASE ReopenStep \/ StopStep
    <2>1. /\ UNCHANGED born
          /\ \/ \E k \in durable .. Len(log) : log' = SubSeq(log, 1, k)
             \/ dir # "log" /\ log' = snap
      <3>1. CASE ReopenStep
          BY <3>1 DEF ReopenStep
      <3>2. CASE StopStep
          BY <3>2, StopFacts
      <3>3. QED
          BY <1>5, <3>1, <3>2
    <2>2. CASE dir # "log" /\ log' = snap
      <3>1. phase = "up"
          BY <2>2, Zenon DEF TypeInv, ModeOK
      <3>2. Enq(log', Len(log')) \subseteq Enq(log, Len(log))
          BY <2>2, <3>1 DEF LiveInv, Live
      <3>3. QED
          BY <2>1, <3>2, ApartKept
    <2>3. ASSUME NEW k \in durable .. Len(log), log' = SubSeq(log, 1, k)
          PROVE  ApartInv'
      <3>1. k \in 0 .. Len(log) /\ k \in 0 .. k
          BY <1>0
      <3>2. Len(log') = k /\ Enq(log', k) = Enq(log, k)
          BY <1>0, <2>3, <3>1, LegalPrefix
      <3>3. Enq(log, k) \subseteq Enq(log, Len(log))
          BY <1>0, <3>1, Growing
      <3>4. QED
          BY <2>1, <3>2, <3>3, ApartKept
    <2>4. QED
        BY <2>1, <2>2, <2>3
  <1>6. QED
      BY <1>2, <1>3, <1>4, <1>5 DEF Classified

LEMMA ApartAlways == Spec => []ApartInv
  <1>1. Init => ApartInv
    <2> SUFFICES ASSUME Init PROVE ApartInv
        OBVIOUS
    <2>1. log = <<Meta(0)>>
        BY Zenon DEF Init
    <2>2. Enq(log, Len(log)) = {}
        BY <2>1 DEF Enq, Meta
    <2>3. QED
        BY <2>2 DEF ApartInv
  <1>2. TypeInv /\ LiveInv /\ RecordInv /\ MemoryInv /\ ApartInv /\ [Next]_vars => ApartInv'
      BY Classify, ApartStep
  <1>3. QED
      BY <1>1, <1>2, TypeInvariant, LiveAlways, RecordAlways, MemoryAlways, PTL DEF Spec

\* The entry v that the record r makes for dedup id d.
Gives(r, d, v) ==
    \/ /\ r.type = "ENQUEUE" /\ r.m.dedup = d /\ d # NoDedup
       /\ v = [msg |-> r.m.id, expires |-> r.m.created + DedupWindow]
    \/ r.type = "DEDUP" /\ r.d = d /\ v = r.e

\* The entry of d in the table f is that of the last of n records that has one.
Latest(s, n, f) ==
    /\ \A d \in DOMAIN f :
         \E j \in 1 .. n : /\ Gives(s[j], d, f[d])
                           /\ \A h \in j + 1 .. n : \A e : ~Opens(s[h], d, e)
    /\ \A j \in 1 .. n : \A d, e : Opens(s[j], d, e) => d \in DOMAIN f

LEMMA GivesOpens ==
    ASSUME NEW r, NEW d, NEW v, Gives(r, d, v)
    PROVE  /\ Opens(r, d, v.expires)
           /\ \A e : Opens(r, d, e) => e = v.expires
  <1>1. CASE r.type = "ENQUEUE"
    <2>1. v = [msg |-> r.m.id, expires |-> r.m.created + DedupWindow] /\ r.m.dedup = d /\ d # NoDedup
        BY <1>1 DEF Gives
    <2>2. v.expires = r.m.created + DedupWindow
        BY <2>1
    <2>3. QED
        BY <1>1, <2>1, <2>2 DEF Opens
  <1>2. CASE r.type # "ENQUEUE"
      BY <1>2 DEF Gives, Opens
  <1>3. QED
      BY <1>1, <1>2

\* What one record does to a table.
LEMMA TableNext ==
    ASSUME NEW r \in LogRecord, NEW i \in Index(Ids), NEW j, NEW t, Replayed(i, j, r, t)
    PROVE  \/ j.dedup = i.dedup /\ \A d, e : ~Opens(r, d, e)
           \/ \E c \in DedupId, v \in DedupEntry :
                /\ j.dedup = Put(i.dedup, c, v) /\ Gives(r, c, v)
                /\ \A d, e : Opens(r, d, e) => d = c
  <1>0. r.type \in {"META", "ENQUEUE", "ACK", "NACK", "LEASE_EXPIRE", "DEDUP"}
      BY RecordFacts
  <1>1. CASE r.type = "ENQUEUE"
    <2> DEFINE v == [msg |-> r.m.id, expires |-> r.m.created + DedupWindow]
    <2>1. j.dedup = IF r.m.dedup = NoDedup THEN i.dedup ELSE Put(i.dedup, r.m.dedup, v)
        BY <1>1, Zenon DEF Replayed
    <2>2. CASE r.m.dedup = NoDedup
        BY <1>1, <2>1, <2>2, Zenon DEF Opens
    <2>3. CASE r.m.dedup # NoDedup
      <3>1. r.m \in Encoded /\ DedupWindow \in Nat
          BY <1>1, RecordFacts, ConfigAssumption DEF ValidConfig
      <3>2. v \in DedupEntry /\ r.m.dedup \in DedupId
          BY <2>3, <3>1 DEF Encoded, DedupEntry
      <3>3. j.dedup = Put(i.dedup, r.m.dedup, v) /\ Gives(r, r.m.dedup, v)
          BY <1>1, <2>1, <2>3, Zenon DEF Gives
      <3> HIDE DEF v
      <3>4. \A d, e : Opens(r, d, e) => d = r.m.dedup
          BY <1>1 DEF Opens
      <3>5. QED
          BY <3>2, <3>3, <3>4, Zenon
    <2>4. QED
        BY <2>2, <2>3
  <1>2. CASE r.type = "DEDUP"
    <2>1. j.dedup = Put(i.dedup, r.d, r.e)
        BY <1>2, Zenon DEF Replayed
    <2>2. r.d \in DedupId /\ r.e \in DedupEntry
        BY <1>2, RecordFacts
    <2>3. Gives(r, r.d, r.e) /\ \A d, e : Opens(r, d, e) => d = r.d
        BY <1>2 DEF Gives, Opens
    <2>4. QED
        BY <2>1, <2>2, <2>3, Zenon
  <1>3. CASE r.type \in {"META", "ACK", "NACK", "LEASE_EXPIRE"}
    <2>1. j.dedup = i.dedup
        BY <1>3 DEF Replayed
    <2>2. \A d, e : ~Opens(r, d, e)
        BY <1>3 DEF Opens
    <2>3. QED
        BY <2>1, <2>2, Zenon
  <1>4. QED
      BY <1>0, <1>1, <1>2, <1>3

LEMMA LatestNext ==
    ASSUME NEW s, NEW n \in Nat, NEW f, NEW g, Latest(s, n, f),
           \/ g = f /\ \A d, e : ~Opens(s[n + 1], d, e)
           \/ \E c \in DedupId, v \in DedupEntry :
                /\ g = Put(f, c, v) /\ Gives(s[n + 1], c, v)
                /\ \A d, e : Opens(s[n + 1], d, e) => d = c
    PROVE  Latest(s, n + 1, g)
  <1>0. /\ n + 1 \in 1 .. n + 1 /\ \A j \in 1 .. n : j \in 1 .. n + 1
        /\ \A j \in 1 .. n + 1 : j = n + 1 \/ j \in 1 .. n
        /\ \A j \in 1 .. n : \A h \in j + 1 .. n + 1 : h = n + 1 \/ h \in j + 1 .. n
        /\ \A h \in (n + 1) + 1 .. n + 1 : FALSE
      OBVIOUS
  <1>1. /\ \A d \in DOMAIN f :
             \E j \in 1 .. n : /\ Gives(s[j], d, f[d])
                               /\ \A h \in j + 1 .. n : \A e : ~Opens(s[h], d, e)
        /\ \A j \in 1 .. n : \A d, e : Opens(s[j], d, e) => d \in DOMAIN f
      BY DEF Latest
  <1>2. CASE g = f /\ \A d, e : ~Opens(s[n + 1], d, e)
    <2>1. ASSUME NEW d \in DOMAIN f
          PROVE  \E j \in 1 .. n + 1 : /\ Gives(s[j], d, f[d])
                                       /\ \A h \in j + 1 .. n + 1 : \A e : ~Opens(s[h], d, e)
      <3>1. PICK j \in 1 .. n : /\ Gives(s[j], d, f[d])
                                /\ \A h \in j + 1 .. n : \A e : ~Opens(s[h], d, e)
          BY <1>1
      <3>2. QED
          BY <1>0, <1>2, <3>1, Zenon
    <2>2. \A j \in 1 .. n + 1 : \A d, e : Opens(s[j], d, e) => d \in DOMAIN f
        BY <1>0, <1>1, <1>2, Zenon
    <2>3. QED
        BY <1>2, <2>1, <2>2, Zenon DEF Latest
  <1>3. CASE \E c \in DedupId, v \in DedupEntry :
               /\ g = Put(f, c, v) /\ Gives(s[n + 1], c, v)
               /\ \A d, e : Opens(s[n + 1], d, e) => d = c
    <2>1. PICK c \in DedupId, v \in DedupEntry :
               /\ g = Put(f, c, v) /\ Gives(s[n + 1], c, v)
               /\ \A d, e : Opens(s[n + 1], d, e) => d = c
        BY <1>3
    <2>2. /\ DOMAIN g = DOMAIN f \cup {c} /\ g[c] = v
          /\ \A d \in DOMAIN f : d # c => g[d] = f[d]
        BY <2>1 DEF Put
    <2>3. ASSUME NEW d \in DOMAIN g
          PROVE  \E j \in 1 .. n + 1 : /\ Gives(s[j], d, g[d])
                                       /\ \A h \in j + 1 .. n + 1 : \A e : ~Opens(s[h], d, e)
      <3>1. CASE d = c
          BY <1>0, <2>1, <2>2, <3>1, Zenon
      <3>2. CASE d # c
        <4>1. d \in DOMAIN f /\ g[d] = f[d]
            BY <2>2, <3>2
        <4>2. PICK j \in 1 .. n : /\ Gives(s[j], d, f[d])
                                  /\ \A h \in j + 1 .. n : \A e : ~Opens(s[h], d, e)
            BY <1>1, <4>1
        <4>3. QED
            BY <1>0, <2>1, <3>2, <4>1, <4>2, Zenon
      <3>3. QED
          BY <3>1, <3>2
    <2>4. \A j \in 1 .. n + 1 : \A d, e : Opens(s[j], d, e) => d \in DOMAIN g
        BY <1>0, <1>1, <2>1, <2>2, Zenon
    <2>5. QED
        BY <2>3, <2>4, Zenon DEF Latest
  <1>4. QED
      BY <1>2, <1>3

\* A replay leaves the last entry of every dedup id.
LEMMA RunLatest ==
    ASSUME NEW s, Sound(s), NEW n \in 0 .. Len(s), NEW f, NEW t, IndexRun(s, n, f, t)
    PROVE  Latest(s, n, f[n].dedup)
  <1> DEFINE T == {m \in 0 .. n : Latest(s, m, f[m].dedup)}
  <1>0. Len(s) \in Nat /\ n \in Nat
      BY DEF Sound
  <1>1. 0 \in T
    <2>1. f[0] = EmptyIndex /\ 0 \in 0 .. n /\ \A j \in 1 .. 0 : FALSE
        BY <1>0 DEF IndexRun
    <2>2. DOMAIN f[0].dedup = {}
        BY <2>1, EmptyIndexFacts
    <2>3. Latest(s, 0, f[0].dedup)
        BY <2>1, <2>2, Zenon DEF Latest
    <2>4. QED
        BY <2>1, <2>3
  <1>2. ASSUME NEW m \in 0 .. n - 1, m \in T
        PROVE  m + 1 \in T
    <2>1. m \in 0 .. Len(s) - 1 /\ m \in 0 .. n /\ m + 1 \in 0 .. n /\ m \in Nat
        BY <1>0
    <2>2. PICK i, j : i = f[m] /\ j = f[m + 1]
        OBVIOUS
    <2>3. i \in Index(Ids) /\ DOMAIN i.msgs = Live(s, m) /\ Replayed(i, j, s[m + 1], t)
        BY <2>1, <2>2, Zenon DEF IndexRun
    <2>4. s[m + 1] \in LogRecord
        BY <2>1, <2>3, SoundAccepted
    <2>5. \/ j.dedup = i.dedup /\ \A d, e : ~Opens(s[m + 1], d, e)
          \/ \E c \in DedupId, v \in DedupEntry :
                /\ j.dedup = Put(i.dedup, c, v) /\ Gives(s[m + 1], c, v)
                /\ \A d, e : Opens(s[m + 1], d, e) => d = c
        BY <2>3, <2>4, TableNext
    <2>6. Latest(s, m, i.dedup)
        BY <1>2, <2>2
    <2>7. Latest(s, m + 1, j.dedup)
        BY <2>1, <2>5, <2>6, LatestNext
    <2>8. QED
        BY <2>1, <2>2, <2>7
  <1> HIDE DEF T
  <1>3. \A k \in 0 .. n : k \in T
      BY <1>0, <1>1, <1>2, Induct
  <1>4. n \in T
      BY <1>0, <1>3
  <1>5. QED
      BY <1>4 DEF T

\* The messages and the counter of a replayed snapshot.
LEMMA SnapshotMessages ==
    ASSUME TypeInv, LiveInv, RecordInv, CountInv, phase = "up", ix.nextSeq >= 1,
           NEW s, NEW a, NEW b, NEW L, NEW R, Written(s, a, b, L, R), Sound(s),
           NEW f, NEW t, IndexRun(s, Len(s), f, t)
    PROVE  /\ f[Len(s)].nextSeq = ix.nextSeq
           /\ \A x \in DOMAIN f[Len(s)].msgs :
                x \in DOMAIN ix.msgs /\ AlikeMsg(ix.msgs[x], f[Len(s)].msgs[x], t)
  <1> DEFINE Fine(k) == /\ k # 0 => f[k].nextSeq = ix.nextSeq
                        /\ \A x \in DOMAIN f[k].msgs :
                             x \in DOMAIN ix.msgs /\ AlikeMsg(ix.msgs[x], f[k].msgs[x], t)
             T == {k \in 0 .. Len(s) : Fine(k)}
  <1>0. Len(s) \in Nat /\ Len(s) # 0 /\ Len(s) \in 0 .. Len(s) /\ 0 \in 0 .. Len(s) /\ ix.nextSeq \in Nat
    <2>1. ix.nextSeq \in Nat
        BY Fields DEF TypeInv, IndexOK
    <2>2. QED
        BY <2>1 DEF Written
  <1>1. 0 \in T
    <2>1. f[0] = EmptyIndex
        BY DEF IndexRun
    <2>2. DOMAIN f[0].msgs = {}
        BY <2>1, EmptyIndexFacts
    <2>3. QED
        BY <1>0, <2>2
  <1>2. ASSUME NEW m \in 0 .. Len(s) - 1, m \in T
        PROVE  m + 1 \in T
    <2>0. Fine(m)
        BY <1>2
    <2>1. m \in 0 .. Len(s) /\ m + 1 \in 1 .. Len(s) /\ m + 1 \in 0 .. Len(s) /\ m + 1 # 0
        BY <1>0
    <2>2. PICK i, j, c : i = f[m] /\ j = f[m + 1] /\ c = m + 1
        OBVIOUS
    <2>3. /\ i \in Index(Ids) /\ j \in Index(Ids) /\ DOMAIN i.msgs = Live(s, m)
          /\ Replayed(i, j, s[c], t)
        BY <2>1, <2>2, Zenon DEF IndexRun
    <2>4. /\ m # 0 => i.nextSeq = ix.nextSeq
          /\ \A x \in DOMAIN i.msgs : x \in DOMAIN ix.msgs /\ AlikeMsg(ix.msgs[x], i.msgs[x], t)
        BY <2>0, <2>2, Zenon
    <2>5. m = 0 => i.nextSeq = 1
        BY <2>2, EmptyIndexFacts DEF IndexRun
    <2> SUFFICES /\ j.nextSeq = ix.nextSeq
                 /\ \A x \in DOMAIN j.msgs : x \in DOMAIN ix.msgs /\ AlikeMsg(ix.msgs[x], j.msgs[x], t)
        BY <2>1, <2>2, Zenon
    <2> HIDE DEF T, Fine
    <2>6. \/ c = 1 /\ s[c] = Meta(ix.nextSeq) /\ s[c].type = "META"
          \/ \E h \in 1 .. a : /\ c = 1 + h /\ L[h] \in DOMAIN ix.msgs
                               /\ s[c] = EnqueueRec(L[h], ix.msgs[L[h]])
                               /\ s[c].type = "ENQUEUE"
          \/ \E h \in 1 .. b : /\ c = 1 + a + h /\ R[h] \in orphans
                               /\ s[c] = DedupRec(R[h], ix.dedup[R[h]])
                               /\ s[c].type = "DEDUP"
        BY <2>1, <2>2, SnapshotRecord
    <2>7. a \in Nat /\ b \in Nat
        BY DEF Written
    <2>8. CASE c = 1 /\ s[c] = Meta(ix.nextSeq) /\ s[c].type = "META"
      <3>1. m = 0
          BY <2>2, <2>8
      <3>2. s[c].nextSeq = ix.nextSeq
          BY <2>8 DEF Meta
      <3>3. j.msgs = i.msgs /\ j.nextSeq = IF ix.nextSeq > i.nextSeq THEN ix.nextSeq ELSE i.nextSeq
          BY <2>3, <2>8, <3>2, Zenon DEF Replayed
      <3>4. j.nextSeq = ix.nextSeq
          BY <1>0, <2>5, <3>1, <3>3
      <3>5. QED
          BY <2>4, <3>3, <3>4
    <2>9. ASSUME NEW h \in 1 .. a, c = 1 + h, L[h] \in DOMAIN ix.msgs,
                 s[c] = EnqueueRec(L[h], ix.msgs[L[h]]), s[c].type = "ENQUEUE"
          PROVE  /\ j.nextSeq = ix.nextSeq
                 /\ \A x \in DOMAIN j.msgs : x \in DOMAIN ix.msgs /\ AlikeMsg(ix.msgs[x], j.msgs[x], t)
      <3>1. PICK y, e : y = L[h] /\ e = s[c].m
          OBVIOUS
      <3>2. e.id = y /\ SameEntry(ix.msgs[y], e) /\ e.dead = (ix.msgs[y].state = "dead")
        <4>1. PICK n : n = ix.msgs[y]
            OBVIOUS
        <4>2. e = EnqueueRec(y, n).m
            BY <2>9, <3>1, <4>1
        <4>3. e.id = y /\ SameEntry(n, e) /\ e.dead = (n.state = "dead")
            BY <4>2, EncodeFacts, ZenonT(60)
        <4>4. QED
            BY <4>1, <4>3
      <3>3. /\ DOMAIN j.msgs = DOMAIN i.msgs \cup {y} /\ SameBut(i, j, y) /\ y \notin DOMAIN i.msgs
            /\ SameEntry(e, j.msgs[y])
            /\ j.msgs[y].state = IF e.dead THEN "dead"
                                 ELSE IF e.visible > t THEN "delayed" ELSE "ready"
            /\ j.nextSeq = IF e.seq >= i.nextSeq THEN e.seq + 1 ELSE i.nextSeq
          BY <2>3, <2>9, <3>1, <3>2, Zenon DEF Replayed
      <3>4. j.msgs[y].state = "dead" <=> ix.msgs[y].state = "dead"
        <4>1. "delayed" # "dead" /\ "ready" # "dead"
            OBVIOUS
        <4>2. QED
            BY <3>2, <3>3, <4>1, Zenon
      <3>5. AlikeMsg(ix.msgs[y], j.msgs[y], t)
          BY <3>2, <3>3, <3>4, Zenon DEF AlikeMsg, SameEntry
      <3>6. \A x \in DOMAIN j.msgs : x \in DOMAIN ix.msgs /\ AlikeMsg(ix.msgs[x], j.msgs[x], t)
          BY <2>4, <2>9, <3>1, <3>3, <3>5, Zenon DEF SameBut
      <3>7. e.seq < ix.nextSeq /\ e.seq \in Nat
        <4>1. ix.msgs[y].seq < ix.nextSeq
            BY <2>9, <3>1, LiveCounted
        <4>2. ix.msgs[y] \in Message
            BY <2>9, <3>1, Fields DEF TypeInv, IndexOK
        <4>3. QED
            BY <3>2, <4>1, <4>2 DEF SameEntry, Message
      <3>8. m # 0
          BY <2>2, <2>9
      <3>9. j.nextSeq = ix.nextSeq
          BY <1>0, <2>4, <3>3, <3>7, <3>8
      <3>10. QED
          BY <3>6, <3>9
    <2>10. ASSUME NEW h \in 1 .. b, c = 1 + a + h, s[c].type = "DEDUP"
           PROVE  /\ j.nextSeq = ix.nextSeq
                  /\ \A x \in DOMAIN j.msgs : x \in DOMAIN ix.msgs /\ AlikeMsg(ix.msgs[x], j.msgs[x], t)
      <3>1. j.msgs = i.msgs /\ j.nextSeq = i.nextSeq
          BY <2>3, <2>10, Zenon DEF Replayed
      <3>2. m # 0
          BY <2>2, <2>7, <2>10
      <3>3. QED
          BY <2>4, <3>1, <3>2
    <2>11. QED
        BY <2>6, <2>8, <2>9, <2>10
  <1>3. \A k \in 0 .. Len(s) : k \in T
    <2> HIDE DEF T, Fine
    <2>1. QED
        BY <1>0, <1>1, <1>2, Induct
  <1>4. Fine(Len(s))
      BY <1>0, <1>3
  <1>5. QED
      BY <1>0, <1>4

LEMMA EncodedBirth ==
    ASSUME NEW id, NEW m, NEW r, r = EnqueueRec(id, m)
    PROVE  /\ r.type = "ENQUEUE" /\ r.m.id = id /\ r.m.dedup = m.dedup
           /\ r.m.created = m.created
  BY EncodeFacts DEF SameEntry

\* An entry of the last record of a snapshot for its dedup id, if its window is
\* open, is the one in memory: that of a live message, or of an acked one that
\* the snapshot writes at the end.
LEMMA SnapshotTable ==
    ASSUME TypeInv, LiveInv, RecordInv, BirthInv, EntryInv, MemoryInv, ApartInv, phase = "up",
           NEW s, NEW a, NEW b, NEW L, NEW R, Written(s, a, b, L, R),
           NEW j \in 1 .. Len(s), NEW d, NEW u, Gives(s[j], d, u), now < u.expires,
           \A h \in j + 1 .. Len(s) : \A e : ~Opens(s[h], d, e)
    PROVE  d \in DOMAIN ix.dedup /\ ix.dedup[d] = u
  <1>0. /\ a \in Nat /\ b \in Nat /\ DedupWindow \in Nat /\ DedupWindow > 0 /\ now \in Nat
        /\ Len(s) = 1 + a + b /\ ix.dedup \in DedupMap
    <2>1. ix.dedup \in DedupMap
        BY Fields DEF TypeInv, IndexOK
    <2>2. QED
        BY <2>1, ConfigAssumption DEF Written, ValidConfig, TypeInv, ClockOK
  <1>1. Opens(s[j], d, u.expires)
      BY GivesOpens
  <1>2. CASE \E i \in 1 .. b : /\ j = 1 + a + i /\ R[i] \in orphans
                               /\ s[j] = DedupRec(R[i], ix.dedup[R[i]])
                               /\ s[j].type = "DEDUP"
    <2>1. PICK i \in 1 .. b : /\ R[i] \in orphans
                              /\ s[j] = DedupRec(R[i], ix.dedup[R[i]])
                              /\ s[j].type = "DEDUP"
        BY <1>2
    <2>2. s[j].d = R[i] /\ s[j].e = ix.dedup[R[i]]
        BY <2>1 DEF DedupRec
    <2>3. d = R[i] /\ u = ix.dedup[d]
        BY <2>1, <2>2 DEF Gives
    <2>4. QED
        BY <2>1, <2>3 DEF orphans
  <1>3. CASE \E i \in 1 .. a : /\ j = 1 + i /\ L[i] \in DOMAIN ix.msgs
                               /\ s[j] = EnqueueRec(L[i], ix.msgs[L[i]])
                               /\ s[j].type = "ENQUEUE"
    <2>1. PICK i \in 1 .. a : /\ j = 1 + i /\ L[i] \in DOMAIN ix.msgs
                              /\ s[j] = EnqueueRec(L[i], ix.msgs[L[i]])
                              /\ s[j].type = "ENQUEUE"
        BY <1>3
    <2>1a. PICK y \in DOMAIN ix.msgs : y = L[i]
        BY <2>1
    <2>1b. PICK m : m = ix.msgs[y]
        OBVIOUS
    <2>2. y = L[i] /\ m = ix.msgs[y]
        BY <2>1a, <2>1b
    <2>3. s[j].m.id = y /\ s[j].m.dedup = m.dedup /\ s[j].m.created = m.created
      <3>1. s[j] = EnqueueRec(y, m)
          BY <2>1, <2>2
      <3>2. QED
          BY <3>1, EncodedBirth
    <2>4. m.dedup = d /\ d # NoDedup /\ u = [msg |-> y, expires |-> m.created + DedupWindow]
        BY <2>1, <2>3 DEF Gives
    <2>5. born[y].dedup = d /\ born[y].at = m.created /\ born[y].seq = m.seq
        BY <2>2, <2>4 DEF RecordInv, Birthright
    <2>6. y \in Enq(log, Len(log)) /\ y \in 1 .. Len(born)
        BY DEF LiveInv, Live, TypeInv, IndexOK
    <2>7. born[y].at \in Nat /\ born[y].seq \in Nat
        BY <2>6, BornTyped
    <2>8. PICK e : e = u.expires
        OBVIOUS
    <2>9. e = born[y].at + DedupWindow /\ e \in Nat /\ now < e
        BY <1>0, <2>4, <2>5, <2>7, <2>8
    <2>10. \E k \in 1 .. Len(log) : Opens(log[k], d, e)
      <3>1. Copied(j, d, e, a, b, L)
          BY <1>1, <2>8, SnapshotOpens
      <3>2. ~\E h \in 1 .. b : j = 1 + a + h
          BY <1>0, <2>1
      <3>3. QED
          BY <3>1, <3>2, Zenon DEF Copied
    <2>11. e <= now \/ (d \in DOMAIN ix.dedup /\ e <= ix.dedup[d].expires)
        BY <2>10, Zenon DEF MemoryInv, Remembers
    <2>12. d \in DOMAIN ix.dedup /\ e <= ix.dedup[d].expires
        BY <1>0, <2>9, <2>11
    <2>13. PICK v \in DedupEntry : v = ix.dedup[d]
        BY <1>0, <2>12, DedupFacts
    <2>14. PICK x : x = v.msg
        OBVIOUS
    <2>15. /\ v.expires \in Nat /\ v = [msg |-> x, expires |-> v.expires]
           /\ x \in 1 .. Len(born)
        BY <2>12, <2>13, <2>14 DEF DedupEntry, TypeInv, IndexOK
    <2>16. born[x].dedup = d /\ v.expires = born[x].at + DedupWindow /\ born[x].at \in Nat
      <3>1. Honest(born, d, v)
          BY <2>12, <2>13, Zenon DEF EntryInv
      <3>2. QED
          BY <2>14, <2>15, <3>1, BornTyped DEF Honest
    <2>17. CASE x = y
      <3>1. v.expires = e
          BY <2>9, <2>16, <2>17
      <3>2. u = [msg |-> y, expires |-> e]
          BY <2>4, <2>8
      <3>3. QED
          BY <2>12, <2>13, <2>15, <2>17, <3>1, <3>2
    <2>18. CASE x # y
      <3>1. x \in DOMAIN ix.msgs
        <4> SUFFICES ASSUME x \notin DOMAIN ix.msgs PROVE FALSE
            OBVIOUS
        <4>1. now < v.expires
            BY <1>0, <2>9, <2>12, <2>13, <2>15
        <4>2. d \in orphans
            BY <2>12, <2>13, <2>14, <4>1 DEF orphans
        <4>3. PICK h \in 1 .. b : R[h] = d
            BY <4>2 DEF Written
        <4>4. s[1 + a + h] = DedupRec(d, ix.dedup[d])
            BY <4>3 DEF Written
        <4>5. Opens(s[1 + a + h], d, ix.dedup[d].expires)
            BY <4>4 DEF Opens, DedupRec
        <4>6. 1 + a + h \in j + 1 .. Len(s)
            BY <1>0, <2>1
        <4>7. QED
            BY <4>5, <4>6
      <3>2. x \in Enq(log, Len(log))
          BY <3>1 DEF LiveInv, Live
      <3>3. FarApart(x, y) /\ (born[x].seq < born[y].seq => born[x].at <= born[y].at)
          BY <2>6, <3>2 DEF ApartInv, BirthInv
      <3>4. \/ born[x].at + DedupWindow <= born[y].at
            \/ born[y].at + DedupWindow <= born[x].at
          BY <2>4, <2>5, <2>16, <2>18, <3>3 DEF FarApart
      <3>5. born[y].at < born[x].at
        <4>1. born[y].at + DedupWindow <= born[x].at + DedupWindow
            BY <2>9, <2>12, <2>13, <2>16
        <4>2. PICK p \in Nat, q \in Nat : p = born[x].at /\ q = born[y].at
            BY <2>7, <2>16
        <4>3. PICK w \in Nat : w = DedupWindow /\ w > 0
            BY <1>0
        <4>4. q + w <= p + w /\ (p + w <= q \/ q + w <= p)
            BY <3>4, <4>1, <4>2, <4>3
        <4>5. q < p
            BY <4>3, <4>4
        <4>6. QED
            BY <4>2, <4>5
      <3>6. ~(born[x].seq < born[y].seq)
          BY <2>7, <2>16, <3>3, <3>5
      <3>7. PICK h \in 1 .. a : L[h] = x
          BY <3>1 DEF Written
      <3>8. PICK n : n = ix.msgs[x]
          OBVIOUS
      <3>9. n.seq = born[x].seq /\ n.dedup = d /\ n.created = born[x].at
          BY <2>16, <3>1, <3>8 DEF RecordInv, Birthright
      <3>10. i < h
        <4>1. h # i
            BY <2>2, <2>18, <3>7
        <4>2. h < i => ix.msgs[L[h]].seq < ix.msgs[L[i]].seq
            BY DEF Written
        <4>3. ~(h < i)
            BY <2>2, <2>5, <3>6, <3>7, <3>8, <3>9, <4>2
        <4>4. QED
            BY <4>1, <4>3
      <3>11. s[1 + h] = EnqueueRec(x, n)
          BY <3>7, <3>8 DEF Written
      <3>12. /\ s[1 + h].type = "ENQUEUE" /\ s[1 + h].m.dedup = n.dedup
             /\ s[1 + h].m.created = n.created
          BY <3>11, EncodedBirth
      <3>13. Opens(s[1 + h], d, n.created + DedupWindow)
          BY <2>4, <3>9, <3>12 DEF Opens
      <3>14. 1 + h \in j + 1 .. Len(s)
          BY <1>0, <2>1, <3>10
      <3>15. QED
          BY <3>13, <3>14
    <2>19. QED
        BY <2>17, <2>18
  <1>4. CASE s[j].type = "META"
      BY <1>4 DEF Gives
  <1>5. QED
      BY <1>2, <1>3, <1>4, SnapshotRecord

\* Every open window in memory is written.
LEMMA SnapshotKeeps ==
    ASSUME TypeInv, RecordInv, EntryInv, phase = "up",
           NEW s, NEW a, NEW b, NEW L, NEW R, Written(s, a, b, L, R),
           NEW d \in DOMAIN ix.dedup, now < ix.dedup[d].expires
    PROVE  \E p \in 1 .. Len(s) : Opens(s[p], d, ix.dedup[d].expires)
  <1>0. /\ a \in Nat /\ b \in Nat /\ Len(s) = 1 + a + b /\ ix.dedup \in DedupMap
    <2>1. ix.dedup \in DedupMap
        BY Fields DEF TypeInv, IndexOK
    <2>2. QED
        BY <2>1 DEF Written
  <1>1. PICK v \in DedupEntry : v = ix.dedup[d] /\ d \in DedupId
      BY <1>0, DedupFacts
  <1>2. CASE v.msg \notin DOMAIN ix.msgs
    <2>1. d \in orphans
        BY <1>1, <1>2 DEF orphans
    <2>2. PICK h \in 1 .. b : R[h] = d
        BY <2>1 DEF Written
    <2>3. s[1 + a + h] = DedupRec(d, ix.dedup[d])
        BY <2>2 DEF Written
    <2>4. Opens(s[1 + a + h], d, ix.dedup[d].expires)
        BY <2>3 DEF Opens, DedupRec
    <2>5. 1 + a + h \in 1 .. Len(s)
        BY <1>0
    <2>6. QED
        BY <2>4, <2>5
  <1>3. CASE v.msg \in DOMAIN ix.msgs
    <2>1a. PICK x \in DOMAIN ix.msgs : x = v.msg
        BY <1>3
    <2>1b. PICK n : n = ix.msgs[x]
        OBVIOUS
    <2>1. x = v.msg /\ n = ix.msgs[x]
        BY <2>1a, <2>1b
    <2>2. Honest(born, d, v)
        BY <1>1, Zenon DEF EntryInv
    <2>3. n.dedup = d /\ v.expires = n.created + DedupWindow
        BY <2>1, <2>2 DEF Honest, RecordInv, Birthright
    <2>4. PICK h \in 1 .. a : L[h] = x
        BY DEF Written
    <2>5. s[1 + h] = EnqueueRec(x, n)
        BY <2>1, <2>4 DEF Written
    <2>6. /\ s[1 + h].type = "ENQUEUE" /\ s[1 + h].m.dedup = n.dedup
          /\ s[1 + h].m.created = n.created
        BY <2>5, EncodedBirth
    <2>7. d # NoDedup
        BY <1>1, ConfigAssumption DEF ValidConfig
    <2>8. Opens(s[1 + h], d, v.expires)
        BY <2>3, <2>6, <2>7 DEF Opens
    <2>9. 1 + h \in 1 .. Len(s)
        BY <1>0
    <2>10. QED
        BY <1>1, <2>8, <2>9
  <1>4. QED
      BY <1>2, <1>3

\* A snapshot replays to the index it was written from.
LEMMA EchoSnapshot ==
    ASSUME TypeInv, LiveInv, RecordInv, CountInv, BirthInv, EntryInv, MemoryInv, ApartInv,
           phase = "up", ix.nextSeq >= 1,
           NEW s, NEW a, NEW b, NEW L, NEW R, Written(s, a, b, L, R)
    PROVE  Echoes(s, Len(s), ix, now)
  <1>0. Len(s) \in Nat /\ Len(s) \in 0 .. Len(s) /\ s \in Seq(LogRecord)
      BY DEF Written
  <1>1. Sound(s) /\ Live(s, Len(s)) = DOMAIN ix.msgs
    <2>1. Legal(s) /\ Enq(s, Len(s)) = DOMAIN ix.msgs /\ Acks(s, Len(s)) = {}
        BY LegalSnapshot
    <2>2. DOMAIN ix.msgs \subseteq Ids
        BY Fields DEF TypeInv, IndexOK
    <2>3. QED
        BY <1>0, <2>1, <2>2 DEF Sound, Live
  <1> SUFFICES ASSUME NEW f, IndexRun(s, Len(s), f, now)
               PROVE  Alike(f[Len(s)], ix, now)
      BY DEF Echoes
  <1>2. PICK i : i = f[Len(s)]
      OBVIOUS
  <1>3. i \in Index(Ids) /\ DOMAIN i.msgs = DOMAIN ix.msgs
      BY <1>0, <1>1, <1>2 DEF IndexRun
  <1>4. /\ i.nextSeq = ix.nextSeq
        /\ \A x \in DOMAIN i.msgs : AlikeMsg(ix.msgs[x], i.msgs[x], now)
      BY <1>1, <1>2, SnapshotMessages
  <1>5. Latest(s, Len(s), i.dedup)
      BY <1>0, <1>1, <1>2, RunLatest
  <1>6. ASSUME NEW d \in DOMAIN i.dedup, now < i.dedup[d].expires
        PROVE  d \in DOMAIN ix.dedup /\ ix.dedup[d] = i.dedup[d]
    <2>1. PICK j \in 1 .. Len(s) : /\ Gives(s[j], d, i.dedup[d])
                                   /\ \A h \in j + 1 .. Len(s) : \A e : ~Opens(s[h], d, e)
        BY <1>5 DEF Latest
    <2>2. PICK u : u = i.dedup[d]
        OBVIOUS
    <2>3. Gives(s[j], d, u) /\ now < u.expires
        BY <1>6, <2>1, <2>2
    <2>4. d \in DOMAIN ix.dedup /\ ix.dedup[d] = u
        BY <2>1, <2>3, SnapshotTable
    <2>5. QED
        BY <2>2, <2>4
  <1>7. ASSUME NEW d \in DOMAIN ix.dedup, now < ix.dedup[d].expires
        PROVE  d \in DOMAIN i.dedup /\ ix.dedup[d] = i.dedup[d]
    <2>0. PICK e : e = ix.dedup[d].expires
        OBVIOUS
    <2>1. PICK p \in 1 .. Len(s) : Opens(s[p], d, e)
        BY <1>7, <2>0, SnapshotKeeps
    <2>2. d \in DOMAIN i.dedup
        BY <1>5, <2>1, Zenon DEF Latest
    <2>3. PICK j \in 1 .. Len(s) : /\ Gives(s[j], d, i.dedup[d])
                                   /\ \A h \in j + 1 .. Len(s) : \A g : ~Opens(s[h], d, g)
        BY <1>5, <2>2, Zenon DEF Latest
    <2>4. PICK g : g = i.dedup[d].expires
        OBVIOUS
    <2>5. Opens(s[j], d, g) /\ \A h : Opens(s[j], d, h) => h = g
        BY <2>3, <2>4, GivesOpens
    <2>6. e \in Nat /\ g \in Nat /\ now \in Nat
      <3>1. s[p] \in LogRecord /\ s[j] \in LogRecord
          BY <1>0
      <3>2. QED
          BY <2>1, <2>5, <3>1, OpensTyped DEF TypeInv, ClockOK
    <2>7. e <= g
      <3>1. p = j \/ p < j
        <4>1. p \notin j + 1 .. Len(s)
            BY <2>1, <2>3
        <4>2. QED
            BY <1>0, <4>1
      <3>2. CASE p = j
          BY <2>1, <2>5, <2>6, <3>2
      <3>3. CASE p < j
        <4>1. InOrder(s)
            BY SnapshotInOrder
        <4>2. QED
            BY <2>1, <2>5, <3>3, <4>1, Zenon DEF InOrder
      <3>4. QED
          BY <3>1, <3>2, <3>3
    <2>8. now < i.dedup[d].expires
        BY <1>7, <2>0, <2>4, <2>6, <2>7
    <2>9. QED
        BY <1>6, <2>2, <2>8
  <1>8. Alike(i, ix, now)
    <2>1. \A x \in DOMAIN i.msgs : AlikeMsg(i.msgs[x], ix.msgs[x], now)
        BY <1>4, Zenon DEF AlikeMsg
    <2>2. OpenIn(i.dedup, ix.dedup, now) /\ OpenIn(ix.dedup, i.dedup, now)
        BY <1>6, <1>7 DEF OpenIn
    <2>3. QED
        BY <1>3, <1>4, <2>1, <2>2, Zenon DEF Alike
  <1>9. QED
      BY <1>2, <1>8

-----------------------------------------------------------------------------
(***************************************************************************)
(* Replay reproduces the index.                                            *)
(***************************************************************************)
LEMMA SoundLogs ==
    ASSUME TypeInv, LiveInv
    PROVE  Sound(log) /\ (dir # "log" => Sound(snap))
  <1>0. /\ log \in Seq(LogRecord) /\ snap \in Seq(LogRecord) /\ Legal(log)
        /\ Len(born) \in Nat /\ Len(born) <= MaxMsgs /\ MaxMsgs \in Nat
      BY QueueAssumption DEF TypeInv, StoreOK, LiveInv, HistoryOK
  <1>1. 1 .. Len(born) \subseteq Ids
      BY <1>0 DEF Ids
  <1>2. Enq(log, Len(log)) \subseteq Ids
    <2>1. \A k \in 1 .. Len(log) : log[k].type = "ENQUEUE" => log[k].m.id \in Ids
        BY <1>1 DEF TypeInv, StoreOK, IdsKnown, Knows
    <2>2. QED
        BY <2>1, Zenon DEF Enq
  <1>3. dir # "log" => Legal(snap) /\ Enq(snap, Len(snap)) \subseteq Ids
    <2>1. DOMAIN ix.msgs \subseteq Ids
        BY Fields DEF TypeInv, IndexOK
    <2>2. QED
        BY <2>1 DEF LiveInv
  <1>4. QED
      BY <1>0, <1>2, <1>3 DEF Sound

LEMMA SoundNext == TypeInv' /\ LiveInv' => Sound(log)'
  <1>1. TypeInv /\ LiveInv => Sound(log)
      BY SoundLogs
  <1>2. QED
      BY <1>1, PTL

\* The log, the part of it that startup has read, and a snapshot replay to the
\* index, for all that a restart can tell.
EchoInv ==
    /\ ix.nextSeq >= 1
    /\ phase = "up" => Echoes(log, Len(log), ix, now)
    /\ phase = "loading" => Echoes(log, pos, ix, now)
    /\ dir # "log" => Echoes(snap, Len(snap), ix, now)

\* A record appended to the log is applied to the index as replay applies it.
LEMMA EnqueueReplayed ==
    ASSUME TypeInv, NEW d \in DedupId \cup {NoDedup}, NEW p \in Priority, NEW delay \in Delay,
           EnqueueStep(d, p, delay)
    PROVE  \E r \in LogRecord : log' = Append(log, r) /\ Replayed(ix, ix', r, now)
  <1>1. PICK id, m : id = Len(born) + 1 /\ m = Fresh(d, p, delay)
      OBVIOUS
  <1>2. /\ id \in Ids /\ id \in Id /\ id \notin DOMAIN ix.msgs /\ m \in Message
        /\ EnqueueRec(id, m) \in LogRecord /\ log' = Append(log, EnqueueRec(id, m))
        /\ m.state = "ready"
      BY <1>1, EnqueueFacts
  <1>3. PICK r \in LogRecord : r = EnqueueRec(id, m)
      BY <1>2
  <1>4. r.type = "ENQUEUE" /\ r.m.id = id /\ SameEntry(m, r.m) /\ r.m.dead = (m.state = "dead")
      BY <1>3, EncodeFacts
  <1>5. ix' = applyEnqueue(ix, id, m, now)
      BY <1>1, Zenon DEF EnqueueStep
  <1>6. ix \in Index(Ids) /\ Consistent(ix) /\ now \in Nat
      BY DEF TypeInv, IndexOK, ClockOK
  <1>7. PICK j : j = applyEnqueue(ix, id, m, now)
      OBVIOUS
  <1>8. /\ DOMAIN j.msgs = DOMAIN ix.msgs \cup {id}
        /\ SameBut(ix, j, id) /\ SameEntry(m, j.msgs[id])
        /\ j.msgs[id].state = IF m.state = "dead" THEN "dead"
                              ELSE IF m.visible > now THEN "delayed" ELSE "ready"
        /\ j.nextSeq = IF m.seq >= ix.nextSeq THEN m.seq + 1 ELSE ix.nextSeq
        /\ j.dedup = IF m.dedup = NoDedup THEN ix.dedup
                     ELSE Put(ix.dedup, m.dedup,
                              [msg |-> id, expires |-> m.created + DedupWindow])
      BY <1>2, <1>6, <1>7, ApplyEnqueue
  <1>9. /\ r.m.dedup = m.dedup /\ r.m.seq = m.seq /\ r.m.created = m.created
        /\ r.m.visible = m.visible /\ r.m.prio = m.prio /\ r.m.attempts = m.attempts
      BY <1>4 DEF SameEntry
  <1>10. ~r.m.dead /\ m.state # "dead"
      BY <1>2, <1>4
  <1>11. SameEntry(r.m, j.msgs[id])
      BY <1>8, <1>9, Zenon DEF SameEntry
  <1>12. /\ r.type # "META" /\ r.type # "ACK" /\ r.type \notin {"NACK", "LEASE_EXPIRE"}
         /\ r.type # "DEDUP"
      BY <1>4
  <1>13. Replayed(ix, j, r, now)
      BY <1>2, <1>4, <1>8, <1>9, <1>10, <1>11, <1>12, Zenon DEF Replayed
  <1>14. QED
      BY <1>2, <1>3, <1>5, <1>7, <1>13

LEMMA AckReplayed ==
    ASSUME TypeInv, NEW id \in Ids, AckStep(id)
    PROVE  \E r \in LogRecord : log' = Append(log, r) /\ Replayed(ix, ix', r, now)
  <1>1. PICK r \in LogRecord : r = AckRec(id)
      BY AckFacts
  <1>2. r.type = "ACK" /\ r.id = id
      BY <1>1 DEF AckRec
  <1>3. /\ DOMAIN ix'.msgs = DOMAIN ix.msgs \ {id} /\ SameBut(ix, ix', id)
        /\ ix'.dedup = ix.dedup /\ ix'.nextSeq = ix.nextSeq
      BY AckFacts
  <1>4. id \in DOMAIN ix.msgs /\ log' = Append(log, r)
      BY <1>1, Zenon DEF AckStep
  <1>5. /\ r.type # "META" /\ r.type # "ENQUEUE" /\ r.type \notin {"NACK", "LEASE_EXPIRE"}
        /\ r.type # "DEDUP"
      BY <1>2
  <1>6. Replayed(ix, ix', r, now)
      BY <1>2, <1>3, <1>4, <1>5, Zenon DEF Replayed
  <1>7. QED
      BY <1>4, <1>6

LEMMA AttemptReplayed ==
    ASSUME TypeInv, NEW id \in Ids, NEW r \in LogRecord, AttemptStep(id, r)
    PROVE  log' = Append(log, r) /\ Replayed(ix, ix', r, now)
  <1>1. PICK m, n : m = ix.msgs[id] /\ n = ix'.msgs[id]
      OBVIOUS
  <1>2. /\ r.type \in {"NACK", "LEASE_EXPIRE"} /\ r.id = id
        /\ DOMAIN ix'.msgs = DOMAIN ix.msgs /\ SameBut(ix, ix', id)
        /\ n.dedup = m.dedup /\ n.seq = m.seq /\ n.prio = m.prio
        /\ n.created = m.created /\ n.attempts = m.attempts + 1
        /\ IF m.attempts + 1 >= MaxAttempts
           THEN n.state = "dead" /\ n.visible = m.visible
           ELSE n.state = "ready" /\ n.visible = now
        /\ ix'.dedup = ix.dedup /\ ix'.nextSeq = ix.nextSeq
      BY <1>1, AttemptFacts
  <1>3. id \in DOMAIN ix.msgs /\ log' = Append(log, r)
      BY Zenon DEF AttemptStep
  <1>4. r.type # "META" /\ r.type # "ENQUEUE" /\ r.type # "ACK" /\ r.type # "DEDUP"
      BY <1>2
  <1>5. Replayed(ix, ix', r, now)
      BY <1>1, <1>2, <1>3, <1>4, Zenon DEF Replayed
  <1>6. QED
      BY <1>3, <1>5

\* The counter never falls in a replay.
LEMMA SeqReplayed ==
    ASSUME NEW i \in Index(Ids), NEW j, NEW r \in LogRecord, NEW t, Replayed(i, j, r, t), i.nextSeq >= 1
    PROVE  j.nextSeq >= 1
  <1>0. /\ r.type \in {"META", "ENQUEUE", "ACK", "NACK", "LEASE_EXPIRE", "DEDUP"}
        /\ i.nextSeq \in Nat
        /\ r.type = "META" => r.nextSeq \in Nat
        /\ r.type = "ENQUEUE" => r.m.seq \in Nat
    <2>1. i.nextSeq \in Nat
        BY Fields
    <2>2. QED
        BY <2>1, RecordFacts DEF Encoded
  <1>1. CASE r.type = "META"
    <2>1. j.nextSeq = IF r.nextSeq > i.nextSeq THEN r.nextSeq ELSE i.nextSeq
        BY <1>1, Zenon DEF Replayed
    <2>2. QED
        BY <1>0, <1>1, <2>1
  <1>2. CASE r.type = "ENQUEUE"
    <2>1. j.nextSeq = IF r.m.seq >= i.nextSeq THEN r.m.seq + 1 ELSE i.nextSeq
        BY <1>2, Zenon DEF Replayed
    <2>2. QED
        BY <1>0, <1>2, <2>1
  <1>3. CASE r.type \in {"ACK", "NACK", "LEASE_EXPIRE", "DEDUP"}
    <2>1. j.nextSeq = i.nextSeq
        BY <1>3 DEF Replayed
    <2>2. QED
        BY <2>1
  <1>4. QED
      BY <1>0, <1>1, <1>2, <1>3

LEMMA EchoAppend ==
    ASSUME TypeInv, TypeInv', LiveInv, LiveInv', EchoInv, phase = "up",
           NEW r \in LogRecord, log' = Append(log, r), Replayed(ix, ix', r, now)
    PROVE  Echoes(log', Len(log'), ix', now)
  <1>0. /\ log \in Seq(LogRecord) /\ Len(log) \in Nat /\ now \in Nat
        /\ ix \in Index(Ids) /\ ix' \in Index(Ids)
      BY DEF TypeInv, StoreOK, ClockOK, IndexOK
  <1>1. /\ Len(log') = Len(log) + 1 /\ (\A k \in 1 .. Len(log) : log'[k] = log[k])
        /\ log'[Len(log) + 1] = r
      BY <1>0, AppendFacts
  <1>2. PICK s, n : s = log' /\ n = Len(log)
      OBVIOUS
  <1>3. Sound(log)'
      BY SoundNext
  <1>4. Sound(s)
      BY <1>2, <1>3 DEF Sound
  <1>5. Echoes(s, n, ix, now)
      BY <1>0, <1>1, <1>2, EchoSame DEF EchoInv
  <1>6. n \in 0 .. Len(s) - 1 /\ s[n + 1] = r
      BY <1>0, <1>1, <1>2
  <1>7. PICK i \in Index(Ids), j \in Index(Ids) : i = ix /\ j = ix'
      BY <1>0
  <1>8. Echoes(s, n, i, now) /\ Replayed(i, j, s[n + 1], now)
      BY <1>5, <1>6, <1>7
  <1>9. Echoes(s, n + 1, j, now)
      BY <1>0, <1>4, <1>6, <1>8, EchoNext
  <1>10. QED
      BY <1>1, <1>2, <1>7, <1>9

LEMMA EchoStep ==
    ASSUME TypeInv, TypeInv', LiveInv, LiveInv', RecordInv, CountInv, BirthInv, EntryInv,
           MemoryInv, ApartInv, EchoInv, Classified
    PROVE  EchoInv'
  <1>0. /\ log \in Seq(LogRecord) /\ Len(log) \in Nat /\ now \in Nat /\ now' \in Nat
        /\ ix \in Index(Ids) /\ ix' \in Index(Ids) /\ pos \in 0 .. Len(log)
        /\ Len(log) \in 0 .. Len(log)
      BY DEF TypeInv, StoreOK, ClockOK, IndexOK
  <1>00. Sound(log) /\ (dir # "log" => Sound(snap)) /\ Len(snap) \in 0 .. Len(snap)
    <2>1. Len(snap) \in 0 .. Len(snap)
        BY DEF TypeInv, StoreOK
    <2>2. QED
        BY <2>1, SoundLogs
  <1>1. CASE Quiet
    <2>1. /\ UNCHANGED <<log, snap, phase, pos>> /\ (dir' # "log" => dir # "log")
          /\ now' \in now .. MaxTime /\ Calm(ix, ix', now)
        BY <1>1, Zenon DEF Quiet
    <2>2. Alike(ix, ix', now) /\ ix'.nextSeq = ix.nextSeq /\ now' >= now
      <3>1. Alike(ix, ix', now)
          BY <1>0, <2>1, AlikeCalm
      <3>2. QED
          BY <1>0, <2>1, <3>1, QueueAssumption DEF Calm
    <2>3. PICK j \in Index(Ids), u \in Nat : j = ix' /\ u = now' /\ u >= now
        BY <1>0, <2>2
    <2>4. ASSUME NEW s, Sound(s), NEW n \in 0 .. Len(s), Echoes(s, n, ix, now)
          PROVE  Echoes(s, n, j, u)
      <3>1. Echoes(s, n, j, now)
          BY <2>2, <2>3, <2>4, EchoAlike
      <3>2. QED
          BY <1>0, <2>3, <2>4, <3>1, EchoLater
    <2>5. QED
        BY <1>0, <1>00, <2>1, <2>2, <2>3, <2>4 DEF EchoInv
  <1>2. CASE \E S \in SUBSET Ids : Serve(S)
    <2>1. PICK S \in SUBSET Ids : Serve(S)
        BY <1>2
    <2>2. /\ UNCHANGED <<log, snap, phase, pos, dir, now>> /\ ix'.nextSeq = ix.nextSeq
        BY <2>1, Zenon DEF Serve
    <2>3. Alike(ix, ix', now)
        BY <2>1, AlikeServed
    <2>4. \A s, n : Echoes(s, n, ix, now) => Echoes(s, n, ix', now)
        BY <2>3, EchoAlike
    <2>5. QED
        BY <2>2, <2>4 DEF EchoInv
  <1>3. CASE \E w \in waiting : Return(w)
    <2>1. UNCHANGED <<log, snap, phase, pos, dir, now, ix>>
        BY <1>3, Zenon DEF Return, logV, disk, proc
    <2>2. QED
        BY <2>1 DEF EchoInv
  <1>4. ASSUME NEW r \in LogRecord, log' = Append(log, r), Replayed(ix, ix', r, now),
               phase = "up", phase' = "up", dir' = "log", now' = now
        PROVE  EchoInv'
    <2>1. Echoes(log', Len(log'), ix', now)
        BY <1>4, EchoAppend
    <2>2. ix'.nextSeq >= 1
        BY <1>0, <1>4, SeqReplayed DEF EchoInv
    <2>3. QED
        BY <1>4, <2>1, <2>2 DEF EchoInv
  <1>5. CASE \E d \in DedupId \cup {NoDedup}, p \in Priority, delay \in Delay :
               EnqueueStep(d, p, delay)
    <2>1. PICK d \in DedupId \cup {NoDedup}, p \in Priority, delay \in Delay :
               EnqueueStep(d, p, delay)
        BY <1>5
    <2>2. phase = "up" /\ phase' = "up" /\ dir' = "log" /\ now' = now
        BY <2>1, Zenon DEF EnqueueStep
    <2>3. \E r \in LogRecord : log' = Append(log, r) /\ Replayed(ix, ix', r, now)
        BY <2>1, EnqueueReplayed
    <2>4. QED
        BY <1>4, <2>2, <2>3
  <1>6. CASE \E id \in Ids : AckStep(id)
    <2>1. PICK id \in Ids : AckStep(id)
        BY <1>6
    <2>2. phase = "up" /\ phase' = "up" /\ dir' = "log" /\ now' = now
        BY <2>1, Zenon DEF AckStep
    <2>3. \E r \in LogRecord : log' = Append(log, r) /\ Replayed(ix, ix', r, now)
        BY <2>1, AckReplayed
    <2>4. QED
        BY <1>4, <2>2, <2>3
  <1>7. CASE \E id \in Ids, r \in LogRecord : AttemptStep(id, r)
    <2>1. PICK id \in Ids, r \in LogRecord : AttemptStep(id, r)
        BY <1>7
    <2>2. phase = "up" /\ phase' = "up" /\ dir' = "log" /\ now' = now
        BY <2>1, Zenon DEF AttemptStep
    <2>3. log' = Append(log, r) /\ Replayed(ix, ix', r, now)
        BY <2>1, AttemptReplayed
    <2>4. QED
        BY <1>4, <2>2, <2>3
  <1>8. CASE InstallStep
    <2>1. Snapshot(snap') /\ UNCHANGED <<log, phase, pos, ix, now>> /\ phase = "up"
        BY <1>8, Zenon DEF InstallStep
    <2>2. PICK s : s = snap'
        OBVIOUS
    <2>3. PICK a, b, L, R : Written(s, a, b, L, R)
        BY <2>1, <2>2, SnapshotWritten
    <2>4. Echoes(s, Len(s), ix, now)
        BY <2>1, <2>3, EchoSnapshot DEF EchoInv
    <2>5. QED
        BY <2>1, <2>2, <2>4 DEF EchoInv
  <1>9. CASE ReopenStep
    <2>1. /\ log' = snap /\ dir = "snap" /\ dir' = "log" /\ UNCHANGED <<phase, ix, now>>
          /\ phase = "up"
        BY <1>9, Zenon DEF ReopenStep
    <2>2. QED
        BY <2>1 DEF EchoInv
  <1>10. CASE StopStep
    <2>1. dir' = "log" /\ phase' = "down" /\ ix' = EmptyIndex
        BY <1>10, StopFacts
    <2>2. ix'.nextSeq = 1
        BY <2>1, EmptyIndexFacts
    <2>3. QED
        BY <2>1, <2>2 DEF EchoInv
  <1>11. CASE Load
    <2>1. UNCHANGED <<log, snap, dir, now>>
        BY <1>11, LoadCases, Zenon DEF LoadStep, RefusedStep
    <2>2. dir = "log"
        BY <1>11, LoadCases, Zenon DEF LoadStep, RefusedStep, TypeInv, ModeOK
    <2>3. CASE LoadStep
      <3>1. PICK r : r = log[pos + 1]
          OBVIOUS
      <3>2. r \in LogRecord /\ Replayed(ix, ix', r, now)
          BY <2>3, <3>1, LoadFacts
      <3>3. phase = "loading" /\ phase' = "loading" /\ pos' = pos + 1 /\ pos < Len(log)
          BY <2>3, Zenon DEF LoadStep
      <3>4. pos \in 0 .. Len(log) - 1 /\ Echoes(log, pos, ix, now)
          BY <1>0, <3>3 DEF EchoInv
      <3>5. PICK i \in Index(Ids), j \in Index(Ids) : i = ix /\ j = ix'
          BY <1>0
      <3>6. Echoes(log, pos, i, now) /\ Replayed(i, j, log[pos + 1], now)
          BY <3>1, <3>2, <3>4, <3>5
      <3>7. Echoes(log, pos + 1, j, now)
          BY <1>0, <1>00, <3>4, <3>6, EchoNext
      <3>8. ix'.nextSeq >= 1
          BY <1>0, <3>2, SeqReplayed DEF EchoInv
      <3>9. QED
          BY <2>1, <2>2, <3>3, <3>5, <3>7, <3>8 DEF EchoInv
    <2>4. CASE ~LoadStep
      <3>1. /\ ix' = ix
            /\ \/ phase = "down" /\ phase' = "loading" /\ pos' = 0
               \/ phase' = "refused"
               \/ phase = "loading" /\ phase' = "up" /\ pos = Len(log)
          BY <1>11, <2>4, LoadCases, Zenon DEF RefusedStep
      <3>2. phase = "down" => Echoes(log, 0, ix, now)
        <4>1. phase = "down" => ix = EmptyIndex
            BY DEF LiveInv
        <4>2. Echoes(log, 0, EmptyIndex, now)
            BY AlikeSelf DEF Echoes, IndexRun
        <4>3. QED
            BY <4>1, <4>2
      <3>3. QED
          BY <2>1, <2>2, <3>1, <3>2 DEF EchoInv
    <2>5. QED
        BY <2>3, <2>4
  <1>12. QED
      BY <1>1, <1>2, <1>3, <1>5, <1>6, <1>7, <1>8, <1>9, <1>10, <1>11 DEF Classified

LEMMA EchoAlways == Spec => []EchoInv
  <1>1. Init => EchoInv
    <2> SUFFICES ASSUME Init PROVE EchoInv
        OBVIOUS
    <2>1. log = <<Meta(0)>> /\ dir = "log" /\ phase = "up" /\ ix = EmptyIndex
        BY Zenon DEF Init
    <2>2. Len(log) = 1 /\ log[1].type = "META" /\ log[1].nextSeq = 0
        BY <2>1 DEF Meta
    <2>3. ASSUME NEW f, IndexRun(log, 1, f, now)
          PROVE  Alike(f[1], EmptyIndex, now)
      <3>1. 0 \in 0 .. 1 - 1 /\ 0 + 1 = 1
          OBVIOUS
      <3>2. f[0] = EmptyIndex /\ Replayed(f[0], f[1], log[1], now)
          BY <2>3, <3>1 DEF IndexRun
      <3>3. /\ f[1].msgs = EmptyIndex.msgs /\ f[1].dedup = EmptyIndex.dedup
            /\ f[1].nextSeq = IF log[1].nextSeq > EmptyIndex.nextSeq THEN log[1].nextSeq
                              ELSE EmptyIndex.nextSeq
          BY <2>2, <3>2, Zenon DEF Replayed
      <3>4. f[1].nextSeq = EmptyIndex.nextSeq
          BY <2>2, <3>3, EmptyIndexFacts
      <3>5. QED
          BY <3>3, <3>4, Zenon DEF Alike, AlikeMsg, OpenIn
    <2>4. QED
        BY <2>1, <2>2, <2>3, EmptyIndexFacts DEF EchoInv, Echoes
  <1>2. /\ TypeInv /\ TypeInv' /\ LiveInv /\ LiveInv' /\ RecordInv /\ CountInv /\ BirthInv
        /\ EntryInv /\ MemoryInv /\ ApartInv /\ EchoInv /\ [Next]_vars
        => EchoInv'
      BY Classify, EchoStep
  <1>3. QED
      BY <1>1, <1>2, TypeInvariant, LiveAlways, RecordAlways, CountAlways, BirthAlways,
         EntryAlways, MemoryAlways, ApartAlways, PTL DEF Spec

\* The log order "is what makes replay reproduce exactly the state the crash
\* interrupted" (the comment on type Queue of queue.go): while the queue runs, the
\* records appended so far, and a snapshot that Compact has renamed, replay to the
\* index in memory, in everything a restart keeps.
THEOREM ReplayReproduces == Spec => []ReplayReproducesIndex
  <1>1. TypeInv /\ LiveInv /\ EchoInv => ReplayReproducesIndex
    <2> SUFFICES ASSUME TypeInv, LiveInv, EchoInv, phase = "up",
                        NEW s \in {log} \cup (IF dir = "log" THEN {} ELSE {snap})
                 PROVE  Persistent(Recovered(s)) = Persistent(ix)
        BY DEF ReplayReproducesIndex
    <2>1. Sound(s) /\ Echoes(s, Len(s), ix, now)
        BY SoundLogs DEF EchoInv
    <2>2. now \in Nat /\ ix \in Index(Ids) /\ Len(s) \in 0 .. Len(s)
        BY <2>1 DEF TypeInv, ClockOK, IndexOK, Sound
    <2>3. PICK f : IndexRun(s, Len(s), f, now) /\ Recovered(s) = f[Len(s)]
        BY <2>1, <2>2, RecoveredRun
    <2>4. PICK i : i = f[Len(s)]
        OBVIOUS
    <2>5. i \in Index(Ids) /\ Alike(i, ix, now)
        BY <2>1, <2>2, <2>3, <2>4, Zenon DEF IndexRun, Echoes
    <2>6. Persistent(i) = Persistent(ix)
        BY <2>2, <2>5, AlikePersistent
    <2>7. QED
        BY <2>3, <2>4, <2>6
  <1>2. QED
      BY <1>1, TypeInvariant, LiveAlways, EchoAlways, PTL

-----------------------------------------------------------------------------
(***************************************************************************)
(* Attempts, as the log has them.                                          *)
(***************************************************************************)
\* The records among the first n of s that use up an attempt of x.
TriedAt(s, n, x) ==
    {k \in 1 .. n : s[k].type \in {"NACK", "LEASE_EXPIRE"} /\ s[k].id = x}

\* The attempts of the message that record b writes, after n records.
Tries(s, n, b) == s[b].m.attempts + Cardinality(TriedAt(s, n, s[b].m.id))

LEMMA TriedCounts ==
    ASSUME NEW s, NEW n \in Nat, NEW x
    PROVE  /\ IsFiniteSet(TriedAt(s, n, x)) /\ Cardinality(TriedAt(s, n, x)) \in Nat
           /\ \A m \in 0 .. n : Cardinality(TriedAt(s, m, x)) <= Cardinality(TriedAt(s, n, x))
  <1>1. IsFiniteSet(1 .. n)
      BY FS_Interval
  <1>2. TriedAt(s, n, x) \subseteq 1 .. n
      BY DEF TriedAt
  <1>3. IsFiniteSet(TriedAt(s, n, x))
      BY <1>1, <1>2, FS_Subset
  <1>4. Cardinality(TriedAt(s, n, x)) \in Nat
      BY <1>3, FS_CardinalityType
  <1>5. ASSUME NEW m \in 0 .. n
        PROVE  Cardinality(TriedAt(s, m, x)) <= Cardinality(TriedAt(s, n, x))
    <2>1. TriedAt(s, m, x) \subseteq TriedAt(s, n, x)
        BY DEF TriedAt
    <2>2. QED
        BY <1>3, <2>1, FS_Subset
  <1>6. QED
      BY <1>3, <1>4, <1>5

LEMMA TriedNext ==
    ASSUME NEW s, NEW n \in Nat, NEW x
    PROVE  Cardinality(TriedAt(s, n + 1, x)) =
             IF s[n + 1].type \in {"NACK", "LEASE_EXPIRE"} /\ s[n + 1].id = x
             THEN Cardinality(TriedAt(s, n, x)) + 1 ELSE Cardinality(TriedAt(s, n, x))
  <1>1. CASE s[n + 1].type \in {"NACK", "LEASE_EXPIRE"} /\ s[n + 1].id = x
    <2>1. TriedAt(s, n + 1, x) = TriedAt(s, n, x) \cup {n + 1} /\ n + 1 \notin TriedAt(s, n, x)
        BY <1>1 DEF TriedAt
    <2>2. IsFiniteSet(TriedAt(s, n, x))
        BY TriedCounts
    <2>3. Cardinality(TriedAt(s, n, x) \cup {n + 1}) = Cardinality(TriedAt(s, n, x)) + 1
        BY <2>1, <2>2, FS_AddElement
    <2>4. QED
        BY <1>1, <2>1, <2>3
  <1>2. CASE ~(s[n + 1].type \in {"NACK", "LEASE_EXPIRE"} /\ s[n + 1].id = x)
    <2>1. TriedAt(s, n + 1, x) = TriedAt(s, n, x)
        BY <1>2 DEF TriedAt
    <2>2. QED
        BY <1>2, <2>1
  <1>3. QED
      BY <1>1, <1>2

LEMMA TriedSame ==
    ASSUME NEW s, NEW u, NEW n \in Nat, \A k \in 1 .. n : u[k] = s[k], NEW x
    PROVE  TriedAt(u, n, x) = TriedAt(s, n, x)
  BY DEF TriedAt

\* A message is not tried before it is enqueued.
LEMMA TriedBorn ==
    ASSUME NEW s, Sound(s), NEW n \in 0 .. Len(s), NEW x, x \notin Enq(s, n)
    PROVE  TriedAt(s, n, x) = {}
  <1>0. Len(s) \in Nat /\ n \in Nat /\ Legal(s)
      BY DEF Sound
  <1> SUFFICES ASSUME NEW k \in TriedAt(s, n, x) PROVE FALSE
      OBVIOUS
  <1>1. k \in 1 .. n /\ k \in 1 .. Len(s) /\ s[k].type \in {"NACK", "LEASE_EXPIRE"} /\ s[k].id = x
      BY <1>0 DEF TriedAt
  <1>2. x \in Live(s, k - 1)
      BY <1>0, <1>1 DEF Legal
  <1>3. k - 1 \in 0 .. n
      BY <1>0, <1>1
  <1>4. x \in Enq(s, n)
      BY <1>0, <1>2, <1>3, Growing DEF Live
  <1>5. QED
      BY <1>4

\* What replay counts is what the log says.
LEMMA RunTries ==
    ASSUME NEW s, Sound(s), NEW n \in 0 .. Len(s), NEW f, NEW t, IndexRun(s, n, f, t),
           NEW b \in 1 .. n, s[b].type = "ENQUEUE", s[b].m.id \in DOMAIN f[n].msgs
    PROVE  f[n].msgs[s[b].m.id].attempts = Tries(s, n, b)
  <1> DEFINE Good(m) == b \in 1 .. m /\ s[b].m.id \in DOMAIN f[m].msgs
                          => f[m].msgs[s[b].m.id].attempts = Tries(s, m, b)
             T == {m \in 0 .. n : Good(m)}
  <1>0. Len(s) \in Nat /\ n \in Nat /\ s \in Seq(LogRecord)
      BY DEF Sound
  <1>1. 0 \in T
      BY <1>0
  <1>2. ASSUME NEW m \in 0 .. n - 1, m \in T
        PROVE  m + 1 \in T
    <2>0. Good(m)
        BY <1>2
    <2>1. /\ m \in 0 .. Len(s) - 1 /\ m \in 0 .. n /\ m + 1 \in 0 .. n /\ m \in 0 .. Len(s)
          /\ m \in Nat
        BY <1>0
    <2>2. PICK i, j, c, x : i = f[m] /\ j = f[m + 1] /\ c = m + 1 /\ x = s[b].m.id
        OBVIOUS
    <2>3. /\ i \in Index(Ids) /\ j \in Index(Ids) /\ DOMAIN i.msgs = Live(s, m)
          /\ DOMAIN j.msgs = Live(s, m + 1) /\ Replayed(i, j, s[c], t)
        BY <2>1, <2>2, Zenon DEF IndexRun
    <2>4. PICK r \in LogRecord : r = s[c]
        BY <2>1, <2>2, <2>3, SoundAccepted
    <2>5. r.type \in {"META", "ENQUEUE", "ACK", "NACK", "LEASE_EXPIRE", "DEDUP"}
        BY RecordFacts
    <2>6. b \in 1 .. m /\ x \in DOMAIN i.msgs => i.msgs[x].attempts = Tries(s, m, b)
        BY <2>0, <2>2
    <2> SUFFICES ASSUME b \in 1 .. c, x \in DOMAIN j.msgs
                 PROVE  j.msgs[x].attempts = Tries(s, c, b)
        BY <2>1, <2>2, Zenon
    <2> HIDE DEF T, Good
    <2>7. Tries(s, m, b) = s[b].m.attempts + Cardinality(TriedAt(s, m, x))
          /\ Tries(s, c, b) = s[b].m.attempts + Cardinality(TriedAt(s, c, x))
        BY <2>2 DEF Tries
    <2>8. Cardinality(TriedAt(s, c, x)) =
             IF r.type \in {"NACK", "LEASE_EXPIRE"} /\ r.id = x
             THEN Cardinality(TriedAt(s, m, x)) + 1 ELSE Cardinality(TriedAt(s, m, x))
        BY <2>1, <2>2, <2>4, TriedNext
    <2>9. Cardinality(TriedAt(s, m, x)) \in Nat
        BY <2>1, TriedCounts
    <2>10. s[b] \in LogRecord /\ s[b].m.attempts \in Nat
      <3>1. s[b] \in LogRecord
          BY <1>0
      <3>2. QED
          BY <3>1, RecordFacts DEF Encoded
    <2>11. CASE b = c
      <3>1. r = s[b] /\ r.type = "ENQUEUE" /\ r.m.id = x
          BY <2>2, <2>4, <2>11
      <3>2. x \notin Enq(s, m)
        <4>1. r = s[m + 1] /\ r.type = "ENQUEUE"
            BY <2>2, <2>4, <3>1
        <4>2. r.m.id \notin Enq(s, m)
            BY <1>0, <2>1, <4>1, LiveNext DEF Sound
        <4>3. QED
            BY <3>1, <4>2
      <3>3. TriedAt(s, m, x) = {}
          BY <2>1, <3>2, TriedBorn
      <3>4. Cardinality(TriedAt(s, c, x)) = 0
          BY <2>8, <3>1, <3>3, FS_EmptySet
      <3>5. SameEntry(r.m, j.msgs[x])
          BY <2>3, <2>4, <3>1, Zenon DEF Replayed
      <3>6. j.msgs[x].attempts = s[b].m.attempts
          BY <3>1, <3>5 DEF SameEntry
      <3>7. QED
          BY <2>7, <2>10, <3>4, <3>6
    <2>12. CASE b # c
      <3>1. b \in 1 .. m
          BY <2>1, <2>2, <2>12
      <3>2. x \in Enq(s, m)
          BY <2>2, <3>1 DEF Enq
      <3>3. CASE r.type = "ENQUEUE"
        <4>1. r.m.id \notin Enq(s, m)
            BY <1>0, <2>1, <2>2, <2>4, <3>3, LiveNext DEF Sound
        <4>2. x # r.m.id
            BY <3>2, <4>1
        <4>3. DOMAIN j.msgs = DOMAIN i.msgs \cup {r.m.id} /\ SameBut(i, j, r.m.id)
            BY <2>3, <2>4, <3>3, Zenon DEF Replayed
        <4>4. x \in DOMAIN i.msgs /\ j.msgs[x] = i.msgs[x]
            BY <4>2, <4>3 DEF SameBut
        <4>5. QED
            BY <2>6, <2>7, <2>8, <3>1, <3>3, <4>4
      <3>4. CASE r.type = "ACK"
        <4>1. DOMAIN j.msgs = DOMAIN i.msgs \ {r.id} /\ SameBut(i, j, r.id)
            BY <2>3, <2>4, <3>4, Zenon DEF Replayed
        <4>2. x \in DOMAIN i.msgs /\ j.msgs[x] = i.msgs[x]
            BY <4>1 DEF SameBut
        <4>3. QED
            BY <2>6, <2>7, <2>8, <3>1, <3>4, <4>2
      <3>5. CASE r.type \in {"META", "DEDUP"}
        <4>1. j.msgs = i.msgs
            BY <2>3, <2>4, <3>5 DEF Replayed
        <4>2. QED
            BY <2>6, <2>7, <2>8, <3>1, <3>5, <4>1
      <3>6. CASE r.type \in {"NACK", "LEASE_EXPIRE"}
        <4>1. /\ DOMAIN j.msgs = DOMAIN i.msgs /\ SameBut(i, j, r.id)
              /\ j.msgs[r.id].attempts = i.msgs[r.id].attempts + 1
            BY <2>3, <2>4, <3>6, Zenon DEF Replayed
        <4>2. CASE r.id = x
            BY <2>6, <2>7, <2>8, <2>9, <2>10, <3>1, <3>6, <4>1, <4>2, SMTT(60)
        <4>3. CASE r.id # x
          <5>1. j.msgs[x] = i.msgs[x]
              BY <4>1, <4>3 DEF SameBut
          <5>2. QED
              BY <2>6, <2>7, <2>8, <3>1, <4>1, <4>3, <5>1
        <4>4. QED
            BY <4>2, <4>3
      <3>7. QED
          BY <2>5, <3>3, <3>4, <3>5, <3>6
    <2>13. QED
        BY <2>11, <2>12
  <1>3. \A k \in 0 .. n : k \in T
    <2> HIDE DEF T, Good
    <2>1. QED
        BY <1>0, <1>1, <1>2, Induct
  <1>4. Good(n)
      BY <1>0, <1>3
  <1>5. QED
      BY <1>4

LEMMA EchoTries ==
    ASSUME NEW s, Sound(s), NEW n \in 0 .. Len(s), NEW i, NEW t \in Nat, Echoes(s, n, i, t),
           NEW b \in 1 .. n, s[b].type = "ENQUEUE", s[b].m.id \in DOMAIN i.msgs
    PROVE  i.msgs[s[b].m.id].attempts = Tries(s, n, b)
  <1>1. PICK f : IndexRun(s, n, f, t)
      BY RunExists
  <1>2. Alike(f[n], i, t)
      BY <1>1 DEF Echoes
  <1>3. PICK x, j : x = s[b].m.id /\ j = f[n]
      OBVIOUS
  <1>4. x \in DOMAIN j.msgs /\ AlikeMsg(j.msgs[x], i.msgs[x], t)
      BY <1>2, <1>3 DEF Alike
  <1>5. j.msgs[x].attempts = Tries(s, n, b)
      BY <1>1, <1>3, <1>4, RunTries
  <1>6. QED
      BY <1>3, <1>4, <1>5 DEF AlikeMsg

-----------------------------------------------------------------------------
\* Only a message without attempts left is dead, in a record as in the index,
\* and replay leases nothing.
Buried(s) ==
    \A k \in 1 .. Len(s) :
        s[k].type = "ENQUEUE" /\ s[k].m.dead => s[k].m.attempts >= MaxAttempts

BuriedInv ==
    /\ Buried(log) /\ Buried(snap)
    /\ \A x \in DOMAIN ix.msgs :
         /\ ix.msgs[x].state = "dead" => ix.msgs[x].attempts >= MaxAttempts
         /\ phase # "up" => ix.msgs[x].state # "inflight"

LEMMA BuriedAppend ==
    ASSUME NEW s \in Seq(LogRecord), Buried(s), NEW r \in LogRecord,
           r.type = "ENQUEUE" /\ r.m.dead => r.m.attempts >= MaxAttempts, NEW u, u = Append(s, r)
    PROVE  Buried(u)
  <1>1. /\ Len(u) = Len(s) + 1 /\ \A k \in 1 .. Len(s) : u[k] = s[k]
        /\ u[Len(s) + 1] = r
      BY AppendFacts
  <1>2. QED
      BY <1>1 DEF Buried

LEMMA BuriedPrefix ==
    ASSUME NEW s \in Seq(LogRecord), Buried(s), NEW n \in 0 .. Len(s), NEW u, u = SubSeq(s, 1, n)
    PROVE  Buried(u)
  <1>1. Len(u) = n /\ \A k \in 1 .. n : u[k] = s[k]
      BY PrefixFacts
  <1>2. QED
      BY <1>1 DEF Buried

LEMMA BuriedStep ==
    ASSUME TypeInv, BuriedInv, Classified
    PROVE  BuriedInv'
  <1>0. /\ log \in Seq(LogRecord) /\ durable \in 0 .. Len(log) /\ MaxAttempts \in Nat \ {0}
        /\ ix \in Index(Ids)
      BY ConfigAssumption DEF TypeInv, StoreOK, ValidConfig, IndexOK
  <1>00. \A x \in DOMAIN ix.msgs : ix.msgs[x].attempts \in Nat
      BY <1>0, Fields DEF Message
  <1>1. CASE Quiet
    <2>1. UNCHANGED <<log, snap, phase>> /\ Calm(ix, ix', now)
        BY <1>1, Zenon DEF Quiet
    <2>2. DOMAIN ix'.msgs = DOMAIN ix.msgs
        BY <2>1, Zenon DEF Calm
    <2>3. ASSUME NEW x \in DOMAIN ix.msgs
          PROVE  /\ ix'.msgs[x].attempts = ix.msgs[x].attempts
                 /\ \/ ix'.msgs[x].state = ix.msgs[x].state
                    \/ ix'.msgs[x].state = "ready"
        BY <2>1, Zenon DEF Calm, SameEntry
    <2>4. QED
        BY <2>1, <2>2, <2>3 DEF BuriedInv
  <1>2. CASE \E S \in SUBSET Ids : Serve(S)
    <2>1. PICK S \in SUBSET Ids : Serve(S)
        BY <1>2
    <2>2. UNCHANGED <<log, snap, phase>> /\ phase = "up" /\ DOMAIN ix'.msgs = DOMAIN ix.msgs
        BY <2>1, Zenon DEF Serve
    <2>3. ASSUME NEW x \in DOMAIN ix.msgs
          PROVE  /\ ix'.msgs[x].attempts = ix.msgs[x].attempts
                 /\ \/ ix'.msgs[x].state = ix.msgs[x].state
                    \/ ix'.msgs[x].state = "ready"
                    \/ ix'.msgs[x].state = "inflight"
        BY <2>1, Zenon DEF Serve, SameEntry
    <2>4. QED
        BY <2>2, <2>3 DEF BuriedInv
  <1>3. CASE \E w \in waiting : Return(w)
    <2>1. UNCHANGED <<log, snap, ix, phase>>
        BY <1>3, Zenon DEF Return, logV, disk, proc
    <2>2. QED
        BY <2>1 DEF BuriedInv
  <1>4. ASSUME NEW d \in DedupId \cup {NoDedup}, NEW p \in Priority, NEW delay \in Delay,
               EnqueueStep(d, p, delay)
        PROVE  BuriedInv'
    <2> DEFINE id == Len(born) + 1
               m == Fresh(d, p, delay)
               r == EnqueueRec(id, m)
    <2>1. /\ r \in LogRecord /\ m.state = "ready"
          /\ DOMAIN ix'.msgs = DOMAIN ix.msgs \cup {id}
          /\ SameBut(ix, ix', id) /\ ix'.msgs[id].state \in {"ready", "delayed"}
          /\ log' = Append(log, r)
        BY <1>4, EnqueueFacts
    <2>2. r.m.dead = (m.state = "dead")
        BY EncodeFacts
    <2>3. snap' = snap /\ phase' = "up"
        BY <1>4, Zenon DEF EnqueueStep
    <2> HIDE DEF m, id, r
    <2>4. ~r.m.dead
        BY <2>1, <2>2
    <2>5. Buried(log')
        BY <1>0, <2>1, <2>4, BuriedAppend DEF BuriedInv
    <2>6. QED
        BY <2>1, <2>3, <2>5 DEF BuriedInv, SameBut
  <1>5. ASSUME NEW id \in Ids, AckStep(id)
        PROVE  BuriedInv'
    <2>1. AckRec(id) \in LogRecord /\ AckRec(id).type = "ACK"
        BY <1>5, AckFacts DEF AckRec
    <2>2. log' = Append(log, AckRec(id)) /\ snap' = snap /\ phase' = "up"
        BY <1>5, Zenon DEF AckStep
    <2>3. Buried(log')
        BY <1>0, <2>1, <2>2, BuriedAppend DEF BuriedInv
    <2>4. \A x \in DOMAIN ix'.msgs : x \in DOMAIN ix.msgs /\ ix'.msgs[x] = ix.msgs[x]
        BY <1>5, AckFacts DEF SameBut
    <2>5. QED
        BY <2>2, <2>3, <2>4 DEF BuriedInv
  <1>6. ASSUME NEW id \in Ids, NEW r \in LogRecord, AttemptStep(id, r)
        PROVE  BuriedInv'
    <2>1. /\ r.type \in {"NACK", "LEASE_EXPIRE"}
          /\ DOMAIN ix'.msgs = DOMAIN ix.msgs /\ SameBut(ix, ix', id)
          /\ ix'.msgs[id].attempts = ix.msgs[id].attempts + 1
          /\ IF ix.msgs[id].attempts + 1 >= MaxAttempts
             THEN ix'.msgs[id].state = "dead" ELSE ix'.msgs[id].state = "ready"
        BY <1>6, AttemptFacts
    <2>2. log' = Append(log, r) /\ snap' = snap /\ phase' = "up" /\ id \in DOMAIN ix.msgs
        BY <1>6, Zenon DEF AttemptStep
    <2>3. Buried(log')
        BY <1>0, <2>1, <2>2, BuriedAppend DEF BuriedInv
    <2>4. QED
        BY <1>0, <1>00, <2>1, <2>2, <2>3 DEF BuriedInv, SameBut
  <1>7. CASE InstallStep
    <2>1. Snapshot(snap') /\ UNCHANGED <<log, ix, phase>>
        BY <1>7, Zenon DEF InstallStep
    <2>2. PICK s : s = snap'
        OBVIOUS
    <2>3. PICK a, b, L, R : Written(s, a, b, L, R)
        BY <2>1, <2>2, SnapshotWritten
    <2>4. ASSUME NEW k \in 1 .. Len(s), s[k].type = "ENQUEUE", s[k].m.dead
          PROVE  s[k].m.attempts >= MaxAttempts
      <3>1. PICK i \in 1 .. a : /\ L[i] \in DOMAIN ix.msgs
                                /\ s[k] = EnqueueRec(L[i], ix.msgs[L[i]])
          BY <2>3, <2>4, SnapshotRecord
      <3>2. PICK m : m = ix.msgs[L[i]]
          OBVIOUS
      <3>3. s[k].m.attempts = m.attempts /\ s[k].m.dead = (m.state = "dead")
          BY <3>1, <3>2, EncodeFacts DEF SameEntry
      <3>4. m.state = "dead"
          BY <2>4, <3>3, Zenon
      <3>5. QED
          BY <3>1, <3>2, <3>3, <3>4 DEF BuriedInv
    <2>5. QED
        BY <2>1, <2>2, <2>4 DEF BuriedInv, Buried
  <1>8. CASE ReopenStep
    <2>1. log' = snap /\ snap' = <<>> /\ ix' = ix /\ phase' = phase
        BY <1>8, Zenon DEF ReopenStep
    <2>2. QED
        BY <2>1 DEF BuriedInv, Buried
  <1>9. CASE StopStep
    <2>1. snap' = <<>> /\ ix' = EmptyIndex
        BY <1>9, StopFacts
    <2>2. Buried(snap') /\ DOMAIN ix'.msgs = {}
        BY <2>1, EmptyIndexFacts DEF Buried
    <2>3. log' = snap \/ \E k \in durable .. Len(log) : log' = SubSeq(log, 1, k)
        BY <1>9, StopFacts
    <2>4. \A k \in durable .. Len(log) : k \in 0 .. Len(log)
        BY <1>0
    <2>5. Buried(log')
        BY <1>0, <2>3, <2>4, BuriedPrefix DEF BuriedInv
    <2>6. QED
        BY <2>2, <2>5 DEF BuriedInv
  <1>10. CASE Load
    <2>1. log' = log /\ snap' = snap
        BY <1>10, LoadCases, Zenon DEF LoadStep, RefusedStep
    <2>2. CASE LoadStep
      <3>1. PICK r : r = log[pos + 1]
          OBVIOUS
      <3>2. /\ r \in LogRecord /\ Replayed(ix, ix', r, now) /\ pos + 1 \in 1 .. Len(log)
          BY <2>2, <3>1, LoadFacts
      <3>3. r.type = "ENQUEUE" /\ r.m.dead => r.m.attempts >= MaxAttempts
          BY <3>1, <3>2 DEF BuriedInv, Buried
      <3>4. r.type \in {"META", "ENQUEUE", "ACK", "NACK", "LEASE_EXPIRE", "DEDUP"}
          BY <3>2, RecordFacts
      <3>5. phase # "up" /\ phase' = phase
          BY <2>2, Zenon DEF LoadStep
      <3>6. ASSUME NEW x \in DOMAIN ix'.msgs
            PROVE  /\ ix'.msgs[x].state = "dead" => ix'.msgs[x].attempts >= MaxAttempts
                   /\ ix'.msgs[x].state # "inflight"
        <4>1. CASE r.type \in {"META", "DEDUP"}
            BY <3>2, <3>5, <3>6, <4>1 DEF BuriedInv, Replayed
        <4>2. CASE r.type = "ENQUEUE"
          <5>1. CASE x = r.m.id
            <6>1. /\ SameEntry(r.m, ix'.msgs[x])
                  /\ ix'.msgs[x].state = IF r.m.dead THEN "dead"
                                         ELSE IF r.m.visible > now THEN "delayed" ELSE "ready"
                BY <3>2, <4>2, <5>1, Zenon DEF Replayed
            <6>2. ix'.msgs[x].attempts = r.m.attempts
                BY <6>1 DEF SameEntry
            <6>3. QED
                BY <3>3, <4>2, <6>1, <6>2
          <5>2. CASE x # r.m.id
              BY <3>2, <3>5, <3>6, <4>2, <5>2 DEF BuriedInv, Replayed, SameBut
          <5>3. QED
              BY <5>1, <5>2
        <4>3. CASE r.type = "ACK"
            BY <3>2, <3>5, <3>6, <4>3 DEF BuriedInv, Replayed, SameBut
        <4>4. CASE r.type \in {"NACK", "LEASE_EXPIRE"}
            BY <1>0, <1>00, <3>2, <3>5, <3>6, <4>4 DEF BuriedInv, Replayed, SameBut
        <4>5. QED
            BY <3>4, <4>1, <4>2, <4>3, <4>4
      <3>7. QED
          BY <2>1, <3>5, <3>6 DEF BuriedInv
    <2>3. CASE ~LoadStep
      <3>1. ix' = ix /\ phase # "up"
          BY <1>10, <2>3, LoadCases, Zenon DEF RefusedStep
      <3>2. QED
          BY <2>1, <3>1 DEF BuriedInv
    <2>4. QED
        BY <2>2, <2>3
  <1>11. QED
      BY <1>1, <1>2, <1>3, <1>4, <1>5, <1>6, <1>7, <1>8, <1>9, <1>10 DEF Classified

LEMMA BuriedAlways == Spec => [](SparedInv /\ BuriedInv)
  <1>1. Init => SparedInv /\ BuriedInv
    <2> SUFFICES ASSUME Init PROVE SparedInv /\ BuriedInv
        OBVIOUS
    <2>1. log = <<Meta(0)>> /\ snap = <<>> /\ ix = EmptyIndex
        BY Zenon DEF Init
    <2>2. Len(log) = 1 /\ log[1].type = "META" /\ Len(snap) = 0
        BY <2>1 DEF Meta
    <2>3. QED
        BY <2>1, <2>2, EmptyIndexFacts DEF SparedInv, Spared, BuriedInv, Buried
  <1>2. TypeInv /\ SparedInv /\ BuriedInv /\ [Next]_vars => SparedInv' /\ BuriedInv'
      BY Classify, SparedStep, BuriedStep
  <1>3. QED
      BY <1>1, <1>2, TypeInvariant, PTL DEF Spec

\* No message of a log is tried more often than allowed.
Capped(s) ==
    \A b \in 1 .. Len(s) : s[b].type = "ENQUEUE" => Tries(s, Len(s), b) <= MaxAttempts

CapInv == Capped(log) /\ (dir # "log" => Capped(snap))

\* The attempts of a live message, in the log and in memory.
LEMMA LiveTries ==
    ASSUME TypeInv, LiveInv, EchoInv, phase = "up",
           NEW b \in 1 .. Len(log), log[b].type = "ENQUEUE", log[b].m.id \in DOMAIN ix.msgs
    PROVE  ix.msgs[log[b].m.id].attempts = Tries(log, Len(log), b)
  <1>1. Sound(log) /\ Len(log) \in 0 .. Len(log) /\ now \in Nat
      BY SoundLogs DEF TypeInv, ClockOK, Sound
  <1>2. Echoes(log, Len(log), ix, now)
      BY DEF EchoInv
  <1>3. QED
      BY <1>1, <1>2, EchoTries

LEMMA LiveCapped ==
    ASSUME TypeInv, LiveInv, EchoInv, CapInv, phase = "up", NEW x \in DOMAIN ix.msgs
    PROVE  ix.msgs[x].attempts <= MaxAttempts
  <1>1. x \in Enq(log, Len(log))
      BY DEF LiveInv, Live
  <1>2. PICK b \in 1 .. Len(log) : log[b].type = "ENQUEUE" /\ log[b].m.id = x
      BY <1>1 DEF Enq
  <1>3. ix.msgs[x].attempts = Tries(log, Len(log), b)
      BY <1>2, LiveTries
  <1>4. QED
      BY <1>2, <1>3 DEF CapInv, Capped

LEMMA TriesTyped ==
    ASSUME NEW s \in Seq(LogRecord), NEW n \in Nat, NEW b \in 1 .. Len(s), s[b].type = "ENQUEUE"
    PROVE  /\ s[b].m.attempts \in Nat /\ Tries(s, n, b) \in Nat
           /\ \A m \in 0 .. n : Tries(s, m, b) <= Tries(s, n, b)
  <1>1. s[b].m.attempts \in Nat
    <2>1. s[b] \in LogRecord
        OBVIOUS
    <2>2. QED
        BY <2>1, RecordFacts DEF Encoded
  <1>2. PICK x : x = s[b].m.id
      OBVIOUS
  <1>3. Cardinality(TriedAt(s, n, x)) \in Nat
      BY TriedCounts
  <1>4. ASSUME NEW m \in 0 .. n
        PROVE  Tries(s, m, b) <= Tries(s, n, b)
    <2>1. /\ Cardinality(TriedAt(s, m, x)) \in Nat
          /\ Cardinality(TriedAt(s, m, x)) <= Cardinality(TriedAt(s, n, x))
        BY TriedCounts
    <2>2. QED
        BY <1>1, <1>2, <1>3, <2>1 DEF Tries
  <1>5. Tries(s, n, b) \in Nat
      BY <1>1, <1>2, <1>3 DEF Tries
  <1>6. QED
      BY <1>1, <1>4, <1>5

\* A prefix tells the same of a message.
LEMMA TriesSame ==
    ASSUME NEW s, NEW u, NEW n \in Nat, \A k \in 1 .. n : u[k] = s[k], NEW b \in 1 .. n
    PROVE  Tries(u, n, b) = Tries(s, n, b)
  <1>1. u[b] = s[b]
      OBVIOUS
  <1>2. TriedAt(u, n, s[b].m.id) = TriedAt(s, n, s[b].m.id)
      BY TriedSame
  <1>3. QED
      BY <1>1, <1>2 DEF Tries

LEMMA CappedPrefix ==
    ASSUME NEW s \in Seq(LogRecord), Capped(s), NEW n \in 0 .. Len(s), NEW u, u = SubSeq(s, 1, n)
    PROVE  Capped(u)
  <1>1. Len(u) = n /\ (\A k \in 1 .. n : u[k] = s[k]) /\ Len(s) \in Nat /\ n \in Nat
      BY PrefixFacts
  <1>2. ASSUME NEW b \in 1 .. n, u[b].type = "ENQUEUE"
        PROVE  Tries(u, n, b) <= MaxAttempts
    <2>1. b \in 1 .. Len(s) /\ s[b].type = "ENQUEUE"
        BY <1>1, <1>2
    <2>2. Tries(u, n, b) = Tries(s, n, b)
        BY <1>1, TriesSame
    <2>3. /\ Tries(s, n, b) <= Tries(s, Len(s), b) /\ Tries(s, n, b) \in Nat
          /\ Tries(s, Len(s), b) \in Nat
        BY <1>1, <2>1, TriesTyped
    <2>4. Tries(s, Len(s), b) <= MaxAttempts
        BY <2>1 DEF Capped
    <2>5. MaxAttempts \in Nat
        BY ConfigAssumption DEF ValidConfig
    <2>6. QED
        BY <2>2, <2>3, <2>4, <2>5
  <1>3. QED
      BY <1>1, <1>2 DEF Capped

LEMMA CappedAppend ==
    ASSUME NEW s, Sound(s), Capped(s), NEW r \in LogRecord, NEW u, u = Append(s, r),
           r.type = "ENQUEUE" => r.m.id \notin Enq(s, Len(s)) /\ r.m.attempts <= MaxAttempts,
           r.type \in {"NACK", "LEASE_EXPIRE"} =>
             \A b \in 1 .. Len(s) : s[b].type = "ENQUEUE" /\ s[b].m.id = r.id
                                      => Tries(s, Len(s), b) < MaxAttempts
    PROVE  Capped(u)
  <1>0. s \in Seq(LogRecord) /\ Len(s) \in Nat /\ MaxAttempts \in Nat
      BY ConfigAssumption DEF Sound, ValidConfig
  <1>1. PICK n \in Nat : n = Len(s)
      BY <1>0
  <1>2. Len(u) = n + 1 /\ (\A k \in 1 .. n : u[k] = s[k]) /\ u[n + 1] = r
      BY <1>0, <1>1, AppendFacts
  <1>3. ASSUME NEW b \in 1 .. n + 1, u[b].type = "ENQUEUE"
        PROVE  Tries(u, n + 1, b) <= MaxAttempts
    <2>1. PICK x : x = u[b].m.id
        OBVIOUS
    <2>2. Cardinality(TriedAt(u, n + 1, x)) =
             IF r.type \in {"NACK", "LEASE_EXPIRE"} /\ r.id = x
             THEN Cardinality(TriedAt(u, n, x)) + 1 ELSE Cardinality(TriedAt(u, n, x))
        BY <1>2, TriedNext, ZenonT(60)
    <2>3. TriedAt(u, n, x) = TriedAt(s, n, x)
        BY <1>2 DEF TriedAt
    <2>4. CASE b = n + 1
      <3>1. r.type = "ENQUEUE" /\ u[b] = r /\ x \notin Enq(s, n)
          BY <1>1, <1>2, <1>3, <2>1, <2>4
      <3>2. TriedAt(s, n, x) = {}
          BY <1>0, <1>1, <3>1, TriedBorn
      <3>3. Cardinality(TriedAt(u, n + 1, x)) = 0
          BY <2>2, <2>3, <3>1, <3>2, FS_EmptySet
      <3>4. r.m.attempts \in Nat /\ r.m.attempts <= MaxAttempts
          BY <3>1, RecordFacts DEF Encoded
      <3>5. QED
          BY <2>1, <3>1, <3>3, <3>4 DEF Tries
    <2>5. CASE b # n + 1
      <3>1. b \in 1 .. n /\ s[b].type = "ENQUEUE" /\ u[b] = s[b]
          BY <1>2, <1>3, <2>5
      <3>2. Tries(s, n, b) \in Nat /\ Tries(s, n, b) <= MaxAttempts /\ s[b].m.attempts \in Nat
          BY <1>0, <1>1, <3>1, TriesTyped DEF Capped
      <3>3. PICK c, e \in Nat : c = Cardinality(TriedAt(s, n, x)) /\ e = s[b].m.attempts
        <4>1. Cardinality(TriedAt(s, n, x)) \in Nat
            BY TriedCounts
        <4>2. QED
            BY <3>2, <4>1
      <3>4. c \in Nat
          BY <3>3, TriedCounts
      <3>5. Tries(s, n, b) = e + c
          BY <2>1, <3>1, <3>3 DEF Tries
      <3>6. Tries(u, n + 1, b) = e + Cardinality(TriedAt(u, n + 1, x))
          BY <2>1, <3>1, <3>3 DEF Tries
      <3>7. CASE r.type \in {"NACK", "LEASE_EXPIRE"} /\ r.id = x
        <4>1. e + c < MaxAttempts
            BY <1>1, <2>1, <3>1, <3>5, <3>7
        <4>2. Tries(u, n + 1, b) = e + (c + 1)
            BY <2>2, <2>3, <3>3, <3>6, <3>7
        <4>3. QED
            BY <1>0, <3>4, <4>1, <4>2
      <3>8. CASE ~(r.type \in {"NACK", "LEASE_EXPIRE"} /\ r.id = x)
        <4>1. Tries(u, n + 1, b) = e + c
            BY <2>2, <2>3, <3>3, <3>6, <3>8
        <4>2. QED
            BY <3>2, <3>5, <4>1
      <3>9. QED
          BY <3>7, <3>8
    <2>6. QED
        BY <2>4, <2>5
  <1>4. QED
      BY <1>2, <1>3 DEF Capped

\* A snapshot writes the attempts and no record that adds one.
LEMMA SnapshotTries ==
    ASSUME NEW s, NEW a, NEW b, NEW L, NEW R, Written(s, a, b, L, R),
           NEW k \in 1 .. Len(s), s[k].type = "ENQUEUE"
    PROVE  /\ s[k].m.id \in DOMAIN ix.msgs
           /\ Tries(s, Len(s), k) = s[k].m.attempts + 0
           /\ s[k].m.attempts = ix.msgs[s[k].m.id].attempts
  <1>1. PICK i \in 1 .. a : L[i] \in DOMAIN ix.msgs /\ s[k] = EnqueueRec(L[i], ix.msgs[L[i]])
      BY SnapshotRecord
  <1>2. PICK y, m : y = L[i] /\ m = ix.msgs[y]
      OBVIOUS
  <1>3. s[k].m.id = y /\ s[k].m.attempts = m.attempts
    <2>1. s[k] = EnqueueRec(y, m)
        BY <1>1, <1>2
    <2>2. QED
        BY <2>1, EncodeFacts DEF SameEntry
  <1>4. TriedAt(s, Len(s), y) = {}
    <2>1. \A h \in 1 .. Len(s) : s[h].type \in {"META", "ENQUEUE", "DEDUP"}
        BY SnapshotRecord
    <2>2. QED
        BY <2>1 DEF TriedAt
  <1>5. Cardinality(TriedAt(s, Len(s), y)) = 0
      BY <1>4, FS_EmptySet
  <1>6. QED
      BY <1>1, <1>2, <1>3, <1>5 DEF Tries

LEMMA CapStep ==
    ASSUME TypeInv, LiveInv, EchoInv, SparedInv, CapInv, Classified
    PROVE  CapInv'
  <1>0. /\ log \in Seq(LogRecord) /\ Len(log) \in Nat /\ durable \in 0 .. Len(log)
        /\ MaxAttempts \in Nat \ {0} /\ Sound(log)
      BY SoundLogs, ConfigAssumption DEF TypeInv, StoreOK, ValidConfig
  <1>1. CASE Quiet \/ (\E S \in SUBSET Ids : Serve(S)) \/ (\E w \in waiting : Return(w)) \/ Load
    <2>1. UNCHANGED <<log, snap>> /\ (dir' # "log" => dir # "log")
        BY <1>1, LoadCases, Zenon DEF Quiet, Serve, Return, LoadStep, RefusedStep, logV, disk
    <2>2. QED
        BY <2>1 DEF CapInv
  <1>2. ASSUME NEW d \in DedupId \cup {NoDedup}, NEW p \in Priority, NEW delay \in Delay,
               EnqueueStep(d, p, delay)
        PROVE  CapInv'
    <2>1. PICK id, m : id = Len(born) + 1 /\ m = Fresh(d, p, delay)
        OBVIOUS
    <2>2. PICK r \in LogRecord : r = EnqueueRec(id, m) /\ log' = Append(log, r) /\ m.attempts = 0
        BY <1>2, <2>1, EnqueueFacts
    <2>3. r.type = "ENQUEUE" /\ r.m.id = id /\ r.m.attempts = 0
        BY <2>2, EncodeFacts DEF SameEntry
    <2>4. id \notin Enq(log, Len(log))
        BY <2>1, NextIdNew
    <2>5. Capped(log')
      <3>1. PICK u : u = log'
          OBVIOUS
      <3>2. Capped(log) /\ u = Append(log, r)
          BY <2>2, <3>1 DEF CapInv
      <3>3. r.m.id \notin Enq(log, Len(log)) /\ r.m.attempts <= MaxAttempts
          BY <1>0, <2>3, <2>4
      <3>4. r.type \notin {"NACK", "LEASE_EXPIRE"}
          BY <2>3
      <3>5. Capped(u)
          BY <1>0, <3>2, <3>3, <3>4, CappedAppend
      <3>6. QED
          BY <3>1, <3>5
    <2>6. dir' = "log"
        BY <1>2, Zenon DEF EnqueueStep
    <2>7. QED
        BY <2>5, <2>6 DEF CapInv
  <1>3. ASSUME NEW id \in Ids, AckStep(id)
        PROVE  CapInv'
    <2>1. PICK r \in LogRecord : r = AckRec(id) /\ r.type = "ACK"
        BY <1>3, AckFacts DEF AckRec
    <2>2. dir' = "log" /\ log' = Append(log, r)
        BY <1>3, <2>1, Zenon DEF AckStep
    <2>3. Capped(log')
        BY <1>0, <2>1, <2>2, CappedAppend DEF CapInv
    <2>4. QED
        BY <2>2, <2>3 DEF CapInv
  <1>4. ASSUME NEW id \in Ids, NEW r \in LogRecord, AttemptStep(id, r)
        PROVE  CapInv'
    <2>1. /\ dir' = "log" /\ log' = Append(log, r) /\ phase = "up"
          /\ id \in DOMAIN ix.msgs /\ ix.msgs[id].state = "inflight"
        BY <1>4, Zenon DEF AttemptStep
    <2>2. r.type \in {"NACK", "LEASE_EXPIRE"} /\ r.id = id
        BY <1>4, AttemptFacts
    <2>3. ix.msgs[id].attempts < MaxAttempts
        BY <2>1 DEF SparedInv
    <2>4. ASSUME NEW b \in 1 .. Len(log), log[b].type = "ENQUEUE", log[b].m.id = r.id
          PROVE  Tries(log, Len(log), b) < MaxAttempts
        BY <2>1, <2>2, <2>3, <2>4, LiveTries
    <2>5. Capped(log')
      <3>1. PICK u : u = log'
          OBVIOUS
      <3>2. Capped(log) /\ u = Append(log, r) /\ r.type # "ENQUEUE"
          BY <2>1, <2>2, <3>1 DEF CapInv
      <3>3. Capped(u)
          BY <1>0, <2>4, <3>2, CappedAppend
      <3>4. QED
          BY <3>1, <3>3
    <2>6. QED
        BY <2>1, <2>5 DEF CapInv
  <1>5. CASE InstallStep
    <2>1. Snapshot(snap') /\ UNCHANGED log /\ phase = "up"
        BY <1>5, Zenon DEF InstallStep
    <2>2. PICK s : s = snap'
        OBVIOUS
    <2>3. PICK a, b, L, R : Written(s, a, b, L, R)
        BY <2>1, <2>2, SnapshotWritten
    <2>4. ASSUME NEW k \in 1 .. Len(s), s[k].type = "ENQUEUE"
          PROVE  Tries(s, Len(s), k) <= MaxAttempts
      <3>1. PICK x : x = s[k].m.id
          OBVIOUS
      <3>2. /\ x \in DOMAIN ix.msgs /\ Tries(s, Len(s), k) = s[k].m.attempts + 0
            /\ s[k].m.attempts = ix.msgs[x].attempts
          BY <2>3, <2>4, <3>1, SnapshotTries
      <3>3. ix.msgs[x].attempts <= MaxAttempts
          BY <2>1, <3>2, LiveCapped
      <3>4. ix.msgs[x].attempts \in Nat
          BY <3>2, Fields DEF TypeInv, IndexOK, Message
      <3>5. QED
          BY <3>2, <3>3, <3>4
    <2>5. QED
        BY <2>1, <2>2, <2>4 DEF CapInv, Capped
  <1>6. CASE ReopenStep
    <2>1. log' = snap /\ dir # "log" /\ dir' = "log"
        BY <1>6, Zenon DEF ReopenStep
    <2>2. QED
        BY <2>1 DEF CapInv
  <1>7. CASE StopStep
    <2>1. /\ dir' = "log"
          /\ \/ dir # "log" /\ log' = snap
             \/ \E k \in durable .. Len(log) : log' = SubSeq(log, 1, k)
        BY <1>7, StopFacts
    <2>2. \A k \in durable .. Len(log) : k \in 0 .. Len(log)
        BY <1>0
    <2>3. Capped(log')
        BY <1>0, <2>1, <2>2, CappedPrefix DEF CapInv
    <2>4. QED
        BY <2>1, <2>3 DEF CapInv
  <1>8. QED
      BY <1>1, <1>2, <1>3, <1>4, <1>5, <1>6, <1>7 DEF Classified

LEMMA CapAlways == Spec => []CapInv
  <1>1. Init => CapInv
    <2> SUFFICES ASSUME Init PROVE CapInv
        OBVIOUS
    <2>1. log = <<Meta(0)>> /\ dir = "log"
        BY Zenon DEF Init
    <2>2. Len(log) = 1 /\ log[1].type = "META"
        BY <2>1 DEF Meta
    <2>3. QED
        BY <2>1, <2>2 DEF CapInv, Capped
  <1>2. TypeInv /\ LiveInv /\ EchoInv /\ SparedInv /\ CapInv /\ [Next]_vars => CapInv'
      BY Classify, CapStep
  <1>3. QED
      BY <1>1, <1>2, TypeInvariant, LiveAlways, EchoAlways, BuriedAlways, PTL DEF Spec

-----------------------------------------------------------------------------
\* The messages that count as acked are gone from the log, and every ack that
\* was answered or will be counts.
AckedInv ==
    /\ acked \subseteq 1 .. Len(born)
    /\ acked \cap Live(log, Len(log)) = {}
    /\ ackOK \subseteq acked
    /\ \A w \in waiting : w.op = "ack" => w.id \in acked

LEMMA AckedStep ==
    ASSUME TypeInv, TypeInv', LiveInv, AnswerInv, AckedInv, Classified
    PROVE  AckedInv'
  <1>0. /\ log \in Seq(LogRecord) /\ log' \in Seq(LogRecord) /\ Len(log) \in Nat
        /\ durable \in 0 .. Len(log) /\ Legal(log) /\ Len(born) \in Nat /\ born \in Seq(Birth)
      BY DEF TypeInv, StoreOK, LiveInv, HistoryOK
  <1>1. CASE Quiet \/ (\E S \in SUBSET Ids : Serve(S)) \/ Load
    <2>1. UNCHANGED <<log, born, ackOK, acked>> /\ waiting' \subseteq waiting
        BY <1>1, LoadCases, Zenon DEF Quiet, Serve, LoadStep, RefusedStep
    <2>2. QED
        BY <2>1 DEF AckedInv
  <1>2. ASSUME NEW w \in waiting, Return(w)
        PROVE  AckedInv'
    <2>1. /\ UNCHANGED <<log, born, acked>> /\ waiting' = waiting \ {w}
          /\ ackOK' = IF w.op = "ack" THEN ackOK \cup {w.id} ELSE ackOK
        BY <1>2, Zenon DEF Return, logV
    <2>2. QED
        BY <2>1 DEF AckedInv
  <1>3. ASSUME NEW d \in DedupId \cup {NoDedup}, NEW p \in Priority, NEW delay \in Delay,
               EnqueueStep(d, p, delay)
        PROVE  AckedInv'
    <2>1. PICK id, m : id = Len(born) + 1 /\ m = Fresh(d, p, delay)
        OBVIOUS
    <2>2. PICK r \in LogRecord : r = EnqueueRec(id, m) /\ log' = Append(log, r)
        BY <1>3, <2>1, EnqueueFacts
    <2>3. r.type = "ENQUEUE" /\ r.m.id = id
        BY <2>2, EncodeFacts
    <2>4. id \notin Enq(log, Len(log))
        BY <2>1, NextIdNew
    <2>5. /\ UNCHANGED <<ackOK, acked>> /\ Len(born') = id
          /\ waiting' = waiting \cup {[op |-> "enqueue", id |-> id, pos |-> Len(log')]}
      <3>1. /\ UNCHANGED <<ackOK, acked>>
            /\ born' = Append(born, [dedup |-> d, at |-> now, seq |-> m.seq])
            /\ waiting' = waiting \cup {[op |-> "enqueue", id |-> id, pos |-> Len(log')]}
          BY <1>3, <2>1, Zenon DEF EnqueueStep
      <3>2. QED
          BY <1>0, <2>1, <3>1
    <2>6. Grown(log, r, log')
        BY <1>0, <2>2, <2>3, <2>4, LegalGrown
    <2>7. Live(log', Len(log')) \subseteq Live(log, Len(log)) \cup {id}
        BY <2>3, <2>6 DEF Grown, Live
    <2>8. id \notin 1 .. Len(born) /\ 1 .. Len(born) \subseteq 1 .. Len(born')
        BY <1>0, <2>1, <2>5
    <2>9. \A w \in waiting' : w.op = "ack" => w \in waiting
        BY <2>5
    <2>10. QED
        BY <2>5, <2>7, <2>8, <2>9 DEF AckedInv
  <1>4. ASSUME NEW id \in Ids, AckStep(id)
        PROVE  AckedInv'
    <2>1. /\ UNCHANGED <<born, ackOK>> /\ phase = "up" /\ id \in DOMAIN ix.msgs
          /\ log' = Append(log, AckRec(id)) /\ acked' = acked \cup {id}
          /\ waiting' = waiting \cup {[op |-> "ack", id |-> id, pos |-> Len(log')]}
        BY <1>4, Zenon DEF AckStep
    <2>2. PICK r \in LogRecord : r = AckRec(id) /\ r.type = "ACK" /\ r.id = id
        BY <1>4, AckFacts DEF AckRec
    <2>3. id \in Live(log, Len(log))
        BY <2>1 DEF LiveInv
    <2>4. Grown(log, r, log')
        BY <1>0, <2>1, <2>2, <2>3, LegalGrown
    <2>5. Live(log', Len(log')) \subseteq Live(log, Len(log)) \ {id}
        BY <2>2, <2>4 DEF Grown, Live
    <2>6. id \in 1 .. Len(born)
        BY <2>1 DEF TypeInv, IndexOK
    <2>7. \A w \in waiting' : w \in waiting \/ w.id = id
        BY <2>1
    <2>8. QED
        BY <2>1, <2>5, <2>6, <2>7 DEF AckedInv
  <1>5. ASSUME NEW id \in Ids, NEW r \in LogRecord, AttemptStep(id, r)
        PROVE  AckedInv'
    <2>1. r.type \in {"NACK", "LEASE_EXPIRE"} /\ r.id = id
        BY <1>5, AttemptFacts
    <2>2. /\ UNCHANGED <<born, ackOK, acked>> /\ phase = "up"
          /\ id \in DOMAIN ix.msgs /\ log' = Append(log, r)
          /\ \/ waiting' = waiting
             \/ waiting' = waiting \cup {[op |-> "nack", id |-> id, pos |-> Len(log')]}
        BY <1>5, Zenon DEF AttemptStep
    <2>3. id \in Live(log, Len(log))
        BY <2>2 DEF LiveInv
    <2>4. Grown(log, r, log')
        BY <1>0, <2>1, <2>2, <2>3, LegalGrown
    <2>5. Live(log', Len(log')) = Live(log, Len(log))
        BY <2>1, <2>4 DEF Grown, Live
    <2>6. \A w \in waiting' : w.op = "ack" => w \in waiting
        BY <2>2
    <2>7. QED
        BY <2>2, <2>5, <2>6 DEF AckedInv
  <1>6. CASE InstallStep
    <2>1. UNCHANGED <<log, born, ackOK, acked>> /\ waiting' = Settled
        BY <1>6, Zenon DEF InstallStep
    <2>2. ASSUME NEW v \in waiting', v.op = "ack"
          PROVE  v.id \in acked
      <3>1. PICK w \in waiting : v = [w EXCEPT !.pos = 0]
          BY <2>1 DEF Settled
      <3>2. v.op = w.op /\ v.id = w.id
          BY <3>1 DEF TypeInv, HistoryOK, Wait_
      <3>3. QED
          BY <2>2, <3>2 DEF AckedInv
    <2>3. QED
        BY <2>1, <2>2 DEF AckedInv
  <1>7. CASE ReopenStep
    <2>1. /\ log' = snap /\ dir # "log" /\ phase = "up"
          /\ UNCHANGED <<born, ackOK, acked, waiting>>
        BY <1>7, Zenon DEF ReopenStep
    <2>2. Live(log', Len(log')) = Live(log, Len(log))
        BY <2>1 DEF LiveInv, Live
    <2>3. QED
        BY <2>1, <2>2 DEF AckedInv
  <1>8. CASE StopStep
    <2>1. /\ UNCHANGED <<born, ackOK>> /\ waiting' = {} /\ acked' = acked \ Unacked(log')
          /\ \/ \E k \in durable .. Len(log) : log' = SubSeq(log, 1, k)
             \/ dir # "log" /\ log' = snap
        BY <1>8, StopFacts
    <2>2. acked' = acked \ Live(log', Len(log'))
        BY <1>0, <2>1, UnackedLive, Zenon
    <2>3. ASSUME NEW x \in ackOK
          PROVE  x \notin Live(log', Len(log'))
      <3>1. AckGone(x)
          BY DEF AnswerInv
      <3>2. CASE dir # "log" /\ log' = snap
        <4>1. phase = "up"
            BY <3>2, Zenon DEF TypeInv, ModeOK
        <4>2. Live(log', Len(log')) = Live(log, Len(log))
            BY <3>2, <4>1 DEF LiveInv, Live
        <4>3. QED
            BY <4>2 DEF AckedInv
      <3>3. ASSUME NEW k \in durable .. Len(log), log' = SubSeq(log, 1, k)
            PROVE  x \notin Live(log', Len(log'))
        <4>1. k \in 0 .. Len(log) /\ durable \in 0 .. k /\ k \in 0 .. k /\ k \in Nat
            BY <1>0
        <4>2. Len(log') = k /\ Enq(log', k) = Enq(log, k) /\ Acks(log', k) = Acks(log, k)
            BY <1>0, <3>3, <4>1, LegalPrefix
        <4>3. Enq(log, k) \subseteq Enq(log, Len(log)) /\ Acks(log, durable) \subseteq Acks(log, k)
            BY <1>0, <4>1, Growing
        <4>4. QED
            BY <3>1, <4>2, <4>3 DEF AckGone, Live
      <3>4. QED
          BY <2>1, <3>2, <3>3
    <2>4. QED
        BY <2>1, <2>2, <2>3 DEF AckedInv
  <1>9. QED
      BY <1>1, <1>2, <1>3, <1>4, <1>5, <1>6, <1>7, <1>8 DEF Classified

LEMMA AckedAlways == Spec => []AckedInv
  <1>1. Init => AckedInv
    <2> SUFFICES ASSUME Init PROVE AckedInv
        OBVIOUS
    <2>1. acked = {} /\ ackOK = {} /\ waiting = {}
        BY Zenon DEF Init
    <2>2. QED
        BY <2>1 DEF AckedInv
  <1>2. TypeInv /\ TypeInv' /\ LiveInv /\ AnswerInv /\ AckedInv /\ [Next]_vars => AckedInv'
      BY Classify, AckedStep
  <1>3. QED
      BY <1>1, <1>2, TypeInvariant, LiveAlways, AnswerAlways, PTL DEF Spec

-----------------------------------------------------------------------------
(***************************************************************************)
(* The abstract queue: what a step must do to be one of its steps.         *)
(***************************************************************************)
LEMMA IsStutter ==
    ASSUME \A x \in Ids : StatusOf(x)' = StatusOf(x) /\ TriesOf(x)' = TriesOf(x),
           UNCHANGED <<enqOK, ackOK>>
    PROVE  [Promise!ALONext]_(Promise!alo)
  <1>1. UNCHANGED <<[id \in Ids |-> StatusOf(id)], [id \in Ids |-> TriesOf(id)], enqOK, ackOK>>
      BY Zenon
  <1>2. UNCHANGED Promise!alo
      BY <1>1, Zenon DEF Promise!alo
  <1>3. QED
      BY <1>2, Zenon

LEMMA IsPut ==
    ASSUME NEW m \in Ids, StatusOf(m) = "unborn", StatusOf(m)' = "waiting",
           \A x \in Ids \ {m} : StatusOf(x)' = StatusOf(x),
           \A x \in Ids : TriesOf(x)' = TriesOf(x), UNCHANGED <<enqOK, ackOK>>
    PROVE  [Promise!ALONext]_(Promise!alo)
  <1>1. Promise!Put(m)
      BY Zenon DEF Promise!Put
  <1>2. QED
      BY <1>1, Zenon DEF Promise!ALONext

LEMMA IsConfirmPut ==
    ASSUME NEW m \in Ids, StatusOf(m) \in {"waiting", "leased", "dead", "acked"},
           \A x \in Ids : StatusOf(x)' = StatusOf(x) /\ TriesOf(x)' = TriesOf(x),
           enqOK' = enqOK \cup {m}, UNCHANGED ackOK
    PROVE  [Promise!ALONext]_(Promise!alo)
  <1>1. Promise!ConfirmPut(m)
      BY Zenon DEF Promise!ConfirmPut, Promise!Live
  <1>2. QED
      BY <1>1, Zenon DEF Promise!ALONext

LEMMA IsHand ==
    ASSUME NEW S \in SUBSET Ids, S # {}, \A x \in S : StatusOf(x) = "waiting" /\ StatusOf(x)' = "leased",
           \A x \in Ids \ S : StatusOf(x)' = StatusOf(x),
           \A x \in Ids : TriesOf(x)' = TriesOf(x), UNCHANGED <<enqOK, ackOK>>
    PROVE  [Promise!ALONext]_(Promise!alo)
  <1>1. Promise!Hand(S)
      BY Zenon DEF Promise!Hand
  <1>2. QED
      BY <1>1, Zenon DEF Promise!ALONext

LEMMA IsRemove ==
    ASSUME NEW m \in Ids, StatusOf(m) \in {"leased", "dead"}, StatusOf(m)' = "acked",
           TriesOf(m)' = 0,
           \A x \in Ids \ {m} : StatusOf(x)' = StatusOf(x) /\ TriesOf(x)' = TriesOf(x),
           UNCHANGED <<enqOK, ackOK>>
    PROVE  [Promise!ALONext]_(Promise!alo)
  <1>1. Promise!Remove(m)
      BY Zenon DEF Promise!Remove
  <1>2. QED
      BY <1>1, Zenon DEF Promise!ALONext

LEMMA IsConfirmRemove ==
    ASSUME NEW m \in Ids, StatusOf(m) = "acked",
           \A x \in Ids : StatusOf(x)' = StatusOf(x) /\ TriesOf(x)' = TriesOf(x),
           ackOK' = ackOK \cup {m}, UNCHANGED enqOK
    PROVE  [Promise!ALONext]_(Promise!alo)
  <1>1. Promise!ConfirmRemove(m)
      BY Zenon DEF Promise!ConfirmRemove
  <1>2. QED
      BY <1>1, Zenon DEF Promise!ALONext

LEMMA IsGiveBack ==
    ASSUME NEW m \in Ids, StatusOf(m) = "leased", TriesOf(m)' = TriesOf(m) + 1,
           StatusOf(m)' = IF TriesOf(m) + 1 >= MaxAttempts THEN "dead" ELSE "waiting",
           \A x \in Ids \ {m} : StatusOf(x)' = StatusOf(x) /\ TriesOf(x)' = TriesOf(x),
           UNCHANGED <<enqOK, ackOK>>
    PROVE  [Promise!ALONext]_(Promise!alo)
  <1>1. Promise!GiveBack(m)
      BY Zenon DEF Promise!GiveBack
  <1>2. QED
      BY <1>1, Zenon DEF Promise!ALONext

\* What a crash may leave of a message.
Falls(x) ==
    \/ /\ StatusOf(x) \in {"unborn", "lost"} /\ StatusOf(x)' = StatusOf(x)
       /\ x \notin ackOK /\ TriesOf(x)' = 0
    \/ /\ StatusOf(x) = "acked" /\ StatusOf(x)' = "acked" /\ TriesOf(x)' = 0
    \/ /\ StatusOf(x) = "acked" /\ x \notin ackOK
       /\ StatusOf(x)' = IF TriesOf(x)' >= MaxAttempts THEN "dead" ELSE "waiting"
       /\ TriesOf(x)' \in 0 .. MaxAttempts
    \/ /\ StatusOf(x) \in {"waiting", "leased", "dead"} /\ x \notin ackOK
       /\ StatusOf(x)' = IF TriesOf(x)' >= MaxAttempts THEN "dead" ELSE "waiting"
       /\ TriesOf(x)' \in 0 .. TriesOf(x) /\ TriesOf(x)' \in 0 .. MaxAttempts
    \/ /\ StatusOf(x) \in {"waiting", "leased", "dead"} /\ x \notin ackOK /\ x \notin enqOK
       /\ StatusOf(x)' = "lost" /\ TriesOf(x)' = 0

LEMMA IsFall ==
    ASSUME \A x \in Ids : Falls(x), UNCHANGED <<enqOK, ackOK>>
    PROVE  [Promise!ALONext]_(Promise!alo)
  <1>0. MaxAttempts \in Nat \ {0}
      BY ConfigAssumption DEF ValidConfig
  <1>1. \A x \in Ids : StatusOf(x)' \in Promise!Status /\ TriesOf(x)' \in 0 .. MaxAttempts
    <2> TAKE x \in Ids
    <2>1. StatusOf(x)' \in Promise!Status
        BY Zenon DEF Falls, Promise!Status
    <2>2. TriesOf(x)' \in 0 .. MaxAttempts
        BY <1>0 DEF Falls
    <2>3. QED
        BY <2>1, <2>2
  <1>2. ASSUME NEW x \in Ids
        PROVE  /\ StatusOf(x)' \in Promise!Outcomes(x)
               /\ IF StatusOf(x)' \in Promise!Live
                  THEN /\ TriesOf(x)' \in Promise!TriesLeft(x)
                       /\ StatusOf(x)' = "dead" <=> TriesOf(x)' >= MaxAttempts
                  ELSE TriesOf(x)' = 0
    <2>0. Falls(x)
        OBVIOUS
    <2>1. PICK a, c, e, g : a = StatusOf(x) /\ c = StatusOf(x)' /\ e = TriesOf(x) /\ g = TriesOf(x)'
        OBVIOUS
    <2>2. Promise!Outcomes(x) =
            CASE a \in {"unborn", "lost"} -> {a}
              [] x \in ackOK -> {"acked"}
              [] a = "acked" /\ x \notin ackOK -> {"acked", "waiting", "dead"}
              [] OTHER -> {"waiting", "dead"} \cup (IF x \in enqOK THEN {} ELSE {"lost"})
        BY <2>1, Zenon DEF Promise!Outcomes
    <2>3. Promise!TriesLeft(x) = IF a = "acked" THEN 0 .. MaxAttempts ELSE 0 .. e
        BY <2>1, Zenon DEF Promise!TriesLeft
    <2>4. \/ a \in {"unborn", "lost"} /\ c = a /\ x \notin ackOK /\ g = 0
          \/ a = "acked" /\ c = "acked" /\ g = 0
          \/ /\ a = "acked" /\ x \notin ackOK /\ g \in 0 .. MaxAttempts
             /\ c = IF g >= MaxAttempts THEN "dead" ELSE "waiting"
          \/ /\ a \in {"waiting", "leased", "dead"} /\ x \notin ackOK /\ g \in 0 .. e
             /\ c = IF g >= MaxAttempts THEN "dead" ELSE "waiting"
          \/ /\ a \in {"waiting", "leased", "dead"} /\ x \notin ackOK /\ x \notin enqOK
             /\ c = "lost" /\ g = 0
        BY <2>0, <2>1, Zenon DEF Falls
    <2>5. c \in Promise!Outcomes(x)
      <3>1. CASE a \in {"unborn", "lost"}
        <4>1. Promise!Outcomes(x) = {a} /\ c = a
            BY <2>2, <2>4, <3>1
        <4>2. QED
            BY <4>1
      <3>2. CASE a = "acked" /\ x \in ackOK
        <4>1. Promise!Outcomes(x) = {"acked"} /\ c = "acked"
            BY <2>2, <2>4, <3>2
        <4>2. QED
            BY <4>1
      <3>3. CASE a = "acked" /\ x \notin ackOK
        <4>1. Promise!Outcomes(x) = {"acked", "waiting", "dead"}
            BY <2>2, <3>3
        <4>2. c \in {"acked", "waiting", "dead"}
            BY <2>4, <3>3
        <4>3. QED
            BY <4>1, <4>2
      <3>4. CASE a \in {"waiting", "leased", "dead"}
        <4>1. /\ x \notin ackOK
              /\ c \in {"waiting", "dead"} \/ (c = "lost" /\ x \notin enqOK)
            BY <2>4, <3>4
        <4>2. Promise!Outcomes(x) =
                 {"waiting", "dead"} \cup (IF x \in enqOK THEN {} ELSE {"lost"})
            BY <2>2, <3>4, <4>1
        <4>3. QED
            BY <4>1, <4>2
      <3>5. QED
          BY <2>4, <3>1, <3>2, <3>3, <3>4
    <2>6. c \in Promise!Live => g \in Promise!TriesLeft(x) /\ (c = "dead" <=> g >= MaxAttempts)
        BY <2>3, <2>4 DEF Promise!Live
    <2>7. c \notin Promise!Live => g = 0
        BY <2>4 DEF Promise!Live
    <2>8. QED
        BY <2>1, <2>5, <2>6, <2>7
  <1>3. Promise!Fall
      BY <1>1, <1>2 DEF Promise!Fall
  <1>4. QED
      BY <1>3, Zenon DEF Promise!ALONext

-----------------------------------------------------------------------------
(***************************************************************************)
(* The state of the abstract queue, told from the log.                     *)
(***************************************************************************)
\* Record b of s writes the message x.
Writes(s, b, x) == b \in 1 .. Len(s) /\ s[b].type = "ENQUEUE" /\ s[b].m.id = x

LEMMA WrittenOnce ==
    ASSUME NEW s, Sound(s), NEW b, NEW c, NEW x, Writes(s, b, x), Writes(s, c, x)
    PROVE  b = c
  <1>0. Len(s) \in Nat /\ b \in 1 .. Len(s) /\ c \in 1 .. Len(s)
      BY DEF Sound, Writes
  <1>1. ASSUME NEW e \in 1 .. Len(s), NEW g \in 1 .. Len(s), e < g,
               s[e].type = "ENQUEUE", s[e].m.id = x, s[g].type = "ENQUEUE", s[g].m.id = x
        PROVE  FALSE
    <2>1. e \in 1 .. g - 1
        BY <1>0, <1>1
    <2>2. x \in Enq(s, g - 1)
        BY <1>1, <2>1 DEF Enq
    <2>3. QED
        BY <1>1, <2>2 DEF Sound, Legal
  <1>2. b < c \/ c < b \/ b = c
      BY <1>0
  <1>3. QED
      BY <1>0, <1>1, <1>2 DEF Writes

LEMMA LiveWritten ==
    ASSUME NEW s, NEW x \in Live(s, Len(s))
    PROVE  \E b : Writes(s, b, x)
  BY Zenon DEF Live, Enq, Writes

LEMMA LoggedLive ==
    ASSUME TypeInv, NEW x
    PROVE  Logged(x) <=> x \in Live(log, Len(log))
  <1>1. DOMAIN log = 1 .. Len(log)
      BY DEF TypeInv, StoreOK
  <1>2. Births(x) # {} <=> x \in Enq(log, Len(log))
      BY <1>1, Zenon DEF Births, Enq
  <1>3. Entries({"ACK"}, x) = {} <=> x \notin Acks(log, Len(log))
      BY <1>1 DEF Entries, Acks
  <1>4. QED
      BY <1>2, <1>3, Zenon DEF Logged, Live

LEMMA LoggedCount ==
    ASSUME TypeInv, LiveInv, NEW x, NEW b, Writes(log, b, x)
    PROVE  LoggedTries(x) = Tries(log, Len(log), b)
  <1>1. DOMAIN log = 1 .. Len(log)
      BY DEF TypeInv, StoreOK
  <1>2. Births(x) = {b}
    <2>1. \A c \in Births(x) : c = b
      <3> TAKE c \in Births(x)
      <3>1. Writes(log, c, x)
          BY <1>1 DEF Births, Writes
      <3>2. QED
          BY <3>1, SoundLogs, WrittenOnce
    <2>2. b \in Births(x)
        BY <1>1 DEF Births, Writes
    <2>3. QED
        BY <2>1, <2>2
  <1>3. (CHOOSE i \in Births(x) : TRUE) = b
      BY <1>2
  <1>4. Entries({"NACK", "LEASE_EXPIRE"}, x) = TriedAt(log, Len(log), x)
      BY <1>1 DEF Entries, TriedAt
  <1>5. log[b].m.id = x
      BY DEF Writes
  <1>6. QED
      BY <1>3, <1>4, <1>5, Zenon DEF LoggedTries, Tries

LEMMA PresentLive ==
    ASSUME TypeInv, LiveInv, NEW x
    PROVE  Present(x) <=> x \in Live(log, Len(log))
  BY LoggedLive, Zenon DEF Present, LiveInv

\* What the abstract queue shows of x.
Seen(x) ==
    /\ x > Len(born) => x \notin Live(log, Len(log)) /\ StatusOf(x) = "unborn"
    /\ x <= Len(born) /\ x \notin Live(log, Len(log)) =>
          StatusOf(x) = IF x \in acked THEN "acked" ELSE "lost"
    /\ x \notin Live(log, Len(log)) => TriesOf(x) = 0
    /\ x \in Live(log, Len(log)) /\ phase = "up" =>
          /\ x \in DOMAIN ix.msgs /\ TriesOf(x) = ix.msgs[x].attempts
          /\ StatusOf(x) = IF ix.msgs[x].state = "inflight" THEN "leased"
                           ELSE IF ix.msgs[x].state = "dead" THEN "dead" ELSE "waiting"
    /\ \A b : x \in Live(log, Len(log)) /\ Writes(log, b, x) =>
          /\ TriesOf(x) = Tries(log, Len(log), b)
          /\ phase # "up" =>
               StatusOf(x) = IF Tries(log, Len(log), b) >= MaxAttempts THEN "dead" ELSE "waiting"

SeenInv == TypeInv /\ LiveInv /\ EchoInv

LEMMA SeenUp ==
    ASSUME SeenInv, NEW x \in Ids, x \in Live(log, Len(log)), phase = "up"
    PROVE  /\ x \in DOMAIN ix.msgs /\ TriesOf(x) = ix.msgs[x].attempts
           /\ StatusOf(x) = IF ix.msgs[x].state = "inflight" THEN "leased"
                            ELSE IF ix.msgs[x].state = "dead" THEN "dead" ELSE "waiting"
  <1>1. x \in DOMAIN ix.msgs /\ Present(x)
      BY PresentLive DEF SeenInv, LiveInv
  <1>2. x \in 1 .. Len(born) /\ Len(born) \in Nat
      BY <1>1 DEF SeenInv, TypeInv, IndexOK, HistoryOK
  <1>3. ~(x > Len(born))
      BY <1>2
  <1>4. TriesOf(x) = ix.msgs[x].attempts
      BY <1>1, Zenon DEF TriesOf
  <1>5. PICK a : a = ix.msgs[x].state
      OBVIOUS
  <1>6. a \in {"ready", "delayed", "inflight", "dead"}
      BY <1>1, <1>5, Fields DEF SeenInv, TypeInv, IndexOK, Message, MsgState
  <1>7. StatusOf(x) = CASE a \in {"ready", "delayed"} -> "waiting"
                        [] a = "inflight" -> "leased"
                        [] a = "dead" -> "dead"
      BY <1>1, <1>3, <1>5 DEF StatusOf
  <1>8. StatusOf(x) = IF a = "inflight" THEN "leased" ELSE IF a = "dead" THEN "dead" ELSE "waiting"
      BY <1>6, <1>7
  <1>9. QED
      BY <1>1, <1>4, <1>5, <1>8

LEMMA SeenLog ==
    ASSUME SeenInv, NEW x \in Ids, x \in Live(log, Len(log)), NEW b, Writes(log, b, x)
    PROVE  /\ TriesOf(x) = Tries(log, Len(log), b)
           /\ phase # "up" =>
                StatusOf(x) = IF Tries(log, Len(log), b) >= MaxAttempts THEN "dead" ELSE "waiting"
  <1>0. Present(x)
      BY PresentLive DEF SeenInv
  <1>1. CASE phase = "up"
    <2>1. x \in DOMAIN ix.msgs /\ TriesOf(x) = ix.msgs[x].attempts
        BY <1>1, SeenUp
    <2>2. b \in 1 .. Len(log) /\ log[b].type = "ENQUEUE" /\ log[b].m.id = x
        BY DEF Writes
    <2>3. ix.msgs[x].attempts = Tries(log, Len(log), b)
        BY <1>1, <2>1, <2>2, LiveTries DEF SeenInv
    <2>4. QED
        BY <1>1, <2>1, <2>3
  <1>2. CASE phase # "up"
    <2>1. LoggedTries(x) = Tries(log, Len(log), b)
        BY LoggedCount DEF SeenInv
    <2>2. TriesOf(x) = LoggedTries(x)
        BY <1>0, <1>2, Zenon DEF TriesOf
    <2>3. x <= Len(born)
      <3>1. Len(born) \in Nat /\ Knows(log[b], Len(born)) /\ log[b].type = "ENQUEUE" /\ log[b].m.id = x
          BY DEF SeenInv, TypeInv, StoreOK, HistoryOK, IdsKnown, Writes
      <3>2. QED
          BY <3>1 DEF Knows
    <2>4. StatusOf(x) = IF LoggedTries(x) >= MaxAttempts THEN "dead" ELSE "waiting"
      <3>1. Len(born) \in Nat /\ x \in Nat
          BY DEF SeenInv, TypeInv, HistoryOK, Ids
      <3>2. ~(x > Len(born))
          BY <2>3, <3>1
      <3>3. QED
          BY <1>0, <1>2, <3>2 DEF StatusOf
    <2>5. QED
        BY <2>1, <2>2, <2>4
  <1>3. QED
      BY <1>1, <1>2

LEMMA SeenAll ==
    ASSUME SeenInv
    PROVE  \A x \in Ids : Seen(x)
  <1> TAKE x \in Ids
  <1>0. x \in Nat /\ Len(born) \in Nat
      BY DEF SeenInv, TypeInv, HistoryOK, Ids
  <1>1. x > Len(born) => x \notin Live(log, Len(log)) /\ StatusOf(x) = "unborn"
    <2> HAVE x > Len(born)
    <2>1. x \notin Live(log, Len(log))
      <3> SUFFICES ASSUME x \in Live(log, Len(log)) PROVE FALSE
          OBVIOUS
      <3>1. PICK b : Writes(log, b, x)
          BY LiveWritten
      <3>2. Knows(log[b], Len(born)) /\ log[b].type = "ENQUEUE" /\ log[b].m.id = x
          BY <3>1 DEF SeenInv, TypeInv, StoreOK, IdsKnown, Writes
      <3>3. QED
          BY <1>0, <3>2 DEF Knows
    <2>2. ~Present(x) /\ ~(x <= Len(born))
        BY <1>0, <2>1, PresentLive DEF SeenInv
    <2>3. QED
        BY <2>1, <2>2 DEF StatusOf
  <1>2. x <= Len(born) /\ x \notin Live(log, Len(log)) =>
          StatusOf(x) = IF x \in acked THEN "acked" ELSE "lost"
    <2> HAVE x <= Len(born) /\ x \notin Live(log, Len(log))
    <2>1. ~Present(x) /\ ~(x > Len(born))
        BY <1>0, PresentLive DEF SeenInv
    <2>2. QED
        BY <2>1 DEF StatusOf
  <1>3. x \notin Live(log, Len(log)) => TriesOf(x) = 0
      BY PresentLive, Zenon DEF TriesOf, SeenInv
  <1>4. QED
      BY <1>1, <1>2, <1>3, SeenUp, SeenLog, Zenon DEF Seen

LEMMA SeenNext == SeenInv' => (\A x \in Ids : Seen(x))'
  <1>1. SeenInv => \A x \in Ids : Seen(x)
      BY SeenAll
  <1>2. QED
      BY <1>1, PTL

-----------------------------------------------------------------------------
(***************************************************************************)
(* Every step of the queue is one of the abstract queue, or none.          *)
(***************************************************************************)
\* A message whose entry a step of a running queue does not touch.
LEMMA SeenSame ==
    ASSUME NEW x, Seen(x), Seen(x)', phase = "up", phase' = "up",
           x \in Nat, Len(born) \in Nat, Len(born') \in Nat,
           x > Len(born') <=> x > Len(born), x \in acked' <=> x \in acked,
           x \in Live(log', Len(log')) <=> x \in Live(log, Len(log)),
           x \in Live(log, Len(log)) =>
             /\ ix'.msgs[x].attempts = ix.msgs[x].attempts
             /\ ix'.msgs[x].state = "inflight" <=> ix.msgs[x].state = "inflight"
             /\ ix'.msgs[x].state = "dead" <=> ix.msgs[x].state = "dead"
    PROVE  StatusOf(x)' = StatusOf(x) /\ TriesOf(x)' = TriesOf(x)
  <1>1. CASE x \in Live(log, Len(log))
      BY <1>1 DEF Seen
  <1>2. CASE x \notin Live(log, Len(log)) /\ x > Len(born)
      BY <1>2 DEF Seen
  <1>3. CASE x \notin Live(log, Len(log)) /\ x <= Len(born)
    <2>1. x <= Len(born')
        BY <1>3
    <2>2. QED
        BY <1>3, <2>1 DEF Seen
  <1>4. QED
      BY <1>1, <1>2, <1>3

\* And one in the log of a queue that is not running.
LEMMA SeenDown ==
    ASSUME NEW x, Seen(x), Seen(x)', phase # "up", phase' # "up",
           x \in Nat, Len(born) \in Nat, UNCHANGED <<log, born, acked>>
    PROVE  StatusOf(x)' = StatusOf(x) /\ TriesOf(x)' = TriesOf(x)
  <1>1. CASE x \in Live(log, Len(log))
    <2>1. PICK b : Writes(log, b, x)
        BY <1>1, LiveWritten
    <2>2. Writes(log', b, x)
        BY <2>1 DEF Writes
    <2>3. QED
        BY <1>1, <2>1, <2>2 DEF Seen
  <1>2. CASE x \notin Live(log, Len(log)) /\ x > Len(born)
      BY <1>2 DEF Seen
  <1>3. CASE x \notin Live(log, Len(log)) /\ x <= Len(born)
      BY <1>3 DEF Seen
  <1>4. QED
      BY <1>1, <1>2, <1>3

\* And one that startup has finished reading.
LEMMA SeenLoaded ==
    ASSUME NEW x, Seen(x), Seen(x)', phase = "loading", phase' = "up",
           SparedInv, BuriedInv, MaxAttempts \in Nat,
           x \in DOMAIN ix.msgs => ix.msgs[x].attempts \in Nat,
           x \in Nat, Len(born) \in Nat, UNCHANGED <<log, ix, born, acked>>
    PROVE  StatusOf(x)' = StatusOf(x) /\ TriesOf(x)' = TriesOf(x)
  <1>1. CASE x \in Live(log, Len(log))
    <2>1. PICK b : Writes(log, b, x)
        BY <1>1, LiveWritten
    <2>2. Writes(log', b, x) /\ x \in Live(log', Len(log'))
        BY <1>1, <2>1 DEF Writes
    <2>3. PICK n : n = Tries(log, Len(log), b)
        OBVIOUS
    <2>4. TriesOf(x) = n /\ TriesOf(x)' = n /\ n = Tries(log', Len(log'), b)
        BY <1>1, <2>1, <2>2, <2>3 DEF Seen
    <2>5. StatusOf(x) = IF n >= MaxAttempts THEN "dead" ELSE "waiting"
        BY <1>1, <2>1, <2>3 DEF Seen
    <2>6. /\ x \in DOMAIN ix.msgs /\ n = ix.msgs[x].attempts
          /\ StatusOf(x)' = IF ix.msgs[x].state = "inflight" THEN "leased"
                            ELSE IF ix.msgs[x].state = "dead" THEN "dead" ELSE "waiting"
        BY <2>2, <2>4 DEF Seen
    <2>7. ix.msgs[x].state # "inflight" /\ (ix.msgs[x].state = "dead" => n >= MaxAttempts)
        BY <2>6 DEF BuriedInv
    <2>8. ix.msgs[x].state # "dead" => n < MaxAttempts
        BY <2>6 DEF SparedInv
    <2>9. n \in Nat
        BY <2>6
    <2>10. QED
        BY <2>4, <2>5, <2>6, <2>7, <2>8, <2>9
  <1>2. CASE x \notin Live(log, Len(log)) /\ x > Len(born)
      BY <1>2 DEF Seen
  <1>3. CASE x \notin Live(log, Len(log)) /\ x <= Len(born)
      BY <1>3 DEF Seen
  <1>4. QED
      BY <1>1, <1>2, <1>3

SimInv == SeenInv /\ SparedInv /\ BuriedInv /\ CapInv /\ AckedInv /\ AnswerInv

LEMMA SimFacts ==
    ASSUME SimInv, SimInv'
    PROVE  /\ \A x \in Ids : x \in Nat /\ Seen(x) /\ Seen(x)'
           /\ log \in Seq(LogRecord) /\ Len(log) \in Nat /\ durable \in 0 .. Len(log)
           /\ Sound(log) /\ Len(born) \in Nat /\ born \in Seq(Birth) /\ Len(born') \in Nat
           /\ DOMAIN ix.msgs \subseteq 1 .. Len(born)
           /\ 1 .. Len(born) \subseteq Ids
           /\ phase = "up" => DOMAIN ix.msgs = Live(log, Len(log))
           /\ phase' = "up" => DOMAIN ix'.msgs = Live(log', Len(log'))
  <1>1. \A x \in Ids : Seen(x) /\ Seen(x)'
      BY SeenAll, SeenNext, Zenon DEF SimInv
  <1>2. \A x \in Ids : x \in Nat
      BY DEF Ids
  <1>3. Sound(log)
      BY SoundLogs DEF SimInv, SeenInv
  <1>4. /\ log \in Seq(LogRecord) /\ Len(log) \in Nat /\ durable \in 0 .. Len(log)
        /\ Len(born) \in Nat /\ born \in Seq(Birth) /\ Len(born) <= MaxMsgs
        /\ Len(born') \in Nat /\ DOMAIN ix.msgs \subseteq 1 .. Len(born)
      BY DEF SimInv, SeenInv, TypeInv, StoreOK, HistoryOK, IndexOK
  <1>5. 1 .. Len(born) \subseteq Ids
      BY <1>4, QueueAssumption DEF Ids
  <1>6. /\ phase = "up" => DOMAIN ix.msgs = Live(log, Len(log))
        /\ phase' = "up" => DOMAIN ix'.msgs = Live(log', Len(log'))
      BY DEF SimInv, SeenInv, LiveInv
  <1>7. QED
      BY <1>1, <1>2, <1>3, <1>4, <1>5, <1>6

LEMMA QuietSim ==
    ASSUME SimInv, SimInv', Quiet
    PROVE  [Promise!ALONext]_(Promise!alo)
  <1>1. /\ UNCHANGED <<log, phase, born, enqOK, ackOK, acked>> /\ Calm(ix, ix', now)
      BY Zenon DEF Quiet
  <1>2. ASSUME NEW x \in Ids
        PROVE  StatusOf(x)' = StatusOf(x) /\ TriesOf(x)' = TriesOf(x)
    <2>1. x \in Nat /\ Seen(x) /\ Seen(x)' /\ Len(born) \in Nat
        BY SimFacts
    <2>2. CASE phase # "up"
        BY <1>1, <2>1, <2>2, SeenDown
    <2>3. CASE phase = "up"
      <3>1. x \in Live(log, Len(log)) =>
             /\ ix'.msgs[x].attempts = ix.msgs[x].attempts
             /\ ix'.msgs[x].state = "inflight" <=> ix.msgs[x].state = "inflight"
             /\ ix'.msgs[x].state = "dead" <=> ix.msgs[x].state = "dead"
        <4> HAVE x \in Live(log, Len(log))
        <4>1. x \in DOMAIN ix.msgs
            BY <2>3, SimFacts
        <4>2. /\ SameEntry(ix.msgs[x], ix'.msgs[x])
              /\ \/ ix'.msgs[x].state = ix.msgs[x].state
                 \/ ix.msgs[x].state = "delayed" /\ ix'.msgs[x].state = "ready"
            BY <1>1, <4>1, Zenon DEF Calm
        <4>3. QED
            BY <4>2 DEF SameEntry
      <3>2. QED
          BY <1>1, <2>1, <2>3, <3>1, SeenSame
    <2>4. QED
        BY <2>2, <2>3
  <1>3. QED
      BY <1>1, <1>2, IsStutter

LEMMA LoadSim ==
    ASSUME SimInv, SimInv', Load
    PROVE  [Promise!ALONext]_(Promise!alo)
  <1>1. /\ UNCHANGED <<log, born, enqOK, ackOK, acked>> /\ phase # "up"
        /\ phase' # "up" \/ (phase = "loading" /\ phase' = "up" /\ ix' = ix)
      BY LoadCases, Zenon DEF LoadStep, RefusedStep
  <1>2. ASSUME NEW x \in Ids
        PROVE  StatusOf(x)' = StatusOf(x) /\ TriesOf(x)' = TriesOf(x)
    <2>1. x \in Nat /\ Seen(x) /\ Seen(x)' /\ Len(born) \in Nat
        BY SimFacts
    <2>2. CASE phase' # "up"
        BY <1>1, <2>1, <2>2, SeenDown
    <2>3. CASE phase = "loading" /\ phase' = "up" /\ ix' = ix
      <3>1. MaxAttempts \in Nat /\ SparedInv /\ BuriedInv
          BY ConfigAssumption DEF ValidConfig, SimInv
      <3>2. x \in DOMAIN ix.msgs => ix.msgs[x].attempts \in Nat
          BY Fields DEF SimInv, SeenInv, TypeInv, IndexOK, Message
      <3>3. QED
          BY <1>1, <2>1, <2>3, <3>1, <3>2, SeenLoaded
    <2>4. QED
        BY <1>1, <2>2, <2>3
  <1>3. QED
      BY <1>1, <1>2, IsStutter

LEMMA ServeSim ==
    ASSUME SimInv, SimInv', NEW S \in SUBSET Ids, Serve(S)
    PROVE  [Promise!ALONext]_(Promise!alo)
  <1>1. /\ UNCHANGED <<log, born, enqOK, ackOK, acked>> /\ phase = "up" /\ phase' = "up"
        /\ S \subseteq DOMAIN ix.msgs
        /\ \A x \in DOMAIN ix.msgs : SameEntry(ix.msgs[x], ix'.msgs[x])
        /\ \A x \in S : /\ ix.msgs[x].state \in {"ready", "delayed"}
                        /\ ix'.msgs[x].state = "inflight"
        /\ \A x \in DOMAIN ix.msgs \ S :
             \/ ix'.msgs[x].state = ix.msgs[x].state
             \/ ix.msgs[x].state = "delayed" /\ ix'.msgs[x].state = "ready"
      BY Zenon DEF Serve
  <1>2. /\ DOMAIN ix.msgs = Live(log, Len(log)) /\ DOMAIN ix.msgs = Live(log', Len(log'))
        /\ Len(born) \in Nat
      BY <1>1, SimFacts
  <1>3. ASSUME NEW x \in Ids \ S
        PROVE  StatusOf(x)' = StatusOf(x) /\ TriesOf(x)' = TriesOf(x)
    <2>1. x \in Nat /\ Seen(x) /\ Seen(x)'
        BY SimFacts
    <2>2. x \in Live(log, Len(log)) =>
             /\ ix'.msgs[x].attempts = ix.msgs[x].attempts
             /\ ix'.msgs[x].state = "inflight" <=> ix.msgs[x].state = "inflight"
             /\ ix'.msgs[x].state = "dead" <=> ix.msgs[x].state = "dead"
      <3> HAVE x \in Live(log, Len(log))
      <3>1. x \in DOMAIN ix.msgs \ S
          BY <1>2, <1>3
      <3>2. /\ SameEntry(ix.msgs[x], ix'.msgs[x])
            /\ \/ ix'.msgs[x].state = ix.msgs[x].state
               \/ ix.msgs[x].state = "delayed" /\ ix'.msgs[x].state = "ready"
          BY <1>1, <3>1, Zenon
      <3>3. QED
          BY <3>2 DEF SameEntry
    <2>3. QED
        BY <1>1, <1>2, <2>1, <2>2, SeenSame
  <1>4. ASSUME NEW x \in S
        PROVE  /\ StatusOf(x) = "waiting" /\ StatusOf(x)' = "leased"
               /\ TriesOf(x)' = TriesOf(x)
    <2>1. x \in Ids /\ Seen(x) /\ Seen(x)'
        BY SimFacts
    <2>2. /\ x \in DOMAIN ix.msgs /\ ix.msgs[x].state \in {"ready", "delayed"}
          /\ ix'.msgs[x].state = "inflight" /\ SameEntry(ix.msgs[x], ix'.msgs[x])
        BY <1>1, Zenon
    <2>3. x \in Live(log, Len(log)) /\ x \in Live(log', Len(log'))
        BY <1>2, <2>2
    <2>4. QED
        BY <1>1, <2>1, <2>2, <2>3 DEF Seen, SameEntry
  <1>5. CASE S = {}
      BY <1>1, <1>3, <1>5, IsStutter
  <1>6. CASE S # {}
    <2>1. \A x \in S : StatusOf(x) = "waiting" /\ StatusOf(x)' = "leased"
        BY <1>4
    <2>2. \A x \in Ids \ S : StatusOf(x)' = StatusOf(x)
        BY <1>3
    <2>3. \A x \in Ids : TriesOf(x)' = TriesOf(x)
        BY <1>3, <1>4
    <2>4. QED
        BY <1>1, <1>6, <2>1, <2>2, <2>3, IsHand
  <1>7. QED
      BY <1>5, <1>6

LEMMA ReturnSim ==
    ASSUME SimInv, SimInv', NEW w \in waiting, Return(w)
    PROVE  [Promise!ALONext]_(Promise!alo)
  <1>1. /\ UNCHANGED <<log, born, phase, ix, acked>> /\ phase = "up"
        /\ enqOK' = IF w.op = "enqueue" THEN enqOK \cup {w.id} ELSE enqOK
        /\ ackOK' = IF w.op = "ack" THEN ackOK \cup {w.id} ELSE ackOK
      BY Zenon DEF Return, logV, proc
  <1>2. ASSUME NEW x \in Ids
        PROVE  StatusOf(x)' = StatusOf(x) /\ TriesOf(x)' = TriesOf(x)
    <2>1. x \in Nat /\ Seen(x) /\ Seen(x)' /\ Len(born) \in Nat
        BY SimFacts
    <2>2. QED
        BY <1>1, <2>1, SeenSame
  <1>3. w.id \in 1 .. Len(born) /\ Awaits(w)
      BY Zenon DEF SimInv, AnswerInv, Awaits
  <1>4. w.id \in Ids /\ w.id <= Len(born)
      BY <1>3, SimFacts
  <1>5. Seen(w.id)
      BY <1>4, SimFacts
  <1>6. CASE w.op = "enqueue"
    <2>1. w.id \in Enq(log, Len(log)) \/ w.id \in acked
      <3>1. CASE w.pos = 0
        <4>1. Stored(w.id)
            BY <1>3, <1>6, <3>1 DEF Awaits
        <4>2. Enq(log, durable) \subseteq Enq(log, Len(log))
            BY SimFacts, Growing
        <4>3. QED
            BY <4>1, <4>2 DEF Stored
      <3>2. CASE w.pos # 0
        <4>1. w.pos \in 1 .. Len(log) /\ log[w.pos].type = "ENQUEUE" /\ log[w.pos].m.id = w.id
            BY <1>3, <1>6, <3>2, SimFacts DEF Awaits
        <4>2. QED
            BY <4>1 DEF Enq
      <3>3. QED
          BY <3>1, <3>2
    <2>2. Acks(log, Len(log)) \subseteq acked
        BY DEF SimInv, AnswerInv
    <2>3. w.id \in Live(log, Len(log)) \/ w.id \in acked
        BY <2>1, <2>2 DEF Live
    <2>4. acked \cap Live(log, Len(log)) = {}
        BY DEF SimInv, AckedInv
    <2>5. StatusOf(w.id) \in {"waiting", "leased", "dead", "acked"}
      <3>1. CASE w.id \in Live(log, Len(log))
          BY <1>1, <1>5, <3>1 DEF Seen
      <3>2. CASE w.id \notin Live(log, Len(log))
          BY <1>4, <1>5, <2>3, <3>2 DEF Seen
      <3>3. QED
          BY <3>1, <3>2
    <2>6. enqOK' = enqOK \cup {w.id} /\ UNCHANGED ackOK
        BY <1>1, <1>6
    <2>7. PICK m \in Ids : m = w.id
        BY <1>4
    <2>8. QED
        BY <1>2, <2>5, <2>6, <2>7, IsConfirmPut
  <1>7. CASE w.op = "ack"
    <2>1. w.id \in acked /\ w.id \notin Live(log, Len(log))
        BY <1>7 DEF SimInv, AckedInv
    <2>2. StatusOf(w.id) = "acked"
        BY <1>4, <1>5, <2>1 DEF Seen
    <2>3. ackOK' = ackOK \cup {w.id} /\ UNCHANGED enqOK
        BY <1>1, <1>7
    <2>4. PICK m \in Ids : m = w.id
        BY <1>4
    <2>5. QED
        BY <1>2, <2>2, <2>3, <2>4, IsConfirmRemove
  <1>8. CASE w.op \notin {"enqueue", "ack"}
    <2>1. UNCHANGED <<enqOK, ackOK>>
        BY <1>1, <1>8
    <2>2. QED
        BY <1>2, <2>1, IsStutter
  <1>9. QED
      BY <1>6, <1>7, <1>8

LEMMA EnqueueSim ==
    ASSUME SimInv, SimInv', NEW d \in DedupId \cup {NoDedup}, NEW p \in Priority,
           NEW delay \in Delay, EnqueueStep(d, p, delay)
    PROVE  [Promise!ALONext]_(Promise!alo)
  <1>0. TypeInv
      BY DEF SimInv, SeenInv
  <1>1. PICK id, m : id = Len(born) + 1 /\ m = Fresh(d, p, delay)
      OBVIOUS
  <1>2. /\ id \in Ids /\ id \notin DOMAIN ix.msgs /\ m.attempts = 0
        /\ DOMAIN ix'.msgs = DOMAIN ix.msgs \cup {id}
        /\ SameBut(ix, ix', id) /\ SameEntry(m, ix'.msgs[id])
        /\ ix'.msgs[id].state \in {"ready", "delayed"}
      BY <1>0, <1>1, EnqueueFacts
  <1>3. /\ UNCHANGED <<enqOK, ackOK, acked>> /\ phase = "up" /\ phase' = "up"
        /\ born' = Append(born, [dedup |-> d, at |-> now, seq |-> m.seq])
      BY <1>1, Zenon DEF EnqueueStep
  <1>4. Len(born') = id /\ Len(born) \in Nat
      BY <1>1, <1>3, SimFacts
  <1>5. DOMAIN ix.msgs = Live(log, Len(log)) /\ DOMAIN ix'.msgs = Live(log', Len(log'))
      BY <1>3, SimFacts
  <1>6. ASSUME NEW x \in Ids \ {id}
        PROVE  StatusOf(x)' = StatusOf(x) /\ TriesOf(x)' = TriesOf(x)
    <2>1. x \in Nat /\ Seen(x) /\ Seen(x)'
        BY SimFacts
    <2>2. x > Len(born') <=> x > Len(born)
        BY <1>1, <1>4, <1>6, <2>1
    <2>3. x \in Live(log', Len(log')) <=> x \in Live(log, Len(log))
        BY <1>2, <1>5, <1>6
    <2>4. x \in Live(log, Len(log)) => ix'.msgs[x] = ix.msgs[x]
        BY <1>2, <1>5, <1>6 DEF SameBut
    <2>5. Len(born') \in Nat /\ (x \in acked' <=> x \in acked)
        BY <1>1, <1>3, <1>4
    <2>6. QED
        BY <1>3, <1>4, <2>1, <2>2, <2>3, <2>4, <2>5, SeenSame
  <1>7. Seen(id) /\ Seen(id)' /\ id > Len(born)
      BY <1>1, <1>2, <1>4, SimFacts
  <1>8. StatusOf(id) = "unborn" /\ TriesOf(id) = 0
      BY <1>7 DEF Seen
  <1>9. StatusOf(id)' = "waiting" /\ TriesOf(id)' = 0
    <2>1. id \in Live(log', Len(log'))
        BY <1>2, <1>5
    <2>2. ix'.msgs[id].attempts = 0
        BY <1>2 DEF SameEntry
    <2>3. QED
        BY <1>2, <1>3, <1>7, <2>1, <2>2 DEF Seen
  <1>10. QED
      BY <1>2, <1>3, <1>6, <1>8, <1>9, IsPut

LEMMA AckSim ==
    ASSUME SimInv, SimInv', NEW id \in Ids, AckStep(id)
    PROVE  [Promise!ALONext]_(Promise!alo)
  <1>0. TypeInv
      BY DEF SimInv, SeenInv
  <1>1. /\ UNCHANGED <<born, enqOK, ackOK>> /\ phase = "up" /\ phase' = "up"
        /\ id \in DOMAIN ix.msgs /\ ix.msgs[id].state \in {"inflight", "dead"}
        /\ acked' = acked \cup {id}
      BY Zenon DEF AckStep
  <1>2. DOMAIN ix'.msgs = DOMAIN ix.msgs \ {id} /\ SameBut(ix, ix', id)
      BY <1>0, AckFacts
  <1>3. /\ DOMAIN ix.msgs = Live(log, Len(log)) /\ DOMAIN ix'.msgs = Live(log', Len(log'))
        /\ Len(born) \in Nat
      BY <1>1, SimFacts
  <1>4. ASSUME NEW x \in Ids \ {id}
        PROVE  StatusOf(x)' = StatusOf(x) /\ TriesOf(x)' = TriesOf(x)
    <2>1. x \in Nat /\ Seen(x) /\ Seen(x)'
        BY SimFacts
    <2>2. /\ x \in Live(log', Len(log')) <=> x \in Live(log, Len(log))
          /\ x \in acked' <=> x \in acked
        BY <1>1, <1>2, <1>3, <1>4
    <2>3. x \in Live(log, Len(log)) => ix'.msgs[x] = ix.msgs[x]
        BY <1>2, <1>3, <1>4 DEF SameBut
    <2>4. QED
        BY <1>1, <1>3, <2>1, <2>2, <2>3, SeenSame
  <1>5. Seen(id) /\ Seen(id)' /\ id <= Len(born')
    <2>1. id \in 1 .. Len(born)
        BY <1>1, SimFacts
    <2>2. QED
        BY <1>1, <1>3, <2>1, SimFacts
  <1>6. StatusOf(id) \in {"leased", "dead"}
      BY <1>1, <1>3, <1>5 DEF Seen
  <1>7. StatusOf(id)' = "acked" /\ TriesOf(id)' = 0
    <2>1. id \notin Live(log', Len(log')) /\ id \in acked'
        BY <1>1, <1>2, <1>3
    <2>2. QED
        BY <1>5, <2>1 DEF Seen
  <1>8. QED
      BY <1>1, <1>4, <1>6, <1>7, IsRemove

LEMMA AttemptSim ==
    ASSUME SimInv, SimInv', NEW id \in Ids, NEW r \in LogRecord, AttemptStep(id, r)
    PROVE  [Promise!ALONext]_(Promise!alo)
  <1>0. TypeInv
      BY DEF SimInv, SeenInv
  <1>1. /\ UNCHANGED <<born, enqOK, ackOK, acked>> /\ phase = "up" /\ phase' = "up"
        /\ id \in DOMAIN ix.msgs /\ ix.msgs[id].state = "inflight"
      BY Zenon DEF AttemptStep
  <1>2. /\ DOMAIN ix'.msgs = DOMAIN ix.msgs /\ SameBut(ix, ix', id)
        /\ ix'.msgs[id].attempts = ix.msgs[id].attempts + 1
        /\ IF ix.msgs[id].attempts + 1 >= MaxAttempts
           THEN ix'.msgs[id].state = "dead" ELSE ix'.msgs[id].state = "ready"
      BY <1>0, AttemptFacts
  <1>3. /\ DOMAIN ix.msgs = Live(log, Len(log)) /\ DOMAIN ix'.msgs = Live(log', Len(log'))
        /\ Len(born) \in Nat
      BY <1>1, SimFacts
  <1>4. ASSUME NEW x \in Ids \ {id}
        PROVE  StatusOf(x)' = StatusOf(x) /\ TriesOf(x)' = TriesOf(x)
    <2>1. x \in Nat /\ Seen(x) /\ Seen(x)'
        BY SimFacts
    <2>2. x \in Live(log', Len(log')) <=> x \in Live(log, Len(log))
        BY <1>2, <1>3
    <2>3. x \in Live(log, Len(log)) => ix'.msgs[x] = ix.msgs[x]
        BY <1>2, <1>3, <1>4 DEF SameBut
    <2>4. QED
        BY <1>1, <1>3, <2>1, <2>2, <2>3, SeenSame
  <1>5. Seen(id) /\ Seen(id)' /\ id \in Live(log, Len(log)) /\ id \in Live(log', Len(log'))
      BY <1>1, <1>2, <1>3, SimFacts
  <1>6. StatusOf(id) = "leased" /\ TriesOf(id) = ix.msgs[id].attempts
      BY <1>1, <1>5 DEF Seen
  <1>7. /\ TriesOf(id)' = ix'.msgs[id].attempts
        /\ StatusOf(id)' = IF ix'.msgs[id].state = "inflight" THEN "leased"
                           ELSE IF ix'.msgs[id].state = "dead" THEN "dead" ELSE "waiting"
      BY <1>1, <1>5 DEF Seen
  <1>8. StatusOf(id)' = IF TriesOf(id) + 1 >= MaxAttempts THEN "dead" ELSE "waiting"
      BY <1>2, <1>6, <1>7
  <1>9. TriesOf(id)' = TriesOf(id) + 1
      BY <1>2, <1>6, <1>7
  <1>10. QED
      BY <1>1, <1>4, <1>6, <1>8, <1>9, IsGiveBack

LEMMA CompactSim ==
    ASSUME SimInv, SimInv', InstallStep \/ ReopenStep
    PROVE  [Promise!ALONext]_(Promise!alo)
  <1>1. UNCHANGED <<born, enqOK, ackOK, acked, ix, phase>> /\ phase = "up"
      BY Zenon DEF InstallStep, ReopenStep
  <1>2. ASSUME NEW x \in Ids
        PROVE  StatusOf(x)' = StatusOf(x) /\ TriesOf(x)' = TriesOf(x)
    <2>1. x \in Nat /\ Seen(x) /\ Seen(x)' /\ Len(born) \in Nat
        BY SimFacts
    <2>2. x \in Live(log', Len(log')) <=> x \in Live(log, Len(log))
        BY <1>1, SimFacts
    <2>3. QED
        BY <1>1, <2>1, <2>2, SeenSame
  <1>3. QED
      BY <1>1, <1>2, IsStutter

\* What is left of a log by a crash, of what it said before.
LEMMA StopLeaves ==
    ASSUME SimInv, SimInv', StopStep
    PROVE  /\ \A x : x \in Live(log', Len(log')) => x \in Enq(log, Len(log))
           /\ \A x \in enqOK : x \in Live(log, Len(log)) => x \in Live(log', Len(log'))
           /\ \A x \in Ids : \A b : x \in Live(log, Len(log)) /\ Writes(log', b, x) =>
                Tries(log', Len(log'), b) <= TriesOf(x)
  <1>0. TypeInv /\ LiveInv /\ EchoInv /\ AnswerInv /\ AckedInv
      BY DEF SimInv, SeenInv
  <1>1. /\ phase = "up"
        /\ \/ \E k \in durable .. Len(log) : log' = SubSeq(log, 1, k)
           \/ dir # "log" /\ log' = snap
      BY <1>0, StopFacts
  <1>2. /\ log \in Seq(LogRecord) /\ Len(log) \in Nat /\ durable \in 0 .. Len(log)
        /\ Legal(log) /\ \A x \in Ids : Seen(x)
      BY SimFacts DEF Sound
  <1>3. ASSUME NEW k \in durable .. Len(log), NEW u, u = log', u = SubSeq(log, 1, k)
        PROVE  /\ \A x : x \in Live(u, Len(u)) => x \in Enq(log, Len(log))
               /\ \A x \in enqOK : x \in Live(log, Len(log)) => x \in Live(u, Len(u))
               /\ \A x \in Ids : \A b : x \in Live(log, Len(log)) /\ Writes(u, b, x) =>
                    Tries(u, Len(u), b) <= TriesOf(x)
    <2>1. k \in 0 .. Len(log) /\ k \in Nat /\ durable \in 0 .. k /\ k \in 0 .. k
        BY <1>2
    <2>2. Len(u) = k /\ Enq(u, k) = Enq(log, k) /\ Acks(u, k) = Acks(log, k)
        BY <1>2, <1>3, <2>1, LegalPrefix
    <2>3. /\ Enq(log, k) \subseteq Enq(log, Len(log)) /\ Acks(log, k) \subseteq Acks(log, Len(log))
          /\ Enq(log, durable) \subseteq Enq(log, k)
        BY <1>2, <2>1, Growing
    <2>4. \A x : x \in Live(u, Len(u)) => x \in Enq(log, Len(log))
        BY <2>2, <2>3 DEF Live
    <2>5. ASSUME NEW x \in enqOK, x \in Live(log, Len(log))
          PROVE  x \in Live(u, Len(u))
      <3>1. Stored(x) /\ x \notin acked
          BY <1>0, <2>5 DEF AnswerInv, AckedInv
      <3>2. x \in Enq(log, durable)
          BY <3>1 DEF Stored
      <3>3. QED
          BY <2>2, <2>3, <2>5, <3>2 DEF Live
    <2>6. ASSUME NEW x \in Ids, NEW b, x \in Live(log, Len(log)), Writes(u, b, x)
          PROVE  Tries(u, Len(u), b) <= TriesOf(x)
      <3>1. \A j \in 1 .. k : u[j] = log[j]
          BY <1>2, <1>3, <2>1, PrefixFacts
      <3>2. b \in 1 .. k /\ b \in 1 .. Len(log) /\ Writes(log, b, x) /\ log[b].type = "ENQUEUE"
          BY <1>2, <2>1, <2>2, <2>6, <3>1 DEF Writes
      <3>3. Tries(u, k, b) = Tries(log, k, b)
          BY <2>1, <3>1, <3>2, TriesSame
      <3>4. Tries(log, k, b) <= Tries(log, Len(log), b)
          BY <1>2, <2>1, <3>2, TriesTyped
      <3>5. TriesOf(x) = Tries(log, Len(log), b)
          BY <1>2, <2>6, <3>2 DEF Seen
      <3>6. QED
          BY <2>2, <3>3, <3>4, <3>5
    <2>7. QED
        BY <2>4, <2>5, <2>6
  <1>4. ASSUME dir # "log", NEW u, u = log', u = snap
        PROVE  /\ \A x : x \in Live(u, Len(u)) => x \in Enq(log, Len(log))
               /\ \A x \in enqOK : x \in Live(log, Len(log)) => x \in Live(u, Len(u))
               /\ \A x \in Ids : \A b : x \in Live(log, Len(log)) /\ Writes(u, b, x) =>
                    Tries(u, Len(u), b) <= TriesOf(x)
    <2>1. Live(u, Len(u)) = DOMAIN ix.msgs /\ DOMAIN ix.msgs = Live(log, Len(log))
        BY <1>0, <1>1, <1>4 DEF LiveInv, Live
    <2>2. ASSUME NEW x \in Ids, NEW b, x \in Live(log, Len(log)), Writes(u, b, x)
          PROVE  Tries(u, Len(u), b) <= TriesOf(x)
      <3>1. Sound(snap) /\ Echoes(snap, Len(snap), ix, now) /\ now \in Nat
          BY <1>0, <1>4, SoundLogs DEF EchoInv, TypeInv, ClockOK
      <3>2. Len(snap) \in 0 .. Len(snap) /\ u \in Seq(LogRecord)
          BY <1>4, <3>1 DEF Sound
      <3>3. b \in 1 .. Len(u) /\ u[b].type = "ENQUEUE" /\ u[b].m.id = x /\ x \in DOMAIN ix.msgs
          BY <2>1, <2>2 DEF Writes
      <3>4. ix.msgs[x].attempts = Tries(u, Len(u), b)
          BY <1>4, <3>1, <3>2, <3>3, EchoTries
      <3>5. TriesOf(x) = ix.msgs[x].attempts
          BY <1>1, <1>2, <2>2 DEF Seen
      <3>6. Tries(u, Len(u), b) \in Nat
        <4>1. PICK n \in Nat : n = Len(u)
            BY <3>2
        <4>2. b \in 1 .. Len(u) /\ u[b].type = "ENQUEUE" /\ u \in Seq(LogRecord)
            BY <3>2, <3>3
        <4>3. Tries(u, n, b) \in Nat
            BY <4>2, TriesTyped
        <4>4. QED
            BY <4>1, <4>3
      <3>7. QED
          BY <3>4, <3>5, <3>6
    <2>3. QED
        BY <2>1, <2>2 DEF Live
  <1>5. QED
      BY <1>1, <1>3, <1>4

LEMMA StopSim ==
    ASSUME SimInv, SimInv', StopStep
    PROVE  [Promise!ALONext]_(Promise!alo)
  <1>0. /\ TypeInv /\ AnswerInv /\ AckedInv /\ AckedInv' /\ CapInv' /\ TypeInv'
        /\ MaxAttempts \in Nat \ {0}
      BY ConfigAssumption DEF SimInv, SeenInv, ValidConfig
  <1>1. /\ UNCHANGED <<born, enqOK, ackOK>> /\ phase = "up" /\ phase' # "up"
        /\ acked' = acked \ Unacked(log')
      BY <1>0, StopFacts
  <1>2. log' \in Seq(LogRecord) /\ Len(log') \in Nat /\ Capped(log')
      BY <1>0 DEF TypeInv, StoreOK, CapInv
  <1>3. acked' = acked \ Live(log', Len(log'))
      BY <1>1, <1>2, UnackedLive, Zenon
  <1>4. PICK H, G : H = Live(log, Len(log)) /\ G = Live(log', Len(log'))
      OBVIOUS
  <1>5. /\ \A x : x \in G => x \in Enq(log, Len(log))
        /\ \A x \in enqOK : x \in H => x \in G
        /\ \A x \in Ids : \A b : x \in H /\ Writes(log', b, x) => Tries(log', Len(log'), b) <= TriesOf(x)
      BY <1>4, StopLeaves
  <1>6. /\ acked \subseteq 1 .. Len(born) /\ acked \cap H = {} /\ ackOK \subseteq acked
        /\ Acks(log, Len(log)) \subseteq acked /\ ackOK \cap G = {} /\ acked' = acked \ G
      BY <1>0, <1>1, <1>3, <1>4 DEF AckedInv, AnswerInv
  <1>7. ASSUME NEW x \in Ids
        PROVE  Falls(x)
    <2>0. x \in Nat /\ Len(born) \in Nat /\ Seen(x) /\ Seen(x)' /\ Len(born') = Len(born)
        BY <1>1, SimFacts
    <2>1. x \notin G => TriesOf(x)' = 0
        BY <1>4, <2>0 DEF Seen
    <2>2. ASSUME x \in G
          PROVE  /\ TriesOf(x)' \in 0 .. MaxAttempts
                 /\ StatusOf(x)' = IF TriesOf(x)' >= MaxAttempts THEN "dead" ELSE "waiting"
                 /\ x \in H => TriesOf(x)' <= TriesOf(x)
      <3>1. PICK b : Writes(log', b, x)
          BY <1>4, <2>2, LiveWritten
      <3>2. PICK n : n = Tries(log', Len(log'), b)
          OBVIOUS
      <3>3. b \in 1 .. Len(log') /\ log'[b].type = "ENQUEUE"
          BY <3>1 DEF Writes
      <3>4. n \in Nat /\ n <= MaxAttempts
          BY <1>2, <3>2, <3>3, TriesTyped DEF Capped
      <3>5. TriesOf(x)' = n /\ StatusOf(x)' = IF n >= MaxAttempts THEN "dead" ELSE "waiting"
          BY <1>1, <1>4, <2>0, <2>2, <3>1, <3>2 DEF Seen
      <3>6. x \in H => n <= TriesOf(x)
          BY <1>5, <3>1, <3>2
      <3>7. QED
          BY <1>0, <3>4, <3>5, <3>6
    <2>3. CASE x > Len(born)
      <3>1. StatusOf(x) = "unborn" /\ StatusOf(x)' = "unborn" /\ TriesOf(x)' = 0
          BY <1>4, <2>0, <2>1, <2>3 DEF Seen
      <3>2. x \notin ackOK
          BY <1>6, <2>0, <2>3
      <3>3. QED
          BY <3>1, <3>2, Zenon DEF Falls
    <2>4. CASE x <= Len(born) /\ x \notin H /\ x \notin acked
      <3>1. x \notin G /\ x \notin acked' /\ x \notin ackOK
          BY <1>4, <1>5, <1>6, <2>4 DEF Live
      <3>2. StatusOf(x) = "lost" /\ StatusOf(x)' = "lost" /\ TriesOf(x)' = 0
          BY <1>4, <2>0, <2>1, <2>4, <3>1 DEF Seen
      <3>3. QED
          BY <3>1, <3>2, Zenon DEF Falls
    <2>5. CASE x <= Len(born) /\ x \notin H /\ x \in acked
      <3>1. StatusOf(x) = "acked"
          BY <1>4, <2>0, <2>5 DEF Seen
      <3>2. CASE x \in G
        <4>1. x \notin ackOK
            BY <1>6, <3>2
        <4>2. QED
            BY <2>2, <3>1, <3>2, <4>1, Zenon DEF Falls
      <3>3. CASE x \notin G
        <4>1. x \in acked'
            BY <1>6, <2>5, <3>3
        <4>2. StatusOf(x)' = "acked" /\ TriesOf(x)' = 0
            BY <1>4, <2>0, <2>1, <2>5, <3>3, <4>1 DEF Seen
        <4>3. QED
            BY <3>1, <4>2, Zenon DEF Falls
      <3>4. QED
          BY <3>2, <3>3
    <2>6. CASE x <= Len(born) /\ x \in H
      <3>1. StatusOf(x) \in {"waiting", "leased", "dead"} /\ TriesOf(x) = ix.msgs[x].attempts
          BY <1>1, <1>4, <2>0, <2>6 DEF Seen
      <3>2. x \notin acked /\ x \notin acked' /\ x \notin ackOK
          BY <1>6, <2>6
      <3>3. TriesOf(x) \in Nat
        <4>1. x \in DOMAIN ix.msgs
            BY <1>1, <1>4, <2>6, SimFacts
        <4>2. QED
            BY <1>0, <3>1, <4>1, Fields DEF TypeInv, IndexOK, Message
      <3>4. CASE x \in G
        <4>1. TriesOf(x)' \in 0 .. TriesOf(x)
            BY <1>0, <2>2, <2>6, <3>3, <3>4
        <4>2. QED
            BY <2>2, <3>1, <3>2, <3>4, <4>1, Zenon DEF Falls
      <3>5. CASE x \notin G
        <4>1. x \notin enqOK
            BY <1>5, <2>6, <3>5
        <4>2. StatusOf(x)' = "lost" /\ TriesOf(x)' = 0
            BY <1>4, <2>0, <2>1, <2>6, <3>2, <3>5 DEF Seen
        <4>3. QED
            BY <3>1, <3>2, <4>1, <4>2, Zenon DEF Falls
      <3>6. QED
          BY <3>4, <3>5
    <2>7. QED
        BY <2>0, <2>3, <2>4, <2>5, <2>6
  <1>8. QED
      BY <1>1, <1>7, IsFall

LEMMA StepSim ==
    ASSUME SimInv, SimInv', Classified
    PROVE  [Promise!ALONext]_(Promise!alo)
  BY QuietSim, LoadSim, ServeSim, ReturnSim, EnqueueSim, AckSim, AttemptSim, CompactSim,
     StopSim, Zenon DEF Classified

\* An empty log shows an abstract queue in which no message has been put.
LEMMA InitSim ==
    ASSUME Init, SimInv
    PROVE  Promise!ALOInit
  <1>1. born = <<>> /\ enqOK = {} /\ ackOK = {}
      BY Zenon DEF Init
  <1>2. ASSUME NEW x \in Ids
        PROVE  StatusOf(x) = "unborn" /\ TriesOf(x) = 0
    <2>1. Seen(x)
        BY SeenAll DEF SimInv
    <2>2. x > Len(born)
        BY <1>1 DEF Ids
    <2>3. QED
        BY <2>1, <2>2 DEF Seen
  <1>3. QED
      BY <1>1, <1>2, Zenon DEF Promise!ALOInit

\* The queue implements the abstract one: with its log, group commit,
\* compaction, failed disk, crashes and restarts it does nothing that the
\* abstract queue of module AtLeastOnce does not do.  No message whose enqueue
\* was answered is lost, none whose ack was answered comes back, no attempt is
\* counted that was not used, and a message is dead exactly when its attempts
\* are used up.
THEOREM ImplementsPromise == Spec => ImplementsAtLeastOnce
  <1>1. Spec => []SimInv
    <2>1. TypeInv /\ LiveInv /\ EchoInv /\ SparedInv /\ BuriedInv /\ CapInv /\ AckedInv
            /\ AnswerInv => SimInv
        BY DEF SimInv, SeenInv
    <2>2. QED
        BY <2>1, TypeInvariant, LiveAlways, EchoAlways, BuriedAlways, CapAlways, AckedAlways,
           AnswerAlways, PTL
  <1>2. Init /\ SimInv => Promise!ALOInit
      BY InitSim
  <1>3. SimInv /\ SimInv' /\ [Next]_vars => [Promise!ALONext]_(Promise!alo)
    <2> SUFFICES ASSUME SimInv, SimInv', [Next]_vars
                 PROVE  [Promise!ALONext]_(Promise!alo)
        OBVIOUS
    <2>1. TypeInv
        BY DEF SimInv, SeenInv
    <2>2. Classified
        BY <2>1, Classify
    <2>3. QED
        BY <2>2, StepSim
  <1>4. QED
      BY <1>1, <1>2, <1>3, PTL DEF Spec, ImplementsAtLeastOnce, Promise!ALOSpec

-----------------------------------------------------------------------------
(***************************************************************************)
(* The order of deliveries: the priorities that are stored in the index.   *)
(***************************************************************************)
\* The stored priority of a ready message is that of its age at time t, or the
\* message was ready before and was left alone.
Ranked(i, j, t) ==
    \A x \in DOMAIN j.msgs :
        j.msgs[x].state = "ready" =>
            \/ j.msgs[x].eff = effectivePriority(j.msgs[x], t)
            \/ x \in DOMAIN i.msgs /\ j.msgs[x] = i.msgs[x]

LEMMA PriorityOf ==
    ASSUME NEW m, NEW n, NEW t, n.prio = m.prio, n.created = m.created
    PROVE  effectivePriority(n, t) = effectivePriority(m, t)
  <1> DEFINE age(c) == (t - c) \div AgingInterval
             boost(c) == CASE age(c) > AgingMaxBoost -> AgingMaxBoost
                           [] age(c) < 0 -> 0
                           [] OTHER -> age(c)
             E(p, c) == IF AgingInterval = 0 \/ ~PriorityEnabled THEN p ELSE Wrap(p + boost(c))
  <1>1. effectivePriority(m, t) = E(m.prio, m.created)
      BY Zenon DEF effectivePriority
  <1>2. effectivePriority(n, t) = E(n.prio, n.created)
      BY Zenon DEF effectivePriority
  <1> HIDE DEF E
  <1>3. QED
      BY <1>1, <1>2

LEMMA RankedSame ==
    ASSUME NEW i, NEW j, NEW t, j.msgs = i.msgs
    PROVE  Ranked(i, j, t)
  BY DEF Ranked

\* One message changes, and it is not ready or its priority is that of now.
LEMMA RankedBut ==
    ASSUME NEW i, NEW j, NEW t, NEW id, DOMAIN j.msgs \subseteq DOMAIN i.msgs \cup {id},
           SameBut(i, j, id),
           id \in DOMAIN j.msgs /\ j.msgs[id].state = "ready"
             => j.msgs[id].eff = effectivePriority(j.msgs[id], t)
    PROVE  Ranked(i, j, t)
  BY DEF Ranked, SameBut

LEMMA PlaceRanked ==
    ASSUME NEW I, NEW i \in Index(I), NEW id \in I, ConsistentBut(i, id),
           NEW m \in Message, NEW t \in Nat
    PROVE  LET n == place(i, id, m, t).msgs[id]
           IN n.state = "ready" => n.eff = effectivePriority(n, t)
  <1>1. PICK s : s = IF m.visible > t THEN "delayed" ELSE "ready"
      OBVIOUS
  <1>2. PICK e : e = IF s = "ready" THEN effectivePriority(m, t) ELSE m.eff
      OBVIOUS
  <1>3. PICK p : p = [m EXCEPT !.state = s, !.deadline = 0, !.eff = e]
      OBVIOUS
  <1>4. s \in MsgState
      BY <1>1 DEF MsgState
  <1>5. e \in Int
    <2>1. effectivePriority(m, t) \in Int /\ m.eff \in Int
        BY PriorityType DEF Message
    <2>2. QED
        BY <1>2, <2>1
  <1>6. /\ p \in Message /\ p.state = s /\ p.eff = e /\ p.prio = m.prio
        /\ p.created = m.created
      BY <1>3, <1>4, <1>5 DEF Message
  <1>7. place(i, id, m, t) = settled(i, id, p, s)
      BY <1>1, <1>2, <1>3, Zenon DEF place, settled
  <1>8. settled(i, id, p, s).msgs[id] = p
      BY <1>6, Settle
  <1>9. effectivePriority(p, t) = effectivePriority(m, t)
      BY <1>6, PriorityOf
  <1>10. QED
      BY <1>2, <1>6, <1>7, <1>8, <1>9, Zenon

LEMMA EnqueueRanked ==
    ASSUME NEW I, NEW i \in Index(I), Consistent(i), NEW id \in I, id \in Id,
           id \notin DOMAIN i.msgs, NEW m \in Message, NEW t \in Nat
    PROVE  Ranked(i, applyEnqueue(i, id, m, t), t)
  <1>1. PICK n : n = IF m.seq >= i.nextSeq THEN m.seq + 1 ELSE i.nextSeq
      OBVIOUS
  <1>2. PICK D : D = IF m.dedup = NoDedup THEN i.dedup
                     ELSE Put(i.dedup, m.dedup,
                              [msg |-> id, expires |-> m.created + DedupWindow])
      OBVIOUS
  <1>3. PICK c : c = [i EXCEPT !.nextSeq = n, !.dedup = D]
      OBVIOUS
  <1>4. PICK j : j = applyEnqueue(i, id, m, t)
      OBVIOUS
  <1>5. j = IF m.state = "dead" THEN bury(c, id, m) ELSE place(c, id, m, t)
      BY <1>1, <1>2, <1>3, <1>4, Zenon DEF applyEnqueue
  <1>6. /\ DOMAIN j.msgs = DOMAIN i.msgs \cup {id} /\ SameBut(i, j, id)
        /\ j.dedup = D /\ j.nextSeq = n
        /\ m.state = "dead" => j.msgs[id].state = "dead"
    <2>1. /\ DOMAIN j.msgs = DOMAIN i.msgs \cup {id} /\ SameBut(i, j, id)
          /\ j.msgs[id].state = IF m.state = "dead" THEN "dead"
                                ELSE IF m.visible > t THEN "delayed" ELSE "ready"
          /\ j.nextSeq = IF m.seq >= i.nextSeq THEN m.seq + 1 ELSE i.nextSeq
          /\ j.dedup = IF m.dedup = NoDedup THEN i.dedup
                       ELSE Put(i.dedup, m.dedup,
                                [msg |-> id, expires |-> m.created + DedupWindow])
        BY <1>4, ApplyEnqueue
    <2>2. QED
        BY <1>1, <1>2, <2>1, Zenon
  <1>7. D \in DedupMap /\ n \in Nat
    <2>1. j \in Index(I)
        BY <1>4, ApplyEnqueue
    <2>2. QED
        BY <1>6, <2>1, Fields
  <1>8. c \in Index(I) /\ c.msgs = i.msgs /\ c.held = i.held
      BY <1>3, <1>7 DEF Index
  <1>9. ConsistentBut(c, id)
      BY <1>8, Undetached DEF Consistent, ConsistentBut
  <1>10. m.state # "dead" /\ j.msgs[id].state = "ready"
           => j.msgs[id].eff = effectivePriority(j.msgs[id], t)
    <2>1. PICK k : k = place(c, id, m, t)
        OBVIOUS
    <2>2. k.msgs[id].state = "ready" => k.msgs[id].eff = effectivePriority(k.msgs[id], t)
        BY <1>8, <1>9, <2>1, PlaceRanked
    <2>3. QED
        BY <1>5, <2>1, <2>2
  <1>11. Ranked(i, j, t)
      BY <1>6, <1>10, RankedBut
  <1>12. QED
      BY <1>4, <1>11

LEMMA AckRanked ==
    ASSUME NEW I, NEW i \in Index(I), Consistent(i), NEW id \in DOMAIN i.msgs, NEW t
    PROVE  Ranked(i, applyAck(i, id), t)
  <1>1. PICK j : j = applyAck(i, id)
      OBVIOUS
  <1>2. DOMAIN j.msgs = DOMAIN i.msgs \ {id} /\ SameBut(i, j, id)
      BY <1>1, ApplyAck
  <1>3. QED
      BY <1>1, <1>2, RankedBut

LEMMA AttemptRanked ==
    ASSUME NEW I, NEW i \in Index(I), Consistent(i), NEW id \in DOMAIN i.msgs,
           NEW t \in Nat
    PROVE  Ranked(i, applyAttempt(i, id, t), t)
  <1>1. PICK c : c = detach(i, id)
      OBVIOUS
  <1>2. PICK a : a = [i.msgs[id] EXCEPT !.attempts = @ + 1]
      OBVIOUS
  <1>3. PICK v : v = [a EXCEPT !.visible = t]
      OBVIOUS
  <1>4. PICK j : j = applyAttempt(i, id, t)
      OBVIOUS
  <1>5. j = IF a.attempts >= MaxAttempts THEN bury(c, id, a) ELSE place(c, id, v, t)
      BY <1>1, <1>2, <1>3, <1>4, Zenon DEF applyAttempt
  <1>6. c \in Index(I) /\ ConsistentBut(c, id) /\ id \in I /\ i.msgs[id] \in Message
      BY <1>1, Detach, Fields
  <1>7. a \in Message /\ v \in Message
    <2>1. a \in Message
        BY <1>2, <1>6 DEF Message
    <2>2. QED
        BY <1>3, <2>1 DEF Message
  <1>8. DOMAIN j.msgs = DOMAIN i.msgs /\ SameBut(i, j, id)
      BY <1>4, ApplyAttempt
  <1>9. CASE a.attempts >= MaxAttempts
    <2>1. PICK k : k = bury(c, id, a)
        OBVIOUS
    <2>2. k.msgs[id].state = "dead" /\ j = k
        BY <1>5, <1>6, <1>7, <1>9, <2>1, Bury
    <2>3. QED
        BY <1>4, <1>8, <2>2, RankedBut
  <1>10. CASE ~(a.attempts >= MaxAttempts)
    <2>1. PICK k : k = place(c, id, v, t)
        OBVIOUS
    <2>2. k.msgs[id].state = "ready" => k.msgs[id].eff = effectivePriority(k.msgs[id], t)
        BY <1>6, <1>7, <2>1, PlaceRanked
    <2>3. j = k
        BY <1>5, <1>10, <2>1
    <2>4. QED
        BY <1>4, <1>8, <2>2, <2>3, RankedBut
  <1>11. QED
      BY <1>9, <1>10

\* A message whose stored priority is set anew.
LEMMA Reset ==
    ASSUME NEW m \in Message, NEW t, NEW e, e = effectivePriority(m, t),
           e \in Int, NEW n,
           n = [m EXCEPT !.state = "ready", !.eff = e] \/ n = [m EXCEPT !.eff = e]
    PROVE  n.eff = effectivePriority(n, t)
  <1>1. n.eff = e /\ n.prio = m.prio /\ n.created = m.created
      BY DEF Message
  <1>2. QED
      BY <1>1, PriorityOf

LEMMA PromoteRanked ==
    ASSUME NEW I, NEW i \in Index(I), Consistent(i), NEW t \in Nat
    PROVE  Ranked(i, promoteDue(i, t), t)
  <1>1. PICK due : due = {x \in i.held["delayed"] : i.msgs[x].visible <= t}
      OBVIOUS
  <1>2. PICK f : f = [x \in DOMAIN i.msgs |->
                        IF x \in due
                        THEN [i.msgs[x] EXCEPT !.state = "ready",
                                               !.eff = effectivePriority(i.msgs[x], t)]
                        ELSE i.msgs[x]]
      OBVIOUS
  <1>3. promoteDue(i, t).msgs = f
    <2>1. promoteDue(i, t) = shifted(i, f, due, "delayed", "ready")
        BY <1>1, <1>2, Zenon DEF promoteDue, shifted
    <2>2. shifted(i, f, due, "delayed", "ready").msgs = f
        BY DEF shifted, Index
    <2>3. QED
        BY <2>1, <2>2
  <1>4. \A x \in DOMAIN i.msgs : i.msgs[x] \in Message
      BY Fields
  <1>5. ASSUME NEW x \in DOMAIN f
        PROVE  f[x].eff = effectivePriority(f[x], t) \/ f[x] = i.msgs[x]
    <2>1. CASE x \in due
      <3>1. PICK m : m = i.msgs[x]
          OBVIOUS
      <3>2. m \in Message /\ "ready" \in MsgState
          BY <1>2, <1>4, <3>1 DEF MsgState
      <3>3. PICK e, n : e = effectivePriority(m, t)
                        /\ n = [m EXCEPT !.state = "ready", !.eff = e]
          OBVIOUS
      <3>4. n.eff = effectivePriority(n, t)
        <4>1. e \in Int
            BY <3>2, <3>3, PriorityType
        <4>2. n.eff = e /\ n.prio = m.prio /\ n.created = m.created
            BY <3>2, <3>3, <4>1 DEF Message
        <4>3. effectivePriority(n, t) = effectivePriority(m, t)
            BY <4>2, PriorityOf
        <4>4. QED
            BY <3>3, <4>2, <4>3
      <3>5. f[x] = n
          BY <1>2, <2>1, <3>1, <3>3
      <3>6. QED
          BY <3>4, <3>5
    <2>2. CASE x \notin due
        BY <1>2, <2>2
    <2>3. QED
        BY <2>1, <2>2
  <1>6. DOMAIN f = DOMAIN i.msgs
      BY <1>2
  <1>7. QED
      BY <1>3, <1>5, <1>6 DEF Ranked

\* A lease leaves the messages that stay ready alone.
LEMMA LeaseRanked ==
    ASSUME NEW I, NEW i \in Index(I), Consistent(i), NEW S,
           S \subseteq i.held["ready"], NEW deadline \in Nat
    PROVE  LET j == lease(i, S, deadline)
           IN \A x \in DOMAIN j.msgs :
                j.msgs[x].state = "ready" => x \in DOMAIN i.msgs /\ j.msgs[x] = i.msgs[x]
  <1>1. PICK f : f = [x \in DOMAIN i.msgs |->
                        IF x \in S
                        THEN [i.msgs[x] EXCEPT !.state = "inflight", !.deadline = deadline]
                        ELSE i.msgs[x]]
      OBVIOUS
  <1>2. PICK j : j = lease(i, S, deadline)
      OBVIOUS
  <1>3. j.msgs = f
    <2>1. j = shifted(i, f, S, "ready", "inflight")
        BY <1>1, <1>2, Zenon DEF lease, shifted
    <2>2. shifted(i, f, S, "ready", "inflight").msgs = f
        BY DEF shifted, Index
    <2>3. QED
        BY <2>1, <2>2
  <1>4. Moved(I, i, j, S, "inflight")
      BY <1>2, LeaseOut
  <1>5. \A x \in DOMAIN f : x \notin S => f[x] = i.msgs[x]
      BY <1>1
  <1>6. \A x \in DOMAIN i.msgs : x \in S => j.msgs[x].state = "inflight"
      BY <1>4 DEF Moved
  <1>7. DOMAIN f = DOMAIN i.msgs
      BY <1>1
  <1>8. QED
      BY <1>2, <1>3, <1>5, <1>6, <1>7

LEMMA AgeRanked ==
    ASSUME NEW I, NEW i \in Index(I), Consistent(i), NEW t \in Nat
    PROVE  LET j == agePriorities(i, t)
           IN \A x \in DOMAIN j.msgs :
                j.msgs[x].state = "ready" => j.msgs[x].eff = effectivePriority(j.msgs[x], t)
  <1>1. PICK f : f = [x \in DOMAIN i.msgs |->
                        IF x \in i.held["ready"]
                        THEN [i.msgs[x] EXCEPT !.eff = effectivePriority(i.msgs[x], t)]
                        ELSE i.msgs[x]]
      OBVIOUS
  <1>2. PICK j : j = agePriorities(i, t)
      OBVIOUS
  <1>3. j.msgs = f
    <2>1. j = [i EXCEPT !.msgs = f]
        BY <1>1, <1>2, Zenon DEF agePriorities
    <2>2. QED
        BY <2>1 DEF Index
  <1>4. /\ \A x \in DOMAIN i.msgs : i.msgs[x] \in Message
        /\ i.held["ready"] = {x \in DOMAIN i.msgs : i.msgs[x].state = "ready"}
      BY Fields DEF Consistent, MsgState
  <1>5. Moved(I, i, j, {}, "ready")
      BY <1>2, AgePriorities
  <1>6. ASSUME NEW x \in DOMAIN j.msgs, j.msgs[x].state = "ready"
        PROVE  j.msgs[x].eff = effectivePriority(j.msgs[x], t)
    <2>1. x \in DOMAIN i.msgs /\ i.msgs[x].state = "ready"
        BY <1>5, <1>6 DEF Moved
    <2>2. PICK m : m = i.msgs[x]
        OBVIOUS
    <2>3. m \in Message /\ "ready" \in MsgState
        BY <1>4, <2>1, <2>2 DEF MsgState
    <2>4. PICK e, n : e = effectivePriority(m, t) /\ n = [m EXCEPT !.eff = e]
        OBVIOUS
    <2>5. n.eff = effectivePriority(n, t)
      <3>1. e \in Int
          BY <2>3, <2>4, PriorityType
      <3>2. QED
          BY <2>3, <2>4, <3>1, Reset, Zenon
    <2>6. j.msgs[x] = n
        BY <1>1, <1>3, <1>4, <2>1, <2>2, <2>4
    <2>7. QED
        BY <2>5, <2>6
  <1>7. QED
      BY <1>2, <1>6

\* What a step makes of the index, with the choice a delivery made.
Delivered(i, S, deadline) ==
    /\ S \subseteq i.held["ready"] /\ deadline \in Nat
    /\ \A a \in S, b \in i.held["ready"] \ S : less(i.msgs[a], i.msgs[b])
    /\ ix' = lease(i, S, deadline)

Finished ==
    \E aged : /\ \/ aged = ix /\ lastAge' = lastAge
                 \/ aged = agePriorities(ix, now) /\ lastAge' = now
              /\ ix' = aged \/ ix' = purgeDedup(aged, now)

IndexStep ==
    \/ ix' = ix
    \/ ix' = EmptyIndex
    \/ \E id \in Ids, m \in Message : id \notin DOMAIN ix.msgs /\ ix' = applyEnqueue(ix, id, m, now)
    \/ \E S, deadline : Delivered(promoteDue(ix, now), S, deadline)
    \/ \E id \in DOMAIN ix.msgs : ix' = applyAck(ix, id)
    \/ \E id \in DOMAIN ix.msgs : ix' = applyAttempt(ix, id, now)
    \/ ix' = promoteDue(ix, now)
    \/ Finished

\* The aging pass is the only step but a restart that moves lastAge.
AgeStep ==
    \/ lastAge' = lastAge
    \/ ix' = EmptyIndex /\ lastAge' = 0
    \/ phase = "loading" /\ ix' = ix /\ lastAge' = now
    \/ Finished

LEMMA LoadIndex ==
    ASSUME TypeInv, LoadStep
    PROVE  \/ ix'.msgs = ix.msgs
           \/ \E id \in Ids, m \in Message : /\ id \notin DOMAIN ix.msgs
                                             /\ ix' = applyEnqueue(ix, id, m, now)
           \/ \E id \in DOMAIN ix.msgs : ix' = applyAck(ix, id)
           \/ \E id \in DOMAIN ix.msgs : ix' = applyAttempt(ix, id, now)
  <1>1. PICK r : r = log[pos + 1]
      OBVIOUS
  <1>2. /\ r \in LogRecord /\ Knows(r, Len(born)) /\ Replayed(ix, ix', r, now)
        /\ ~Refuses(ix, r) /\ ix' = apply(ix, r, now)
      BY <1>1, LoadFacts, Zenon DEF LoadStep
  <1>3. r.type \in {"META", "ENQUEUE", "ACK", "NACK", "LEASE_EXPIRE", "DEDUP"}
      BY <1>2, RecordFacts
  <1>4. CASE r.type \in {"META", "DEDUP"}
      BY <1>2, <1>4 DEF Replayed
  <1>5. CASE r.type = "ENQUEUE"
    <2>1. r.m \in Encoded /\ r.m.id \in 1 .. Len(born)
        BY <1>2, <1>5, RecordFacts DEF Knows
    <2>2. r.m.id \in Ids
        BY <2>1, QueueAssumption DEF Ids, TypeInv, HistoryOK
    <2>3. decodeMessage(r.m) \in Message
        BY <2>1, DecodeFacts
    <2>4. ix' = applyEnqueue(ix, r.m.id, decodeMessage(r.m), now)
      <3>1. apply(ix, r, now) = applyEnqueue(ix, r.m.id, decodeMessage(r.m), now)
          BY <1>5, ApplyCases
      <3>2. QED
          BY <1>2, <3>1
    <2>5. r.m.id \notin DOMAIN ix.msgs
        BY <1>2, <1>5 DEF Replayed
    <2>6. QED
        BY <2>2, <2>3, <2>4, <2>5, Zenon
  <1>6. CASE r.type = "ACK"
    <2>1. ix' = applyAck(ix, r.id) /\ r.id \in DOMAIN ix.msgs
        BY <1>2, <1>6, ApplyCases, Zenon DEF Refuses
    <2>2. QED
        BY <2>1, Zenon
  <1>7. CASE r.type \in {"NACK", "LEASE_EXPIRE"}
    <2>1. ix' = applyAttempt(ix, r.id, now) /\ r.id \in DOMAIN ix.msgs
      <3>1. apply(ix, r, now) = applyAttempt(ix, r.id, now)
          BY <1>7, ApplyCases
      <3>2. r.id \in DOMAIN ix.msgs
          BY <1>2, <1>7, Zenon DEF Refuses
      <3>3. QED
          BY <1>2, <3>1, <3>2
    <2>2. QED
        BY <2>1, Zenon
  <1>8. QED
      BY <1>3, <1>4, <1>5, <1>6, <1>7

LEMMA RequestIndex ==
    ASSUME TypeInv, Request
    PROVE  IndexStep /\ lastAge' = lastAge
  <1>1. ASSUME NEW d \in DedupId \cup {NoDedup}, NEW p \in Priority, NEW delay \in Delay,
               Enqueue(d, p, delay)
        PROVE  IndexStep /\ lastAge' = lastAge
    <2>1. PICK id, m : id = Len(born) + 1 /\ m = Fresh(d, p, delay)
        OBVIOUS
    <2>2. /\ Len(born) < MaxMsgs /\ lastAge' = lastAge
          /\ ix' = ix \/ ix' = applyEnqueue(ix, id, m, now)
        BY <1>1, <2>1, Zenon DEF Enqueue, AppendRefused, AppendAndApply, timers
    <2>3. /\ Len(born) \in Nat /\ DOMAIN ix.msgs \subseteq 1 .. Len(born) /\ now \in Nat
          /\ ix.nextSeq \in Nat
        BY QueueAssumption, Fields DEF TypeInv, HistoryOK, IndexOK, ClockOK
    <2>4. id \in Ids /\ id \notin DOMAIN ix.msgs
        BY <2>1, <2>2, <2>3, QueueAssumption DEF Ids
    <2>5. m \in Message
      <3>1. p \in Int /\ delay \in Nat /\ now + delay \in Nat
        <4>1. p \in (-IntMax - 1) .. IntMax /\ delay \in Nat
            BY QueueAssumption
        <4>2. IntMax \in Nat
            BY ConfigAssumption DEF ValidConfig
        <4>3. QED
            BY <2>3, <4>1, <4>2
      <3>2. QED
          BY <2>1, <2>3, <3>1 DEF Fresh, Message, MsgState
    <2>6. QED
        BY <2>2, <2>4, <2>5, Zenon DEF IndexStep
  <1>2. ASSUME NEW d \in DedupId, EnqueueDuplicate(d)
        PROVE  IndexStep /\ lastAge' = lastAge
      BY <1>2, Zenon DEF EnqueueDuplicate, timers, IndexStep
  <1>3. ASSUME NEW max \in 1 .. MaxDequeue, NEW v \in Lease, Dequeue(max, v)
        PROVE  IndexStep /\ lastAge' = lastAge
    <2>1. PICK i : i = promoteDue(ix, now)
        OBVIOUS
    <2>2. PICK S \in SUBSET i.held["ready"] :
            /\ TakeBest(i, max, S) /\ ix' = lease(i, S, now + v)
            /\ lastAge' = lastAge
        BY <1>3, <2>1, Zenon DEF Dequeue, Deliver, timers
    <2>3. now + v \in Nat
        BY QueueAssumption DEF TypeInv, ClockOK
    <2>4. Delivered(i, S, now + v)
        BY <2>2, <2>3, Zenon DEF Delivered, TakeBest
    <2>5. QED
        BY <2>1, <2>2, <2>4, Zenon DEF IndexStep
  <1>4. ASSUME NEW id \in Ids, Ack(id)
        PROVE  IndexStep /\ lastAge' = lastAge
      BY <1>4, Zenon DEF Ack, AppendRefused, AppendAndApply, timers, IndexStep
  <1>5. ASSUME NEW id \in Ids, Nack(id)
        PROVE  IndexStep /\ lastAge' = lastAge
      BY <1>5, Zenon DEF Nack, AppendRefused, AppendAndApply, timers, IndexStep
  <1>6. QED
      BY <1>1, <1>2, <1>3, <1>4, <1>5, Zenon DEF Request

LEMMA TickIndex ==
    ASSUME TypeInv, Tick
    PROVE  IndexStep /\ AgeStep
  <1>1. CASE TickStart
      BY <1>1, Zenon DEF TickStart, timers, IndexStep, AgeStep
  <1>2. CASE TickExpire
    <2>1. PICK id \in Expired :
            /\ lastAge' = lastAge
            /\ ix' = ix \/ ix' = applyAttempt(ix, id, now)
        BY <1>2, Zenon DEF TickExpire, timers
    <2>2. id \in DOMAIN ix.msgs
      <3>1. id \in ix.held["inflight"]
          BY DEF Expired
      <3>2. QED
          BY <3>1 DEF TypeInv, IndexOK, Consistent, MsgState
    <2>3. QED
        BY <2>1, <2>2, Zenon DEF IndexStep, AgeStep
  <1>3. CASE TickFinish
    <2>1. PICK aged : /\ \/ aged = ix /\ lastAge' = lastAge
                         \/ aged = agePriorities(ix, now) /\ lastAge' = now
                      /\ ix' = aged \/ ix' = purgeDedup(aged, now)
        BY <1>3, Zenon DEF TickFinish
    <2>2. Finished
        BY <2>1, Zenon DEF Finished
    <2>3. QED
        BY <2>2, Zenon DEF IndexStep, AgeStep
  <1>4. CASE TickAwait
      BY <1>4, Zenon DEF TickAwait, timers, IndexStep, AgeStep
  <1>5. QED
      BY <1>1, <1>2, <1>3, <1>4 DEF Tick

LEMMA OtherIndex ==
    ASSUME TypeInv, [Next]_vars, ~Request, ~Tick
    PROVE  /\ IndexStep \/ (LoadStep /\ ix'.msgs = ix.msgs)
           /\ AgeStep
  <1>1. CASE Answer
      BY <1>1, Zenon DEF Answer, Return, ReturnError, timers, IndexStep, AgeStep
  <1>2. CASE Compact
      BY <1>2, Zenon DEF Compact, CompactBegin, CompactSync, CompactDirSync, CompactReopen,
         timers, IndexStep, AgeStep
  <1>3. CASE Flush \/ Advance \/ Close
      BY <1>3, Zenon DEF Flush, Advance, Close, timers, IndexStep, AgeStep
  <1>4. CASE Crash \/ Exit
      BY <1>4, Zenon DEF Crash, Exit, Stops, IndexStep, AgeStep
  <1>5. CASE Load
    <2>1. lastAge' = lastAge \/ (phase = "loading" /\ ix' = ix /\ lastAge' = now)
        BY <1>5, Zenon DEF Load, LoadBegin, LoadRecord, LoadDone, timers
    <2>2. AgeStep
        BY <2>1, Zenon DEF AgeStep
    <2>3. CASE LoadStep
      <3>1. QED
          BY <2>2, <2>3, LoadIndex, Zenon DEF IndexStep
    <2>4. CASE ~LoadStep
      <3>1. ix' = ix
          BY <1>5, <2>4, LoadCases, Zenon DEF RefusedStep
      <3>2. QED
          BY <2>2, <3>1, Zenon DEF IndexStep
    <2>5. QED
        BY <2>3, <2>4
  <1>6. CASE UNCHANGED vars
      BY <1>6, Zenon DEF vars, timers, IndexStep, AgeStep
  <1>7. QED
      BY <1>1, <1>2, <1>3, <1>4, <1>5, <1>6, Zenon DEF Next

\* Every step but a replay of META or DEDUP is one of those.
LEMMA IndexSteps ==
    ASSUME TypeInv, [Next]_vars
    PROVE  (IndexStep \/ ix'.msgs = ix.msgs) /\ AgeStep
  <1>1. CASE Request
      BY <1>1, RequestIndex DEF AgeStep
  <1>2. CASE Tick
      BY <1>2, TickIndex
  <1>3. CASE ~Request /\ ~Tick
      BY <1>3, OtherIndex
  <1>4. QED
      BY <1>1, <1>2, <1>3

\* No step but a delivery puts a message in flight, and every step ranks what
\* it makes ready by its age.
LEMMA StepRanked ==
    ASSUME TypeInv, [Next]_vars
    PROVE  Ranked(ix, ix', now)
  <1>0. ix \in Index(Ids) /\ Consistent(ix) /\ now \in Nat
      BY QueueAssumption DEF TypeInv, IndexOK, ClockOK
  <1>1. CASE ix'.msgs = ix.msgs
      BY <1>1, RankedSame
  <1>2. CASE ix' = EmptyIndex
      BY <1>2, EmptyIndexFacts DEF Ranked
  <1>3. ASSUME NEW id \in Ids, NEW m \in Message, id \notin DOMAIN ix.msgs,
               ix' = applyEnqueue(ix, id, m, now)
        PROVE  Ranked(ix, ix', now)
    <2>1. id \in Id
        BY QueueAssumption DEF Ids, Id
    <2>2. Ranked(ix, applyEnqueue(ix, id, m, now), now)
        BY <1>0, <1>3, <2>1, EnqueueRanked
    <2>3. QED
        BY <1>3, <2>2
  <1>4. ASSUME NEW S, NEW deadline, Delivered(promoteDue(ix, now), S, deadline)
        PROVE  Ranked(ix, ix', now)
    <2>1. PICK i : i = promoteDue(ix, now)
        OBVIOUS
    <2>2. Ranked(ix, i, now) /\ i \in Index(Ids) /\ Consistent(i)
        BY <1>0, <2>1, PromoteRanked, PromoteDue DEF Moved
    <2>3. S \subseteq i.held["ready"] /\ deadline \in Nat /\ ix' = lease(i, S, deadline)
        BY <1>4, <2>1, Zenon DEF Delivered
    <2>4. PICK j : j = lease(i, S, deadline)
        OBVIOUS
    <2>5. \A x \in DOMAIN j.msgs :
             j.msgs[x].state = "ready" => x \in DOMAIN i.msgs /\ j.msgs[x] = i.msgs[x]
        BY <2>2, <2>3, <2>4, LeaseRanked
    <2>6. Ranked(ix, j, now)
        BY <2>2, <2>5 DEF Ranked
    <2>7. QED
        BY <2>3, <2>4, <2>6
  <1>5. ASSUME NEW id \in DOMAIN ix.msgs, ix' = applyAck(ix, id)
        PROVE  Ranked(ix, ix', now)
    <2>1. Ranked(ix, applyAck(ix, id), now)
        BY <1>0, AckRanked
    <2>2. QED
        BY <1>5, <2>1
  <1>6. ASSUME NEW id \in DOMAIN ix.msgs, ix' = applyAttempt(ix, id, now)
        PROVE  Ranked(ix, ix', now)
    <2>1. Ranked(ix, applyAttempt(ix, id, now), now)
        BY <1>0, AttemptRanked
    <2>2. QED
        BY <1>6, <2>1
  <1>7. CASE ix' = promoteDue(ix, now)
    <2>1. Ranked(ix, promoteDue(ix, now), now)
        BY <1>0, PromoteRanked
    <2>2. QED
        BY <1>7, <2>1
  <1>8. CASE Finished
    <2>1. PICK aged : /\ aged = ix \/ aged = agePriorities(ix, now)
                      /\ ix' = aged \/ ix' = purgeDedup(aged, now)
        BY <1>8, Zenon DEF Finished
    <2>2. aged \in Index(Ids) /\ Consistent(aged)
        BY <1>0, <2>1, AgePriorities DEF Moved
    <2>3. ix'.msgs = aged.msgs
      <3>1. purgeDedup(aged, now).msgs = aged.msgs
          BY <1>0, <2>2, PurgeDedup
      <3>2. QED
          BY <2>1, <3>1
    <2>4. Ranked(ix, aged, now)
      <3>1. CASE aged = ix
          BY <3>1, RankedSame
      <3>2. CASE aged = agePriorities(ix, now)
          BY <1>0, <3>2, AgeRanked DEF Ranked
      <3>3. QED
          BY <2>1, <3>1, <3>2
    <2>5. QED
        BY <2>3, <2>4 DEF Ranked
  <1>9. QED
    <2>1. IndexStep \/ ix'.msgs = ix.msgs
        BY IndexSteps
    <2>2. QED
        BY <1>1, <1>2, <1>3, <1>4, <1>5, <1>6, <1>7, <1>8, <2>1, Zenon DEF IndexStep

\* Without aging the heap is ordered by the priorities themselves.
EvenInv ==
    \A x \in DOMAIN ix.msgs :
        ix.msgs[x].state = "ready" => ix.msgs[x].eff = ix.msgs[x].prio

LEMMA EvenAlways ==
    ASSUME AgingInterval = 0 \/ ~PriorityEnabled
    PROVE  Spec => []EvenInv
  <1>1. Init => EvenInv
    <2> SUFFICES ASSUME Init PROVE EvenInv
        OBVIOUS
    <2>1. ix = EmptyIndex
        BY Zenon DEF Init
    <2>2. QED
        BY <2>1, EmptyIndexFacts DEF EvenInv
  <1>2. TypeInv /\ EvenInv /\ [Next]_vars => EvenInv'
    <2> SUFFICES ASSUME TypeInv, EvenInv, [Next]_vars
                 PROVE  EvenInv'
        OBVIOUS
    <2>1. Ranked(ix, ix', now)
        BY StepRanked
    <2>2. \A m, t : effectivePriority(m, t) = m.prio
        BY Zenon DEF effectivePriority
    <2>3. QED
        BY <2>1, <2>2 DEF Ranked, EvenInv
  <1>3. QED
      BY <1>1, <1>2, TypeInvariant, PTL DEF Spec

LEMMA EnqueueGrounds ==
    ASSUME NEW I, NEW i \in Index(I), Consistent(i), NEW id \in I, id \in Id,
           id \notin DOMAIN i.msgs, NEW m \in Message, NEW t \in Nat
    PROVE  LET j == applyEnqueue(i, id, m, t)
           IN /\ DOMAIN j.msgs = DOMAIN i.msgs \cup {id} /\ SameBut(i, j, id)
              /\ j.msgs[id].state # "inflight"
  <1>1. PICK j : j = applyEnqueue(i, id, m, t)
      OBVIOUS
  <1>2. /\ DOMAIN j.msgs = DOMAIN i.msgs \cup {id} /\ SameBut(i, j, id)
        /\ j.msgs[id].state = IF m.state = "dead" THEN "dead"
                              ELSE IF m.visible > t THEN "delayed" ELSE "ready"
        /\ j.nextSeq = IF m.seq >= i.nextSeq THEN m.seq + 1 ELSE i.nextSeq
        /\ j.dedup = IF m.dedup = NoDedup THEN i.dedup
                     ELSE Put(i.dedup, m.dedup,
                              [msg |-> id, expires |-> m.created + DedupWindow])
      BY <1>1, ApplyEnqueue
  <1>3. j.msgs[id].state # "inflight"
      BY <1>2, Zenon
  <1>4. QED
      BY <1>1, <1>2, <1>3, Zenon

\* Only Dequeue puts a message in flight.
LEMMA Leased ==
    ASSUME TypeInv, TypeInv', [Next]_vars,
           NEW a \in ix'.held["inflight"], a \notin ix.held["inflight"]
    PROVE  \E S, deadline : Delivered(promoteDue(ix, now), S, deadline) /\ a \in S
  <1>0. /\ ix \in Index(Ids) /\ Consistent(ix) /\ now \in Nat /\ Consistent(ix')
      BY QueueAssumption DEF TypeInv, IndexOK, ClockOK
  <1>1. /\ a \in DOMAIN ix'.msgs /\ ix'.msgs[a].state = "inflight"
        /\ a \in DOMAIN ix.msgs => ix.msgs[a].state # "inflight"
      BY <1>0 DEF Consistent, MsgState
  <1>2. ix'.msgs # ix.msgs
      BY <1>1
  <1>3. ix' # EmptyIndex
      BY <1>1, EmptyIndexFacts
  <1>4. ASSUME NEW id \in Ids, NEW m \in Message, id \notin DOMAIN ix.msgs,
               ix' = applyEnqueue(ix, id, m, now)
        PROVE  FALSE
    <2>1. id \in Id
        BY QueueAssumption DEF Ids, Id
    <2>2. /\ DOMAIN ix'.msgs = DOMAIN ix.msgs \cup {id} /\ SameBut(ix, ix', id)
          /\ ix'.msgs[id].state # "inflight"
      <3>1. PICK j : j = applyEnqueue(ix, id, m, now)
          OBVIOUS
      <3>2. DOMAIN j.msgs = DOMAIN ix.msgs \cup {id} /\ SameBut(ix, j, id)
            /\ j.msgs[id].state # "inflight"
          BY <1>0, <1>4, <2>1, <3>1, EnqueueGrounds
      <3>3. j = ix'
          BY <1>4, <3>1
      <3>4. QED
          BY <3>2, <3>3
    <2>3. QED
        BY <1>1, <2>2 DEF SameBut
  <1>5. ASSUME NEW id \in DOMAIN ix.msgs, ix' = applyAck(ix, id)
        PROVE  FALSE
    <2>1. DOMAIN ix'.msgs = DOMAIN ix.msgs \ {id} /\ SameBut(ix, ix', id)
        BY <1>0, <1>5, ApplyAck
    <2>2. QED
        BY <1>1, <2>1 DEF SameBut
  <1>6. ASSUME NEW id \in DOMAIN ix.msgs, ix' = applyAttempt(ix, id, now)
        PROVE  FALSE
    <2>1. /\ DOMAIN ix'.msgs = DOMAIN ix.msgs /\ SameBut(ix, ix', id)
          /\ ix'.msgs[id].state # "inflight"
        BY <1>0, <1>6, ApplyAttempt
    <2>2. QED
        BY <1>1, <2>1 DEF SameBut
  <1>7. ASSUME ix' = promoteDue(ix, now)
        PROVE  FALSE
    <2>1. PICK due : Moved(Ids, ix, ix', due, "ready")
        BY <1>0, <1>7, PromoteDue
    <2>2. QED
        BY <1>1, <2>1 DEF Moved
  <1>8. ASSUME Finished
        PROVE  FALSE
    <2>1. PICK aged : /\ aged = ix \/ aged = agePriorities(ix, now)
                      /\ ix' = aged \/ ix' = purgeDedup(aged, now)
        BY <1>8, Zenon DEF Finished
    <2>2. aged = ix \/ Moved(Ids, ix, aged, {}, "ready")
        BY <1>0, <2>1, AgePriorities
    <2>3. aged \in Index(Ids) /\ Consistent(aged)
        BY <1>0, <2>2 DEF Moved
    <2>4. ix'.msgs = aged.msgs
      <3>1. purgeDedup(aged, now).msgs = aged.msgs
          BY <1>0, <2>3, PurgeDedup
      <3>2. QED
          BY <2>1, <3>1
    <2>5. QED
        BY <1>1, <1>2, <2>2, <2>4 DEF Moved
  <1>9. PICK S, deadline : Delivered(promoteDue(ix, now), S, deadline)
    <2>1. IndexStep \/ ix'.msgs = ix.msgs
        BY IndexSteps
    <2>2. QED
        BY <1>2, <1>3, <1>4, <1>5, <1>6, <1>7, <1>8, <2>1, Zenon DEF IndexStep
  <1>10. a \in S
    <2>1. PICK i : i = promoteDue(ix, now)
        OBVIOUS
    <2>2. PICK due : Moved(Ids, ix, i, due, "ready")
        BY <1>0, <2>1, PromoteDue
    <2>3. i \in Index(Ids) /\ Consistent(i)
        BY <2>2 DEF Moved
    <2>4. S \subseteq i.held["ready"] /\ deadline \in Nat /\ ix' = lease(i, S, deadline)
        BY <1>9, <2>1, Zenon DEF Delivered
    <2>5. Moved(Ids, i, ix', S, "inflight")
      <3>1. Moved(Ids, i, lease(i, S, deadline), S, "inflight")
          BY <2>3, <2>4, LeaseOut
      <3>2. QED
          BY <2>4, <3>1
    <2>6. QED
        BY <1>1, <2>2, <2>5 DEF Moved
  <1>11. QED
      BY <1>9, <1>10

\* Dequeue hands out what comes first: of the messages that are visible when it
\* takes the mutex, none that it leaves behind comes before one that it takes, by
\* priority and then by Seq, whatever acks, nacks, expired leases, compactions and
\* restarts put them there.  With aging the order is that of the stored
\* priorities, which AgingKeepsUp is about.
THEOREM BestComesFirst ==
    ASSUME AgingInterval = 0 \/ ~PriorityEnabled
    PROVE  Spec => DeliveredIsBest
  <1>1. TypeInv /\ TypeInv' /\ EvenInv /\ [Next]_vars
        => [\A a \in ix'.held["inflight"] \ ix.held["inflight"] :
              \A b \in DOMAIN ix.msgs \ ix'.held["inflight"] :
                ix.msgs[b].state \in {"ready", "delayed"} /\ ix.msgs[b].visible <= now
                  => Before(ix.msgs[a], ix.msgs[b])]_vars
    <2> SUFFICES ASSUME TypeInv, TypeInv', EvenInv, [Next]_vars,
                        NEW a \in ix'.held["inflight"], a \notin ix.held["inflight"],
                        NEW b \in DOMAIN ix.msgs, b \notin ix'.held["inflight"],
                        ix.msgs[b].state \in {"ready", "delayed"}, ix.msgs[b].visible <= now
                 PROVE  Before(ix.msgs[a], ix.msgs[b])
        OBVIOUS
    <2>0. ix \in Index(Ids) /\ Consistent(ix) /\ now \in Nat
        BY QueueAssumption DEF TypeInv, IndexOK, ClockOK
    <2>1. PICK i : i = promoteDue(ix, now)
        OBVIOUS
    <2>2. PICK S, deadline : Delivered(i, S, deadline) /\ a \in S
        BY <2>1, Leased
    <2>3. PICK due : /\ due = {x \in ix.held["delayed"] : ix.msgs[x].visible <= now}
                     /\ Moved(Ids, ix, i, due, "ready")
        BY <2>0, <2>1, PromoteDue
    <2>4. i \in Index(Ids) /\ Consistent(i) /\ DOMAIN i.msgs = DOMAIN ix.msgs
        BY <2>3 DEF Moved
    <2>5. /\ S \subseteq i.held["ready"] /\ deadline \in Nat /\ ix' = lease(i, S, deadline)
          /\ \A x \in S, y \in i.held["ready"] \ S : less(i.msgs[x], i.msgs[y])
        BY <2>2, Zenon DEF Delivered
    <2>6. Moved(Ids, i, ix', S, "inflight")
      <3>1. Moved(Ids, i, lease(i, S, deadline), S, "inflight")
          BY <2>4, <2>5, LeaseOut
      <3>2. QED
          BY <2>5, <3>1
    <2>7. b \notin S
      <3>1. SUFFICES ASSUME b \in S PROVE FALSE
          OBVIOUS
      <3>2. ix'.msgs[b].state = "inflight" /\ b \in DOMAIN ix'.msgs /\ Consistent(ix')
          BY <2>4, <2>6, <3>1 DEF Moved
      <3>3. QED
          BY <3>2 DEF Consistent, MsgState
    <2>8. b \in i.held["ready"]
      <3>1. ix.msgs[b].state = "delayed" => b \in due
          BY <2>0, <2>3 DEF Consistent, MsgState
      <3>2. i.msgs[b].state = "ready"
          BY <2>3, <3>1 DEF Moved
      <3>3. QED
          BY <2>4, <3>2 DEF Consistent, MsgState
    <2>9. less(i.msgs[a], i.msgs[b])
        BY <2>2, <2>5, <2>7, <2>8
    <2>10. ASSUME NEW x \in i.held["ready"]
           PROVE  /\ i.msgs[x].eff = ix.msgs[x].prio
                  /\ SameEntry(ix.msgs[x], i.msgs[x])
      <3>1. x \in DOMAIN ix.msgs /\ i.msgs[x].state = "ready"
          BY <2>4, <2>10 DEF Consistent, MsgState
      <3>2. SameEntry(ix.msgs[x], i.msgs[x])
          BY <2>3, <3>1 DEF Moved
      <3>3. Ranked(ix, i, now)
          BY <2>0, <2>1, PromoteRanked
      <3>4. effectivePriority(i.msgs[x], now) = i.msgs[x].prio
          BY Zenon DEF effectivePriority
      <3>5. QED
          BY <2>4, <3>1, <3>2, <3>3, <3>4 DEF Ranked, EvenInv, SameEntry
    <2>11. a \in i.held["ready"]
        BY <2>2, <2>5
    <2>12. QED
        BY <2>8, <2>9, <2>10, <2>11 DEF less, Before, SameEntry
  <1>2. QED
      BY <1>1, EvenAlways, TypeInvariant, PTL DEF Spec, DeliveredIsBest

-----------------------------------------------------------------------------
(***************************************************************************)
(* Aging.                                                                  *)
(***************************************************************************)
\* Adding the largest boost to a priority does not overflow an int.
NoOverflow == \A p \in Priority : p + AgingMaxBoost <= IntMax

LEMMA WrapNone ==
    ASSUME NEW n \in Int, -IntMax - 1 <= n, n <= IntMax
    PROVE  Wrap(n) = n
  <1>1. IntMax \in Nat \ {0}
      BY ConfigAssumption DEF ValidConfig
  <1>2. PICK k, w : k = n + IntMax + 1 /\ w = 2 * IntMax + 2
      OBVIOUS
  <1>3. k \in Nat /\ w \in Nat /\ k < w
      BY <1>1, <1>2
  <1>4. k % w = k
      BY <1>3
  <1>5. Wrap(n) = (k % w) - IntMax - 1
      BY <1>2 DEF Wrap
  <1>6. QED
      BY <1>1, <1>2, <1>4, <1>5

LEMMA DivGrows ==
    ASSUME NEW a \in Int, NEW b \in Int, NEW n \in Nat \ {0}, a <= b
    PROVE  a \div n <= b \div n
  OBVIOUS

\* A message's effective priority grows with its age.
LEMMA PriorityGrows ==
    ASSUME NoOverflow, NEW m \in Message, m.prio \in Priority,
           NEW s \in Nat, NEW t \in Nat, s <= t
    PROVE  effectivePriority(m, s) <= effectivePriority(m, t)
  <1>1. m.prio \in Int /\ m.created \in Nat
      BY DEF Message
  <1>2. CASE AgingInterval = 0 \/ ~PriorityEnabled
      BY <1>1, <1>2 DEF effectivePriority
  <1>3. CASE ~(AgingInterval = 0 \/ ~PriorityEnabled)
    <2> DEFINE age(u) == (u - m.created) \div AgingInterval
               boost(u) == CASE age(u) > AgingMaxBoost -> AgingMaxBoost
                             [] age(u) < 0 -> 0
                             [] OTHER -> age(u)
    <2>1. AgingInterval \in Nat \ {0} /\ AgingMaxBoost \in Nat /\ IntMax \in Nat
        BY <1>3, ConfigAssumption DEF ValidConfig
    <2>2. age(s) \in Int /\ age(t) \in Int /\ age(s) <= age(t)
      <3>1. PICK a, b : a = s - m.created /\ b = t - m.created
          OBVIOUS
      <3>2. a \in Int /\ b \in Int /\ a <= b
          BY <1>1, <3>1
      <3>3. a \div AgingInterval <= b \div AgingInterval
          BY <2>1, <3>2, DivGrows
      <3>4. a \div AgingInterval \in Int /\ b \div AgingInterval \in Int
          BY <2>1, <3>2
      <3>5. QED
          BY <3>1, <3>3, <3>4
    <2>3. /\ effectivePriority(m, s) = Wrap(m.prio + boost(s))
          /\ effectivePriority(m, t) = Wrap(m.prio + boost(t))
        BY <1>3, Zenon DEF effectivePriority
    <2> HIDE DEF age
    <2>4. boost(s) \in 0 .. AgingMaxBoost /\ boost(t) \in 0 .. AgingMaxBoost
          /\ boost(s) <= boost(t)
        BY <2>1, <2>2
    <2>5. PICK x, y : x = boost(s) /\ y = boost(t)
        OBVIOUS
    <2> HIDE DEF boost
    <2>6. x \in 0 .. AgingMaxBoost /\ y \in 0 .. AgingMaxBoost /\ x <= y
        BY <2>4, <2>5
    <2>7. m.prio + AgingMaxBoost <= IntMax /\ -IntMax - 1 <= m.prio
      <3>1. m.prio \in (-IntMax - 1) .. IntMax
          BY QueueAssumption, Zenon
      <3>2. m.prio + AgingMaxBoost <= IntMax
          BY Zenon DEF NoOverflow
      <3>3. QED
          BY <1>1, <2>1, <3>1, <3>2
    <2>8. Wrap(m.prio + x) = m.prio + x /\ Wrap(m.prio + y) = m.prio + y
      <3>1. m.prio + x \in Int /\ -IntMax - 1 <= m.prio + x /\ m.prio + x <= IntMax
          BY <1>1, <2>1, <2>6, <2>7
      <3>2. m.prio + y \in Int /\ -IntMax - 1 <= m.prio + y /\ m.prio + y <= IntMax
          BY <1>1, <2>1, <2>6, <2>7
      <3>3. QED
          BY <3>1, <3>2, WrapNone
    <2>9. effectivePriority(m, s) = m.prio + x /\ effectivePriority(m, t) = m.prio + y
        BY <2>3, <2>5, <2>8
    <2>10. QED
        BY <1>1, <2>1, <2>6, <2>9
  <1>4. QED
      BY <1>2, <1>3

\* The log and the index hold no priority but those that were asked for.
Offered(s) == \A k \in 1 .. Len(s) : s[k].type = "ENQUEUE" => s[k].m.prio \in Priority

PrioInv ==
    /\ Offered(log) /\ (dir # "log" => Offered(snap))
    /\ \A x \in DOMAIN ix.msgs : ix.msgs[x].prio \in Priority

LEMMA OfferedAppend ==
    ASSUME NEW s \in Seq(LogRecord), Offered(s), NEW r \in LogRecord,
           r.type = "ENQUEUE" => r.m.prio \in Priority
    PROVE  Offered(Append(s, r))
  <1> DEFINE t == Append(s, r)
  <1>1. /\ Len(t) = Len(s) + 1 /\ \A k \in 1 .. Len(s) : t[k] = s[k]
        /\ t[Len(s) + 1] = r
      BY AppendFacts
  <1> HIDE DEF t
  <1>2. Offered(t)
      BY <1>1 DEF Offered
  <1>3. QED
      BY <1>2 DEF t

LEMMA OfferedPrefix ==
    ASSUME NEW s \in Seq(LogRecord), Offered(s), NEW n \in 0 .. Len(s)
    PROVE  Offered(SubSeq(s, 1, n))
  <1> DEFINE t == SubSeq(s, 1, n)
  <1>1. Len(t) = n /\ \A k \in 1 .. n : t[k] = s[k]
      BY PrefixFacts
  <1> HIDE DEF t
  <1>2. Offered(t)
      BY <1>1 DEF Offered
  <1>3. QED
      BY <1>2 DEF t

LEMMA PrioStep ==
    ASSUME TypeInv, PrioInv, Classified
    PROVE  PrioInv'
  <1>0. /\ log \in Seq(LogRecord) /\ durable \in 0 .. Len(log) /\ snap \in Seq(LogRecord)
        /\ Len(born) \in Nat /\ DOMAIN ix.msgs \subseteq 1 .. Len(born)
      BY DEF TypeInv, StoreOK, HistoryOK, IndexOK
  <1>1. CASE Quiet
    <2>1. UNCHANGED <<log, snap>> /\ (dir' # "log" => dir # "log") /\ Calm(ix, ix', now)
        BY <1>1, Zenon DEF Quiet
    <2>2. \A x \in DOMAIN ix'.msgs : ix'.msgs[x].prio \in Priority
        BY <2>1 DEF Calm, SameEntry, PrioInv
    <2>3. QED
        BY <2>1, <2>2 DEF PrioInv
  <1>2. CASE \E S \in SUBSET Ids : Serve(S)
    <2>1. /\ UNCHANGED <<log, snap, dir>> /\ DOMAIN ix'.msgs = DOMAIN ix.msgs
          /\ \A x \in DOMAIN ix.msgs : SameEntry(ix.msgs[x], ix'.msgs[x])
        BY <1>2, Zenon DEF Serve
    <2>2. \A x \in DOMAIN ix'.msgs : ix'.msgs[x].prio \in Priority
        BY <2>1 DEF SameEntry, PrioInv
    <2>3. QED
        BY <2>1, <2>2 DEF PrioInv
  <1>3. CASE \E w \in waiting : Return(w)
    <2>1. UNCHANGED <<log, snap, dir, ix>>
        BY <1>3, Zenon DEF Return, logV, disk
    <2>2. QED
        BY <2>1 DEF PrioInv
  <1>4. ASSUME NEW d \in DedupId \cup {NoDedup}, NEW p \in Priority, NEW delay \in Delay,
               EnqueueStep(d, p, delay)
        PROVE  PrioInv'
    <2>1. PICK id, m, r : id = Len(born) + 1 /\ m = Fresh(d, p, delay) /\ r = EnqueueRec(id, m)
        OBVIOUS
    <2>2. /\ r \in LogRecord /\ log' = Append(log, r)
          /\ DOMAIN ix'.msgs = DOMAIN ix.msgs \cup {id}
          /\ SameBut(ix, ix', id) /\ SameEntry(m, ix'.msgs[id])
        BY <1>4, <2>1, EnqueueFacts
    <2>3. r.type = "ENQUEUE" /\ SameEntry(m, r.m)
        BY <2>1, EncodeFacts
    <2>4. m.prio = p
        BY <2>1 DEF Fresh
    <2>5. dir' = "log"
        BY <1>4, Zenon DEF EnqueueStep
    <2>6. r.m.prio \in Priority /\ ix'.msgs[id].prio \in Priority
        BY <2>2, <2>3, <2>4 DEF SameEntry
    <2>7. Offered(log')
        BY <1>0, <2>2, <2>6, OfferedAppend DEF PrioInv
    <2>8. \A x \in DOMAIN ix'.msgs : ix'.msgs[x].prio \in Priority
        BY <2>2, <2>6 DEF SameBut, PrioInv
    <2>9. QED
        BY <2>5, <2>7, <2>8 DEF PrioInv
  <1>5. ASSUME NEW id \in Ids, AckStep(id)
        PROVE  PrioInv'
    <2>1. AckRec(id) \in LogRecord /\ AckRec(id).type = "ACK"
        BY <1>5, AckFacts DEF AckRec
    <2>2. Offered(Append(log, AckRec(id)))
        BY <1>0, <2>1, OfferedAppend DEF PrioInv
    <2>3. log' = Append(log, AckRec(id)) /\ dir' = "log"
        BY <1>5, Zenon DEF AckStep
    <2>4. \A x \in DOMAIN ix'.msgs : x \in DOMAIN ix.msgs /\ ix'.msgs[x] = ix.msgs[x]
        BY <1>5, AckFacts DEF SameBut
    <2>5. QED
        BY <2>2, <2>3, <2>4 DEF PrioInv
  <1>6. ASSUME NEW id \in Ids, NEW r \in LogRecord, AttemptStep(id, r)
        PROVE  PrioInv'
    <2>1. /\ r.type # "ENQUEUE" /\ DOMAIN ix'.msgs = DOMAIN ix.msgs /\ SameBut(ix, ix', id)
          /\ ix'.msgs[id].prio = ix.msgs[id].prio
        BY <1>6, AttemptFacts
    <2>2. log' = Append(log, r) /\ dir' = "log"
        BY <1>6, Zenon DEF AttemptStep
    <2>3. Offered(log')
        BY <1>0, <2>1, <2>2, OfferedAppend DEF PrioInv
    <2>4. QED
        BY <2>1, <2>2, <2>3 DEF PrioInv, SameBut
  <1>7. CASE InstallStep
    <2>1. /\ Snapshot(snap') /\ UNCHANGED <<log, ix>>
        BY <1>7, Zenon DEF InstallStep
    <2>2. PICK a, b, L, R : Written(snap', a, b, L, R)
        BY <2>1, SnapshotWritten
    <2>3. ASSUME NEW k \in 1 .. Len(snap'), snap'[k].type = "ENQUEUE"
          PROVE  snap'[k].m.prio \in Priority
      <3>1. PICK i \in 1 .. a : /\ L[i] \in DOMAIN ix.msgs
                                /\ snap'[k] = EnqueueRec(L[i], ix.msgs[L[i]])
          BY <2>2, <2>3, SnapshotRecord
      <3>2. PICK m : m = ix.msgs[L[i]]
          OBVIOUS
      <3>3. SameEntry(m, snap'[k].m)
          BY <3>1, <3>2, EncodeFacts
      <3>4. QED
          BY <3>1, <3>2, <3>3 DEF PrioInv, SameEntry
    <2>4. QED
        BY <2>1, <2>3 DEF PrioInv, Offered
  <1>8. CASE ReopenStep
    <2>1. log' = snap /\ dir = "snap" /\ dir' = "log" /\ UNCHANGED ix
        BY <1>8, Zenon DEF ReopenStep
    <2>2. QED
        BY <2>1 DEF PrioInv
  <1>9. CASE StopStep
    <2>1. /\ dir' = "log" /\ ix' = EmptyIndex
          /\ \/ \E k \in durable .. Len(log) : log' = SubSeq(log, 1, k)
             \/ dir # "log" /\ log' = snap
        BY <1>9, StopFacts
    <2>2. \A k \in durable .. Len(log) : k \in 0 .. Len(log)
        BY <1>0
    <2>3. Offered(log')
        BY <1>0, <2>1, <2>2, OfferedPrefix DEF PrioInv
    <2>4. QED
        BY <2>1, <2>3, EmptyIndexFacts DEF PrioInv
  <1>10. CASE Load
    <2>1. UNCHANGED <<log, snap, dir>>
        BY <1>10, LoadCases, Zenon DEF LoadStep, RefusedStep
    <2>2. CASE LoadStep
      <3>1. PICK r : r = log[pos + 1]
          OBVIOUS
      <3>2. /\ r \in LogRecord /\ Replayed(ix, ix', r, now) /\ pos + 1 \in 1 .. Len(log)
          BY <2>2, <3>1, LoadFacts
      <3>3. r.type = "ENQUEUE" => r.m.prio \in Priority
          BY <3>1, <3>2 DEF PrioInv, Offered
      <3>4. r.type \in {"META", "ENQUEUE", "ACK", "NACK", "LEASE_EXPIRE", "DEDUP"}
          BY <3>2, RecordFacts
      <3>5. ASSUME NEW x \in DOMAIN ix'.msgs
            PROVE  ix'.msgs[x].prio \in Priority
        <4>1. CASE r.type \in {"META", "DEDUP"}
            BY <3>2, <4>1 DEF PrioInv, Replayed
        <4>2. CASE r.type = "ENQUEUE"
            BY <3>2, <3>3, <4>2 DEF PrioInv, Replayed, SameBut, SameEntry
        <4>3. CASE r.type = "ACK"
            BY <3>2, <4>3 DEF PrioInv, Replayed, SameBut
        <4>4. CASE r.type \in {"NACK", "LEASE_EXPIRE"}
            BY <3>2, <4>4 DEF PrioInv, Replayed, SameBut
        <4>5. QED
            BY <3>4, <4>1, <4>2, <4>3, <4>4
      <3>6. QED
          BY <2>1, <3>5 DEF PrioInv
    <2>3. CASE ~LoadStep
      <3>1. ix' = ix
          BY <1>10, <2>3, LoadCases, Zenon DEF RefusedStep
      <3>2. QED
          BY <2>1, <3>1 DEF PrioInv
    <2>4. QED
        BY <2>2, <2>3
  <1>11. QED
      BY <1>1, <1>2, <1>3, <1>4, <1>5, <1>6, <1>7, <1>8, <1>9, <1>10 DEF Classified

LEMMA PrioAlways == Spec => []PrioInv
  <1>1. Init => PrioInv
    <2> SUFFICES ASSUME Init PROVE PrioInv
        OBVIOUS
    <2>1. log = <<Meta(0)>> /\ ix = EmptyIndex /\ dir = "log"
        BY Zenon DEF Init
    <2>2. Offered(log)
        BY <2>1 DEF Offered, Meta
    <2>3. QED
        BY <2>1, <2>2, EmptyIndexFacts DEF PrioInv
  <1>2. TypeInv /\ PrioInv /\ [Next]_vars => PrioInv'
      BY Classify, PrioStep
  <1>3. QED
      BY <1>1, <1>2, TypeInvariant, PTL DEF Spec

\* The clock moves by itself.
LEMMA ClockAlone ==
    ASSUME TypeInv, [Next]_vars
    PROVE  now' = now \/ (now' = now + 1 /\ ix' = ix)
  <1>1. CASE Request
    <2>1. CASE \E d \in DedupId \cup {NoDedup}, p \in Priority, delay \in Delay :
                 Enqueue(d, p, delay)
        BY <2>1, Zenon DEF Enqueue, AppendRefused, AppendAndApply
    <2>2. CASE ~\E d \in DedupId \cup {NoDedup}, p \in Priority, delay \in Delay :
                  Enqueue(d, p, delay)
        BY <1>1, <2>2, Zenon DEF Request, EnqueueDuplicate, Dequeue, Deliver, Ack, Nack,
           AppendRefused, AppendAndApply
    <2>3. QED
        BY <2>1, <2>2
  <1>2. CASE Answer \/ Tick
      BY <1>2, Zenon DEF Answer, Return, ReturnError, Tick, TickStart, TickExpire,
         TickFinish, TickAwait
  <1>3. CASE Compact
      BY <1>3, Zenon DEF Compact, CompactBegin, CompactSync, CompactDirSync, CompactReopen
  <1>4. CASE Flush \/ Close \/ Crash \/ Exit
      BY <1>4, Zenon DEF Flush, Close, Crash, Exit, Stops
  <1>5. CASE Advance
      BY <1>5, Zenon DEF Advance, proc
  <1>6. CASE Load
      BY <1>6, LoadCases, Zenon DEF LoadStep, RefusedStep
  <1>7. CASE UNCHANGED vars
      BY <1>7, Zenon DEF vars
  <1>8. QED
      BY <1>1, <1>2, <1>3, <1>4, <1>5, <1>6, <1>7, Zenon DEF Next

\* No step changes what a message's priority is computed from.
LEMMA StepKept ==
    ASSUME TypeInv, [Next]_vars, NEW x \in DOMAIN ix.msgs, x \in DOMAIN ix'.msgs
    PROVE  ix'.msgs[x].prio = ix.msgs[x].prio /\ ix'.msgs[x].created = ix.msgs[x].created
  <1>0. ix \in Index(Ids) /\ Consistent(ix) /\ now \in Nat
      BY QueueAssumption DEF TypeInv, IndexOK, ClockOK
  <1>1. CASE ix'.msgs = ix.msgs
      BY <1>1
  <1>2. CASE ix' = EmptyIndex
      BY <1>2, EmptyIndexFacts
  <1>3. ASSUME NEW id \in Ids, NEW m \in Message, id \notin DOMAIN ix.msgs,
               ix' = applyEnqueue(ix, id, m, now)
        PROVE  ix'.msgs[x] = ix.msgs[x]
    <2>1. id \in Id
        BY QueueAssumption DEF Ids, Id
    <2>2. SameBut(ix, applyEnqueue(ix, id, m, now), id)
        BY <1>0, <1>3, <2>1, ApplyEnqueue
    <2>3. x \in DOMAIN ix.msgs \ {id}
        BY <1>3
    <2>4. QED
        BY <1>3, <2>2, <2>3 DEF SameBut
  <1>4. ASSUME NEW S, NEW deadline, Delivered(promoteDue(ix, now), S, deadline)
        PROVE  SameEntry(ix.msgs[x], ix'.msgs[x])
    <2>1. PICK i, j : i = promoteDue(ix, now) /\ j = lease(i, S, deadline)
        OBVIOUS
    <2>2. i \in Index(Ids) /\ Consistent(i) /\ x \in DOMAIN i.msgs
          /\ SameEntry(ix.msgs[x], i.msgs[x])
        BY <1>0, <2>1, PromoteDue DEF Moved
    <2>3. S \subseteq i.held["ready"] /\ deadline \in Nat /\ ix' = j
        BY <1>4, <2>1, Zenon DEF Delivered
    <2>4. SameEntry(i.msgs[x], j.msgs[x])
        BY <2>1, <2>2, <2>3, LeaseOut DEF Moved
    <2>5. QED
        BY <2>2, <2>3, <2>4 DEF SameEntry
  <1>5. ASSUME NEW id \in DOMAIN ix.msgs, ix' = applyAck(ix, id)
        PROVE  ix'.msgs[x] = ix.msgs[x]
    <2>1. PICK j : j = applyAck(ix, id)
        OBVIOUS
    <2>2. DOMAIN j.msgs = DOMAIN ix.msgs \ {id} /\ SameBut(ix, j, id) /\ ix' = j
        BY <1>0, <1>5, <2>1, ApplyAck
    <2>3. QED
        BY <2>2 DEF SameBut
  <1>6. ASSUME NEW id \in DOMAIN ix.msgs, ix' = applyAttempt(ix, id, now)
        PROVE  ix'.msgs[x].prio = ix.msgs[x].prio /\ ix'.msgs[x].created = ix.msgs[x].created
    <2>1. PICK j : j = applyAttempt(ix, id, now)
        OBVIOUS
    <2>2. /\ SameBut(ix, j, id) /\ ix' = j
          /\ j.msgs[id].prio = ix.msgs[id].prio /\ j.msgs[id].created = ix.msgs[id].created
        BY <1>0, <1>6, <2>1, ApplyAttempt
    <2>3. QED
        BY <2>2 DEF SameBut
  <1>7. CASE ix' = promoteDue(ix, now)
    <2>1. PICK j : j = promoteDue(ix, now)
        OBVIOUS
    <2>2. SameEntry(ix.msgs[x], j.msgs[x])
        BY <1>0, <2>1, PromoteDue DEF Moved
    <2>3. QED
        BY <1>7, <2>1, <2>2 DEF SameEntry
  <1>8. CASE Finished
    <2>1. PICK aged : /\ aged = ix \/ aged = agePriorities(ix, now)
                      /\ ix' = aged \/ ix' = purgeDedup(aged, now)
        BY <1>8, Zenon DEF Finished
    <2>2. aged \in Index(Ids) /\ Consistent(aged) /\ SameEntry(ix.msgs[x], aged.msgs[x])
      <3>1. CASE aged = ix
          BY <1>0, <3>1 DEF SameEntry
      <3>2. CASE aged = agePriorities(ix, now)
          BY <1>0, <3>2, AgePriorities DEF Moved
      <3>3. QED
          BY <2>1, <3>1, <3>2
    <2>3. ix'.msgs = aged.msgs
      <3>1. purgeDedup(aged, now).msgs = aged.msgs
          BY <1>0, <2>2, PurgeDedup
      <3>2. QED
          BY <2>1, <3>1
    <2>4. QED
        BY <2>2, <2>3 DEF SameEntry
  <1>9. QED
    <2>1. IndexStep \/ ix'.msgs = ix.msgs
        BY IndexSteps
    <2>2. CASE \E id \in Ids, m \in Message : id \notin DOMAIN ix.msgs
                                           /\ ix' = applyEnqueue(ix, id, m, now)
        BY <1>3, <2>2
    <2>3. CASE \E S, deadline : Delivered(promoteDue(ix, now), S, deadline)
        BY <1>4, <2>3 DEF SameEntry
    <2>4. CASE \E id \in DOMAIN ix.msgs : ix' = applyAck(ix, id)
        BY <1>5, <2>4
    <2>5. CASE \E id \in DOMAIN ix.msgs : ix' = applyAttempt(ix, id, now)
        BY <1>6, <2>5
    <2>6. QED
        BY <1>1, <1>2, <1>7, <1>8, <2>1, <2>2, <2>3, <2>4, <2>5, Zenon DEF IndexStep

\* No ready message is stored with a priority ahead of the clock.
AgeInv ==
    \A x \in DOMAIN ix.msgs :
        ix.msgs[x].state = "ready" => ix.msgs[x].eff <= effectivePriority(ix.msgs[x], now)

\* After an aging pass every ready message has the priority of its age.
LEMMA FinishedRanked ==
    ASSUME TypeInv, Finished, lastAge' # lastAge,
           NEW x \in DOMAIN ix'.msgs, ix'.msgs[x].state = "ready"
    PROVE  lastAge' = now /\ ix'.msgs[x].eff = effectivePriority(ix'.msgs[x], now)
  <1>0. ix \in Index(Ids) /\ Consistent(ix) /\ now \in Nat
      BY QueueAssumption DEF TypeInv, IndexOK, ClockOK
  <1>1. PICK aged : /\ aged = agePriorities(ix, now) /\ lastAge' = now
                    /\ ix' = aged \/ ix' = purgeDedup(aged, now)
      BY Zenon DEF Finished
  <1>2. aged \in Index(Ids) /\ Consistent(aged)
      BY <1>0, <1>1, AgePriorities DEF Moved
  <1>3. ix'.msgs = aged.msgs
    <2>1. purgeDedup(aged, now).msgs = aged.msgs
        BY <1>0, <1>2, PurgeDedup
    <2>2. QED
        BY <1>1, <2>1
  <1>4. QED
      BY <1>0, <1>1, <1>3, AgeRanked

\* What a step leaves a ready message with.
LEMMA AgingStep ==
    ASSUME NoOverflow, TypeInv, TypeInv', PrioInv, PrioInv', AgeInv, [Next]_vars,
           NEW x \in DOMAIN ix'.msgs, NEW m, m = ix'.msgs[x], m.state = "ready"
    PROVE  /\ m.eff <= effectivePriority(m, now')
           /\ \/ m.eff = effectivePriority(m, now)
              \/ x \in DOMAIN ix.msgs /\ m = ix.msgs[x]
           /\ x \in DOMAIN ix.msgs /\ ix.msgs[x].state = "ready" => ix.msgs[x].eff <= m.eff
  <1>0. now \in Nat /\ now' \in Nat /\ now <= now'
    <2>1. ClockOK /\ ClockOK' /\ MaxTime \in Nat
        BY QueueAssumption DEF TypeInv
    <2>2. now' = now \/ now' = now + 1
        BY ClockAlone
    <2>3. QED
        BY <2>1, <2>2 DEF ClockOK
  <1>1. m \in Message /\ m.prio \in Priority /\ m.eff \in Int
    <2>1. ix' \in Index(Ids)
        BY DEF TypeInv, IndexOK
    <2>2. m \in Message /\ m.prio \in Priority
        BY <2>1, Fields DEF PrioInv
    <2>3. QED
        BY <2>2 DEF Message
  <1>2. effectivePriority(m, now) \in Int /\ effectivePriority(m, now') \in Int
      BY <1>0, <1>1, PriorityType
  <1>3. effectivePriority(m, now) <= effectivePriority(m, now')
      BY <1>0, <1>1, PriorityGrows
  <1>4. m.eff = effectivePriority(m, now) \/ (x \in DOMAIN ix.msgs /\ m = ix.msgs[x])
    <2>1. Ranked(ix, ix', now)
        BY StepRanked
    <2>2. QED
        BY <2>1 DEF Ranked
  <1>5. m.eff <= effectivePriority(m, now)
      BY <1>1, <1>2, <1>4 DEF AgeInv
  <1>6. ASSUME x \in DOMAIN ix.msgs, ix.msgs[x].state = "ready"
        PROVE  ix.msgs[x].eff <= m.eff
    <2>1. PICK n : n = ix.msgs[x]
        OBVIOUS
    <2>2. n.prio = m.prio /\ n.created = m.created
        BY <1>6, <2>1, StepKept
    <2>3. effectivePriority(n, now) = effectivePriority(m, now)
        BY <2>2, PriorityOf
    <2>4. n.eff <= effectivePriority(n, now)
        BY <1>6, <2>1 DEF AgeInv
    <2>5. QED
        BY <1>1, <1>4, <2>1, <2>3, <2>4
  <1>7. QED
      BY <1>1, <1>2, <1>3, <1>4, <1>5, <1>6

LEMMA AgeAlways ==
    ASSUME NoOverflow
    PROVE  Spec => []AgeInv
  <1>1. Init => AgeInv
    <2> SUFFICES ASSUME Init PROVE AgeInv
        OBVIOUS
    <2>1. ix = EmptyIndex
        BY Zenon DEF Init
    <2>2. QED
        BY <2>1, EmptyIndexFacts DEF AgeInv
  <1>2. TypeInv /\ TypeInv' /\ PrioInv /\ PrioInv' /\ AgeInv /\ [Next]_vars => AgeInv'
    <2> SUFFICES ASSUME TypeInv, TypeInv', PrioInv, PrioInv', AgeInv, [Next]_vars,
                        NEW x \in DOMAIN ix'.msgs, ix'.msgs[x].state = "ready"
                 PROVE  ix'.msgs[x].eff <= effectivePriority(ix'.msgs[x], now')
        BY Zenon DEF AgeInv
    <2>1. QED
        BY AgingStep
  <1>3. QED
      BY <1>1, <1>2, TypeInvariant, PrioAlways, PTL DEF Spec

\* Aging keeps up: a message comes to the ready heap, out of an enqueue, a delay,
\* a lease or a replay, with the priority of its age at that moment, every
\* agePriorities leaves the whole heap with the priorities of that moment, and in
\* between none falls back or runs ahead of the clock, however long a load takes,
\* as long as no priority is so large that the boost overflows int
\* (effectivePriority has no test for it).
THEOREM AgingKeepsUp ==
    ASSUME NoOverflow
    PROVE  Spec => AgingCurrent
  <1>1. TypeInv /\ TypeInv' /\ PrioInv /\ PrioInv' /\ AgeInv /\ [Next]_vars
        => [\A id \in ix'.held["ready"] :
              LET m == ix'.msgs[id]
                  ranked == \/ id \notin ix.held["ready"]
                            \/ phase = "up" /\ lastAge' # lastAge
              IN /\ ranked => m.eff = effectivePriority(m, now)
                 /\ ~ranked => ix.msgs[id].eff <= m.eff
                 /\ m.eff <= effectivePriority(m, now')]_vars
    <2> SUFFICES ASSUME TypeInv, TypeInv', PrioInv, PrioInv', AgeInv, [Next]_vars,
                        NEW id \in ix'.held["ready"], NEW m, m = ix'.msgs[id]
                 PROVE  /\ (id \notin ix.held["ready"] \/ (phase = "up" /\ lastAge' # lastAge))
                             => m.eff = effectivePriority(m, now)
                        /\ ~(id \notin ix.held["ready"] \/ (phase = "up" /\ lastAge' # lastAge))
                             => ix.msgs[id].eff <= m.eff
                        /\ m.eff <= effectivePriority(m, now')
        BY Zenon
    <2>1. Consistent(ix) /\ Consistent(ix') /\ ix' \in Index(Ids)
        BY DEF TypeInv, IndexOK
    <2>2. id \in DOMAIN ix'.msgs /\ m.state = "ready"
        BY <2>1 DEF Consistent, MsgState
    <2>3. /\ m.eff <= effectivePriority(m, now')
          /\ \/ m.eff = effectivePriority(m, now)
             \/ id \in DOMAIN ix.msgs /\ m = ix.msgs[id]
          /\ id \in DOMAIN ix.msgs /\ ix.msgs[id].state = "ready" => ix.msgs[id].eff <= m.eff
        BY <2>2, AgingStep
    <2>4. id \in ix.held["ready"] <=> (id \in DOMAIN ix.msgs /\ ix.msgs[id].state = "ready")
        BY <2>1 DEF Consistent, MsgState
    <2>5. CASE id \notin ix.held["ready"]
        BY <2>2, <2>3, <2>4, <2>5
    <2>6. CASE id \in ix.held["ready"] /\ phase = "up" /\ lastAge' # lastAge
      <3>1. ix' # EmptyIndex
          BY <2>2, EmptyIndexFacts
      <3>2. Finished
          BY <2>6, <3>1, IndexSteps, Zenon DEF AgeStep
      <3>3. m.eff = effectivePriority(m, now)
          BY <2>2, <2>6, <3>2, FinishedRanked
      <3>4. QED
          BY <2>3, <2>6, <3>3
    <2>7. CASE id \in ix.held["ready"] /\ ~(phase = "up" /\ lastAge' # lastAge)
        BY <2>3, <2>4, <2>7
    <2>8. QED
        BY <2>5, <2>6, <2>7
  <1>2. QED
      BY <1>1, AgeAlways, PrioAlways, TypeInvariant, PTL DEF Spec, AgingCurrent

=============================================================================
