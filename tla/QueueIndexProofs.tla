-------------------------- MODULE QueueIndexProofs --------------------------
(***************************************************************************)
(* Lemmas about the transitions of a queue's index, one for each apply*    *)
(* method, for place, detach, the promotion, the lease, the aging pass and *)
(* the purge.  Each says what becomes of the messages and that every       *)
(* message is still in the one structure its state names.                  *)
(***************************************************************************)
EXTENDS QueueIndex, TLAPS

\* The indexes over the ids I.
MsgMap(I) == UNION {[S -> Message] : S \in SUBSET I}
DedupMap == UNION {[D -> DedupEntry] : D \in SUBSET DedupId}
Index(I) ==
    [msgs : MsgMap(I), held : [MsgState -> SUBSET I], dedup : DedupMap,
     nextSeq : Nat]

\* n is m as a log would write it, but for being dead: only the heap it is
\* on, its effective priority and its lease may differ.
SameEntry(m, n) ==
    /\ n.dedup = m.dedup /\ n.seq = m.seq /\ n.prio = m.prio
    /\ n.created = m.created /\ n.visible = m.visible /\ n.attempts = m.attempts

\* j has the messages of i, but for id.
SameBut(i, j, id) == \A x \in DOMAIN i.msgs \ {id} : j.msgs[x] = i.msgs[x]

\* Every message but id is where its state says, and id is nowhere.
ConsistentBut(i, id) ==
    \A s \in MsgState :
        i.held[s] = {x \in DOMAIN i.msgs \ {id} : i.msgs[x].state = s}

LEMMA WrapType ==
    ASSUME NEW n \in Int
    PROVE  Wrap(n) \in Int
  <1>1. IntMax \in Nat \ {0}
      BY ConfigAssumption DEF ValidConfig
  <1>2. QED
      BY <1>1 DEF Wrap

LEMMA PriorityType ==
    ASSUME NEW m \in Message, NEW t \in Nat
    PROVE  effectivePriority(m, t) \in Int
  <1>1. m.prio \in Int /\ m.created \in Nat
      BY DEF Message
  <1>2. CASE AgingInterval = 0 \/ ~PriorityEnabled
      BY <1>1, <1>2 DEF effectivePriority
  <1>3. CASE ~(AgingInterval = 0 \/ ~PriorityEnabled)
    <2> DEFINE age == (t - m.created) \div AgingInterval
               boost == CASE age > AgingMaxBoost -> AgingMaxBoost
                          [] age < 0 -> 0
                          [] OTHER -> age
    <2>1. AgingInterval \in Nat \ {0} /\ AgingMaxBoost \in Nat
        BY <1>3, ConfigAssumption DEF ValidConfig
    <2>2. age \in Int
        BY <1>1, <2>1
    <2> HIDE DEF age
    <2>3. boost \in Int
        BY <2>1, <2>2
    <2> HIDE DEF boost
    <2>4. Wrap(m.prio + boost) \in Int
        BY <1>1, <2>3, WrapType
    <2>5. QED
        BY <1>3, <2>4, Zenon DEF effectivePriority, boost, age
  <1>4. QED
      BY <1>2, <1>3

-----------------------------------------------------------------------------
LEMMA MapFacts ==
    ASSUME NEW I, NEW f
    PROVE  f \in MsgMap(I) <=> f \in [DOMAIN f -> Message] /\ DOMAIN f \subseteq I
  BY DEF MsgMap

LEMMA DedupFacts ==
    ASSUME NEW f
    PROVE  f \in DedupMap <=> f \in [DOMAIN f -> DedupEntry] /\ DOMAIN f \subseteq DedupId
  BY DEF DedupMap

LEMMA PutMsg ==
    ASSUME NEW I, NEW f \in MsgMap(I), NEW k \in I, NEW m \in Message
    PROVE  /\ Put(f, k, m) \in MsgMap(I)
           /\ DOMAIN Put(f, k, m) = DOMAIN f \cup {k}
           /\ Put(f, k, m)[k] = m
           /\ \A x \in DOMAIN f \ {k} : Put(f, k, m)[x] = f[x]
  <1>1. f \in [DOMAIN f -> Message] /\ DOMAIN f \subseteq I
      BY MapFacts
  <1>2. Put(f, k, m) \in [DOMAIN f \cup {k} -> Message] /\ DOMAIN f \cup {k} \subseteq I
      BY <1>1 DEF Put
  <1>3. QED
      BY <1>1, <1>2 DEF Put, MsgMap

LEMMA PutDedup ==
    ASSUME NEW f \in DedupMap, NEW k \in DedupId, NEW e \in DedupEntry
    PROVE  /\ Put(f, k, e) \in DedupMap
           /\ DOMAIN Put(f, k, e) = DOMAIN f \cup {k}
           /\ Put(f, k, e)[k] = e
           /\ \A x \in DOMAIN f \ {k} : Put(f, k, e)[x] = f[x]
  <1>1. f \in [DOMAIN f -> DedupEntry] /\ DOMAIN f \subseteq DedupId
      BY DedupFacts
  <1>2. Put(f, k, e) \in [DOMAIN f \cup {k} -> DedupEntry] /\ DOMAIN f \cup {k} \subseteq DedupId
      BY <1>1 DEF Put
  <1>3. QED
      BY <1>1, <1>2 DEF Put, DedupMap

LEMMA WithoutMsg ==
    ASSUME NEW I, NEW f \in MsgMap(I), NEW K
    PROVE  /\ Without(f, K) \in MsgMap(I)
           /\ DOMAIN Without(f, K) = DOMAIN f \ K
           /\ \A x \in DOMAIN f \ K : Without(f, K)[x] = f[x]
  <1>1. f \in [DOMAIN f -> Message] /\ DOMAIN f \subseteq I
      BY MapFacts
  <1>2. Without(f, K) \in [DOMAIN f \ K -> Message] /\ DOMAIN f \ K \subseteq I
      BY <1>1 DEF Without
  <1>3. QED
      BY <1>1, <1>2 DEF Without, MsgMap

LEMMA WithoutDedup ==
    ASSUME NEW f \in DedupMap, NEW K
    PROVE  /\ Without(f, K) \in DedupMap
           /\ DOMAIN Without(f, K) = DOMAIN f \ K
           /\ \A x \in DOMAIN f \ K : Without(f, K)[x] = f[x]
  <1>1. f \in [DOMAIN f -> DedupEntry] /\ DOMAIN f \subseteq DedupId
      BY DedupFacts
  <1>2. Without(f, K) \in [DOMAIN f \ K -> DedupEntry] /\ DOMAIN f \ K \subseteq DedupId
      BY <1>1 DEF Without
  <1>3. QED
      BY <1>1, <1>2 DEF Without, DedupMap

LEMMA Fields ==
    ASSUME NEW I, NEW i \in Index(I)
    PROVE  /\ i.msgs \in MsgMap(I) /\ i.held \in [MsgState -> SUBSET I]
           /\ i.dedup \in DedupMap /\ i.nextSeq \in Nat
           /\ DOMAIN i = {"msgs", "held", "dedup", "nextSeq"}
           /\ DOMAIN i.msgs \subseteq I
           /\ \A x \in DOMAIN i.msgs : i.msgs[x] \in Message
  <1>1. i.msgs \in MsgMap(I)
      BY DEF Index
  <1>2. i.msgs \in [DOMAIN i.msgs -> Message] /\ DOMAIN i.msgs \subseteq I
      BY <1>1, MapFacts
  <1>3. QED
      BY <1>1, <1>2 DEF Index

-----------------------------------------------------------------------------
(***************************************************************************)
(* The transitions.                                                        *)
(***************************************************************************)
LEMMA Detach ==
    ASSUME NEW I, NEW i \in Index(I), Consistent(i), NEW id \in DOMAIN i.msgs
    PROVE  /\ detach(i, id) \in Index(I)
           /\ ConsistentBut(detach(i, id), id)
           /\ detach(i, id).msgs = i.msgs
           /\ detach(i, id).dedup = i.dedup
           /\ detach(i, id).nextSeq = i.nextSeq
  <1> DEFINE s == i.msgs[id].state
             j == [i EXCEPT !.held[s] = @ \ {id}]
  <1>1. /\ s \in MsgState /\ i.held \in [MsgState -> SUBSET I]
      BY Fields DEF Message
  <1> HIDE DEF s
  <1>2. j \in Index(I)
      BY <1>1 DEF Index
  <1>3. j.msgs = i.msgs /\ j.dedup = i.dedup /\ j.nextSeq = i.nextSeq
      BY DEF Index
  <1>4. j.held = [i.held EXCEPT ![s] = @ \ {id}]
      BY DEF Index
  <1>5. detach(i, id) = j
      BY Zenon DEF detach, s
  <1> HIDE DEF j
  <1>6. ConsistentBut(j, id)
      BY <1>1, <1>3, <1>4 DEF Consistent, ConsistentBut, s
  <1>7. QED
      BY <1>2, <1>3, <1>5, <1>6

LEMMA Undetached ==
    ASSUME NEW i, Consistent(i), NEW id, id \notin DOMAIN i.msgs
    PROVE  ConsistentBut(i, id)
  BY DEF Consistent, ConsistentBut

\* A message put on the heap or list its state names.
settled(i, id, m, s) == [i EXCEPT !.msgs = Put(@, id, m), !.held[s] = @ \cup {id}]

LEMMA Settle ==
    ASSUME NEW I, NEW i \in Index(I), NEW id \in I, ConsistentBut(i, id),
           NEW m \in Message, NEW s, s = m.state
    PROVE  LET j == settled(i, id, m, s)
           IN /\ j \in Index(I) /\ Consistent(j)
              /\ DOMAIN j.msgs = DOMAIN i.msgs \cup {id}
              /\ SameBut(i, j, id) /\ j.msgs[id] = m
              /\ j.dedup = i.dedup /\ j.nextSeq = i.nextSeq
  <1> DEFINE f == Put(i.msgs, id, m)
             j == settled(i, id, m, s)
  <1>1. /\ s \in MsgState /\ i.held \in [MsgState -> SUBSET I]
        /\ i.msgs \in MsgMap(I)
      BY Fields DEF Message
  <1>2. /\ f \in MsgMap(I) /\ DOMAIN f = DOMAIN i.msgs \cup {id} /\ f[id] = m
        /\ \A x \in DOMAIN i.msgs \ {id} : f[x] = i.msgs[x]
    <2>1. f \in MsgMap(I)
        BY <1>1, PutMsg, Zenon
    <2>2. /\ DOMAIN f = DOMAIN i.msgs \cup {id} /\ f[id] = m
          /\ \A x \in DOMAIN i.msgs \ {id} : f[x] = i.msgs[x]
        BY DEF Put
    <2>3. QED
        BY <2>1, <2>2
  <1>3. j = [i EXCEPT !.msgs = f, !.held[s] = @ \cup {id}]
      BY DEF settled
  <1> HIDE DEF f, j
  <1>4. j \in Index(I)
      BY <1>1, <1>2, <1>3 DEF Index
  <1>5. j.msgs = f /\ j.dedup = i.dedup /\ j.nextSeq = i.nextSeq
      BY <1>3 DEF Index
  <1>6. j.held = [i.held EXCEPT ![s] = @ \cup {id}]
      BY <1>3 DEF Index
  <1>7. Consistent(j)
      BY <1>1, <1>2, <1>5, <1>6 DEF Consistent, ConsistentBut
  <1>8. QED
      BY <1>2, <1>4, <1>5, <1>7 DEF SameBut, j

LEMMA Place ==
    ASSUME NEW I, NEW i \in Index(I), NEW id \in I, ConsistentBut(i, id),
           NEW m \in Message, NEW t \in Nat
    PROVE  LET j == place(i, id, m, t)
           IN /\ j \in Index(I) /\ Consistent(j)
              /\ DOMAIN j.msgs = DOMAIN i.msgs \cup {id}
              /\ SameBut(i, j, id) /\ SameEntry(m, j.msgs[id])
              /\ j.msgs[id].state = IF m.visible > t THEN "delayed" ELSE "ready"
              /\ j.dedup = i.dedup /\ j.nextSeq = i.nextSeq
  <1> DEFINE s == IF m.visible > t THEN "delayed" ELSE "ready"
             e == IF s = "ready" THEN effectivePriority(m, t) ELSE m.eff
             p == [m EXCEPT !.state = s, !.deadline = 0, !.eff = e]
             j == settled(i, id, p, s)
  <1>1. effectivePriority(m, t) \in Int
      BY PriorityType
  <1>2. m.eff \in Int
      BY DEF Message
  <1>3. e \in Int
      BY <1>1, <1>2
  <1>4. s \in MsgState
      BY DEF MsgState
  <1>5. place(i, id, m, t) = j
      BY Zenon DEF place, settled
  <1> HIDE DEF e
  <1>6. s = "ready" \/ s = "delayed"
      OBVIOUS
  <1> HIDE DEF s
  <1>7. p \in Message
      BY <1>3, <1>4 DEF Message
  <1>8. SameEntry(m, p) /\ p.state = s
      BY DEF Message, SameEntry
  <1> HIDE DEF p
  <1>9. /\ j \in Index(I) /\ Consistent(j)
        /\ DOMAIN j.msgs = DOMAIN i.msgs \cup {id}
        /\ SameBut(i, j, id) /\ j.msgs[id] = p
        /\ j.dedup = i.dedup /\ j.nextSeq = i.nextSeq
      BY <1>7, <1>8, Settle
  <1> HIDE DEF j
  <1>10. QED
      BY <1>5, <1>8, <1>9, Zenon DEF s

LEMMA Bury ==
    ASSUME NEW I, NEW i \in Index(I), NEW id \in I, ConsistentBut(i, id),
           NEW m \in Message
    PROVE  LET j == bury(i, id, m)
           IN /\ j \in Index(I) /\ Consistent(j)
              /\ DOMAIN j.msgs = DOMAIN i.msgs \cup {id}
              /\ SameBut(i, j, id) /\ SameEntry(m, j.msgs[id])
              /\ j.msgs[id].state = "dead"
              /\ j.dedup = i.dedup /\ j.nextSeq = i.nextSeq
  <1> DEFINE p == [m EXCEPT !.state = "dead", !.deadline = 0]
             j == settled(i, id, p, "dead")
  <1>1. p \in Message
      BY DEF Message, MsgState
  <1>2. SameEntry(m, p) /\ p.state = "dead"
      BY DEF Message, SameEntry
  <1>3. bury(i, id, m) = j
      BY Zenon DEF bury, settled
  <1> HIDE DEF p
  <1>4. /\ j \in Index(I) /\ Consistent(j)
        /\ DOMAIN j.msgs = DOMAIN i.msgs \cup {id}
        /\ SameBut(i, j, id) /\ j.msgs[id] = p
        /\ j.dedup = i.dedup /\ j.nextSeq = i.nextSeq
      BY <1>1, <1>2, Settle
  <1> HIDE DEF j
  <1>5. QED
      BY <1>2, <1>3, <1>4, Zenon

\* applyEnqueue: the message enters, its Seq is counted and its dedup id
\* remembered.
LEMMA ApplyEnqueue ==
    ASSUME NEW I, NEW i \in Index(I), Consistent(i), NEW id \in I, id \in Id,
           id \notin DOMAIN i.msgs, NEW m \in Message, NEW t \in Nat
    PROVE  LET j == applyEnqueue(i, id, m, t)
           IN /\ j \in Index(I) /\ Consistent(j)
              /\ DOMAIN j.msgs = DOMAIN i.msgs \cup {id}
              /\ SameBut(i, j, id) /\ SameEntry(m, j.msgs[id])
              /\ j.msgs[id].state = IF m.state = "dead" THEN "dead"
                                    ELSE IF m.visible > t THEN "delayed" ELSE "ready"
              /\ j.nextSeq = IF m.seq >= i.nextSeq THEN m.seq + 1 ELSE i.nextSeq
              /\ j.dedup = IF m.dedup = NoDedup THEN i.dedup
                           ELSE Put(i.dedup, m.dedup,
                                    [msg |-> id, expires |-> m.created + DedupWindow])
  <1> DEFINE n == IF m.seq >= i.nextSeq THEN m.seq + 1 ELSE i.nextSeq
             D == IF m.dedup = NoDedup THEN i.dedup
                  ELSE Put(i.dedup, m.dedup,
                           [msg |-> id, expires |-> m.created + DedupWindow])
             c == [i EXCEPT !.nextSeq = n, !.dedup = D]
             j == applyEnqueue(i, id, m, t)
  <1>1. i.nextSeq \in Nat /\ i.dedup \in DedupMap
      BY Fields
  <1>2. m.seq \in Nat /\ m.created \in Nat /\ m.dedup \in DedupId \cup {NoDedup}
      BY DEF Message
  <1>3. n \in Nat
      BY <1>1, <1>2
  <1>4. D \in DedupMap
    <2>1. DedupWindow \in Nat
        BY ConfigAssumption DEF ValidConfig
    <2>2. [msg |-> id, expires |-> m.created + DedupWindow] \in DedupEntry
        BY <1>2, <2>1 DEF DedupEntry
    <2>3. m.dedup # NoDedup => m.dedup \in DedupId
        BY <1>2
    <2> HIDE DEF n, c, j
    <2>4. m.dedup # NoDedup =>
            Put(i.dedup, m.dedup, [msg |-> id, expires |-> m.created + DedupWindow]) \in DedupMap
        BY <1>1, <2>2, <2>3, PutDedup
    <2>5. QED
        BY <1>1, <2>4
  <1>5. j = IF m.state = "dead" THEN bury(c, id, m) ELSE place(c, id, m, t)
      BY Zenon DEF applyEnqueue
  <1> HIDE DEF n, D, j
  <1>6. /\ c \in Index(I) /\ c.msgs = i.msgs /\ c.held = i.held
        /\ c.dedup = D /\ c.nextSeq = n
      BY <1>3, <1>4 DEF Index
  <1> HIDE DEF c
  <1>7. ConsistentBut(c, id)
      BY <1>6, Undetached DEF Consistent, ConsistentBut
  <1>8. CASE m.state = "dead"
    <2> DEFINE b == bury(c, id, m)
    <2>1. /\ b \in Index(I) /\ Consistent(b)
          /\ DOMAIN b.msgs = DOMAIN c.msgs \cup {id}
          /\ SameBut(c, b, id) /\ SameEntry(m, b.msgs[id])
          /\ b.msgs[id].state = "dead"
          /\ b.dedup = c.dedup /\ b.nextSeq = c.nextSeq
        BY <1>6, <1>7, Bury
    <2> HIDE DEF b
    <2>2. j = b
        BY <1>5, <1>8 DEF b
    <2>3. QED
        BY <1>6, <1>8, <2>1, <2>2, Zenon DEF SameBut, j, n, D
  <1>9. CASE m.state # "dead"
    <2> DEFINE b == place(c, id, m, t)
    <2>1. /\ b \in Index(I) /\ Consistent(b)
          /\ DOMAIN b.msgs = DOMAIN c.msgs \cup {id}
          /\ SameBut(c, b, id) /\ SameEntry(m, b.msgs[id])
          /\ b.msgs[id].state = IF m.visible > t THEN "delayed" ELSE "ready"
          /\ b.dedup = c.dedup /\ b.nextSeq = c.nextSeq
        BY <1>6, <1>7, Place
    <2> HIDE DEF b
    <2>2. j = b
        BY <1>5, <1>9 DEF b
    <2>3. QED
        BY <1>6, <1>9, <2>1, <2>2, Zenon DEF SameBut, j, n, D
  <1>10. QED
      BY <1>8, <1>9

\* applyAck: the message is gone, from byID and from its heap.
LEMMA ApplyAck ==
    ASSUME NEW I, NEW i \in Index(I), Consistent(i), NEW id \in DOMAIN i.msgs
    PROVE  LET j == applyAck(i, id)
           IN /\ j \in Index(I) /\ Consistent(j)
              /\ DOMAIN j.msgs = DOMAIN i.msgs \ {id}
              /\ SameBut(i, j, id)
              /\ j.dedup = i.dedup /\ j.nextSeq = i.nextSeq
  <1> DEFINE c == detach(i, id)
             f == Without(c.msgs, {id})
             j == [c EXCEPT !.msgs = f]
  <1>1. /\ c \in Index(I) /\ ConsistentBut(c, id) /\ c.msgs = i.msgs
        /\ c.dedup = i.dedup /\ c.nextSeq = i.nextSeq
      BY Detach
  <1>2. applyAck(i, id) = j
      BY Zenon DEF applyAck
  <1> HIDE DEF c
  <1>3. c.msgs \in MsgMap(I)
      BY <1>1, Fields
  <1>4. /\ f \in MsgMap(I) /\ DOMAIN f = DOMAIN c.msgs \ {id}
        /\ \A x \in DOMAIN c.msgs \ {id} : f[x] = c.msgs[x]
    <2>1. f \in MsgMap(I)
        BY <1>3, WithoutMsg, Zenon
    <2>2. /\ DOMAIN f = DOMAIN c.msgs \ {id}
          /\ \A x \in DOMAIN c.msgs \ {id} : f[x] = c.msgs[x]
        BY DEF Without
    <2>3. QED
        BY <2>1, <2>2
  <1> HIDE DEF f
  <1>5. /\ j \in Index(I) /\ j.msgs = f /\ j.held = c.held
        /\ j.dedup = c.dedup /\ j.nextSeq = c.nextSeq
      BY <1>1, <1>4 DEF Index
  <1> HIDE DEF j
  <1>6. Consistent(j)
      BY <1>1, <1>4, <1>5 DEF Consistent, ConsistentBut
  <1>7. QED
      BY <1>1, <1>2, <1>4, <1>5, <1>6 DEF SameBut

\* applyAttempt: one attempt more; the message is ready again, or dead when
\* that was the last.
LEMMA ApplyAttempt ==
    ASSUME NEW I, NEW i \in Index(I), Consistent(i), NEW id \in DOMAIN i.msgs,
           NEW t \in Nat
    PROVE  LET j == applyAttempt(i, id, t)
               m == i.msgs[id]
               n == j.msgs[id]
           IN /\ j \in Index(I) /\ Consistent(j)
              /\ DOMAIN j.msgs = DOMAIN i.msgs
              /\ SameBut(i, j, id)
              /\ n.dedup = m.dedup /\ n.seq = m.seq /\ n.prio = m.prio
              /\ n.created = m.created /\ n.attempts = m.attempts + 1
              /\ IF m.attempts + 1 >= MaxAttempts
                 THEN n.state = "dead" /\ n.visible = m.visible
                 ELSE n.state = "ready" /\ n.visible = t
              /\ j.dedup = i.dedup /\ j.nextSeq = i.nextSeq
  <1> DEFINE c == detach(i, id)
             m == i.msgs[id]
             a == [m EXCEPT !.attempts = @ + 1]
             v == [a EXCEPT !.visible = t]
             j == applyAttempt(i, id, t)
  <1>1. /\ c \in Index(I) /\ ConsistentBut(c, id) /\ c.msgs = i.msgs
        /\ c.dedup = i.dedup /\ c.nextSeq = i.nextSeq
      BY Detach
  <1>2. m \in Message /\ id \in I
      BY Fields
  <1>3. j = IF a.attempts >= MaxAttempts THEN bury(c, id, a) ELSE place(c, id, v, t)
      BY Zenon DEF applyAttempt
  <1> HIDE DEF c, m, j
  <1>4. /\ a \in Message /\ a.attempts = m.attempts + 1
        /\ a.dedup = m.dedup /\ a.seq = m.seq /\ a.prio = m.prio
        /\ a.created = m.created /\ a.visible = m.visible
      BY <1>2 DEF Message
  <1> HIDE DEF a
  <1>5. /\ v \in Message /\ v.attempts = a.attempts
        /\ v.dedup = a.dedup /\ v.seq = a.seq /\ v.prio = a.prio
        /\ v.created = a.created /\ v.visible = t
      BY <1>4 DEF Message
  <1> HIDE DEF v
  <1>6. CASE a.attempts >= MaxAttempts
    <2> DEFINE b == bury(c, id, a)
    <2>1. /\ b \in Index(I) /\ Consistent(b)
          /\ DOMAIN b.msgs = DOMAIN c.msgs \cup {id}
          /\ SameBut(c, b, id) /\ SameEntry(a, b.msgs[id])
          /\ b.msgs[id].state = "dead"
          /\ b.dedup = c.dedup /\ b.nextSeq = c.nextSeq
        BY <1>1, <1>2, <1>4, Bury
    <2>2. j = b
        BY <1>3, <1>6
    <2> HIDE DEF b
    <2>3. DOMAIN b.msgs = DOMAIN i.msgs /\ SameBut(i, b, id)
        BY <1>1, <2>1 DEF SameBut
    <2>4. QED
        BY <1>1, <1>4, <1>6, <2>1, <2>2, <2>3 DEF SameEntry, j, m
  <1>7. CASE ~(a.attempts >= MaxAttempts)
    <2> DEFINE b == place(c, id, v, t)
    <2>1. /\ b \in Index(I) /\ Consistent(b)
          /\ DOMAIN b.msgs = DOMAIN c.msgs \cup {id}
          /\ SameBut(c, b, id) /\ SameEntry(v, b.msgs[id])
          /\ b.msgs[id].state = IF v.visible > t THEN "delayed" ELSE "ready"
          /\ b.dedup = c.dedup /\ b.nextSeq = c.nextSeq
        BY <1>1, <1>2, <1>5, Place
    <2>2. j = b
        BY <1>3, <1>7
    <2> HIDE DEF b
    <2>3. DOMAIN b.msgs = DOMAIN i.msgs /\ SameBut(i, b, id)
        BY <1>1, <2>1 DEF SameBut
    <2>4. b.msgs[id].state = "ready"
        BY <1>5, <2>1
    <2>5. QED
        BY <1>1, <1>4, <1>5, <1>7, <2>1, <2>2, <2>3, <2>4 DEF SameEntry, j, m
  <1>8. QED
      BY <1>6, <1>7

-----------------------------------------------------------------------------
(***************************************************************************)
(* Moves between heaps that the log does not record.                       *)
(***************************************************************************)
\* j has the messages of i, each as a log would write it; those of S are in
\* state s and the others keep theirs.
Moved(I, i, j, S, s) ==
    /\ j \in Index(I) /\ Consistent(j)
    /\ DOMAIN j.msgs = DOMAIN i.msgs
    /\ \A x \in DOMAIN i.msgs :
         /\ SameEntry(i.msgs[x], j.msgs[x])
         /\ j.msgs[x].state = IF x \in S THEN s ELSE i.msgs[x].state
    /\ j.dedup = i.dedup /\ j.nextSeq = i.nextSeq

\* The messages of S leave one heap for another, and the messages become f.
shifted(i, f, S, a, b) ==
    [i EXCEPT !.msgs = f, !.held[a] = @ \ S, !.held[b] = @ \cup S]

LEMMA Shift ==
    ASSUME NEW I, NEW i \in Index(I), Consistent(i), NEW f \in MsgMap(I),
           NEW a \in MsgState, NEW b \in MsgState, a # b,
           NEW S, S \subseteq i.held[a],
           DOMAIN f = DOMAIN i.msgs,
           \A x \in DOMAIN i.msgs :
             /\ SameEntry(i.msgs[x], f[x])
             /\ f[x].state = IF x \in S THEN b ELSE i.msgs[x].state
    PROVE  Moved(I, i, shifted(i, f, S, a, b), S, b) /\ shifted(i, f, S, a, b).msgs = f
  <1> DEFINE j == shifted(i, f, S, a, b)
  <1>1. i.held \in [MsgState -> SUBSET I]
      BY Fields
  <1>2. S \subseteq I
      BY <1>1
  <1>3. j = [i EXCEPT !.msgs = f, !.held[a] = @ \ S, !.held[b] = @ \cup S]
      BY DEF shifted
  <1> HIDE DEF j
  <1>4. /\ j \in Index(I) /\ j.msgs = f
        /\ j.dedup = i.dedup /\ j.nextSeq = i.nextSeq
      BY <1>1, <1>2, <1>3 DEF Index
  <1>5. /\ j.held[a] = i.held[a] \ S /\ j.held[b] = i.held[b] \cup S
        /\ \A s \in MsgState \ {a, b} : j.held[s] = i.held[s]
      BY <1>1, <1>3 DEF Index
  <1>6. Consistent(j)
    <2> SUFFICES ASSUME NEW s \in MsgState
                 PROVE  j.held[s] = {x \in DOMAIN f : f[x].state = s}
        BY <1>4 DEF Consistent
    <2>1. i.held[s] = {x \in DOMAIN i.msgs : i.msgs[x].state = s}
        BY DEF Consistent
    <2>2. \A x \in S : x \in DOMAIN i.msgs /\ i.msgs[x].state = a
        BY DEF Consistent
    <2>3. QED
        BY <1>5, <2>1, <2>2
  <1>7. QED
      BY <1>4, <1>6, Zenon DEF Moved, j

\* promoteDue: the messages that are due become ready.
LEMMA PromoteDue ==
    ASSUME NEW I, NEW i \in Index(I), Consistent(i), NEW t \in Nat
    PROVE  Moved(I, i, promoteDue(i, t),
                 {x \in i.held["delayed"] : i.msgs[x].visible <= t}, "ready")
  <1> DEFINE due == {x \in i.held["delayed"] : i.msgs[x].visible <= t}
             F(x) == IF x \in due
                     THEN [i.msgs[x] EXCEPT !.state = "ready",
                                            !.eff = effectivePriority(i.msgs[x], t)]
                     ELSE i.msgs[x]
             f == [x \in DOMAIN i.msgs |-> F(x)]
  <1>1. promoteDue(i, t) = shifted(i, f, due, "delayed", "ready")
      BY Zenon DEF promoteDue, shifted
  <1>2. /\ DOMAIN i.msgs \subseteq I
        /\ \A x \in DOMAIN i.msgs : i.msgs[x] \in Message
      BY Fields
  <1>3. due \subseteq i.held["delayed"]
      OBVIOUS
  <1> HIDE DEF due
  <1>4. \A x \in DOMAIN i.msgs :
          /\ F(x) \in Message /\ SameEntry(i.msgs[x], F(x))
          /\ F(x).state = IF x \in due THEN "ready" ELSE i.msgs[x].state
    <2> TAKE x \in DOMAIN i.msgs
    <2>1. effectivePriority(i.msgs[x], t) \in Int /\ i.msgs[x] \in Message
        BY <1>2, PriorityType
    <2>2. CASE x \in due
        BY <2>1, <2>2 DEF Message, SameEntry, MsgState
    <2>3. CASE x \notin due
        BY <2>1, <2>3 DEF SameEntry
    <2>4. QED
        BY <2>2, <2>3
  <1> HIDE DEF F
  <1>5. f \in [DOMAIN i.msgs -> Message] /\ DOMAIN f = DOMAIN i.msgs
      BY <1>4
  <1>6. f \in MsgMap(I)
      BY <1>2, <1>5, MapFacts
  <1>7. \A x \in DOMAIN i.msgs :
          /\ SameEntry(i.msgs[x], f[x])
          /\ f[x].state = IF x \in due THEN "ready" ELSE i.msgs[x].state
      BY <1>4
  <1> HIDE DEF f
  <1>8. "delayed" \in MsgState /\ "ready" \in MsgState /\ "delayed" # "ready"
      BY DEF MsgState
  <1>9. Moved(I, i, shifted(i, f, due, "delayed", "ready"), due, "ready")
      BY <1>3, <1>5, <1>6, <1>7, <1>8, Shift
  <1>10. QED
      BY <1>1, <1>9 DEF due

\* A delivery: the messages of S are in flight.
LEMMA LeaseOut ==
    ASSUME NEW I, NEW i \in Index(I), Consistent(i), NEW S,
           S \subseteq i.held["ready"], NEW deadline \in Nat
    PROVE  Moved(I, i, lease(i, S, deadline), S, "inflight")
  <1> DEFINE F(x) == IF x \in S
                     THEN [i.msgs[x] EXCEPT !.state = "inflight", !.deadline = deadline]
                     ELSE i.msgs[x]
             f == [x \in DOMAIN i.msgs |-> F(x)]
  <1>1. lease(i, S, deadline) = shifted(i, f, S, "ready", "inflight")
      BY Zenon DEF lease, shifted
  <1>2. /\ DOMAIN i.msgs \subseteq I
        /\ \A x \in DOMAIN i.msgs : i.msgs[x] \in Message
      BY Fields
  <1>4. \A x \in DOMAIN i.msgs :
          /\ F(x) \in Message /\ SameEntry(i.msgs[x], F(x))
          /\ F(x).state = IF x \in S THEN "inflight" ELSE i.msgs[x].state
    <2> TAKE x \in DOMAIN i.msgs
    <2>1. i.msgs[x] \in Message
        BY <1>2
    <2>2. CASE x \in S
        BY <2>1, <2>2 DEF Message, SameEntry, MsgState
    <2>3. CASE x \notin S
        BY <2>1, <2>3 DEF SameEntry
    <2>4. QED
        BY <2>2, <2>3
  <1> HIDE DEF F
  <1>5. f \in [DOMAIN i.msgs -> Message] /\ DOMAIN f = DOMAIN i.msgs
      BY <1>4
  <1>6. f \in MsgMap(I)
      BY <1>2, <1>5, MapFacts
  <1>7. \A x \in DOMAIN i.msgs :
          /\ SameEntry(i.msgs[x], f[x])
          /\ f[x].state = IF x \in S THEN "inflight" ELSE i.msgs[x].state
      BY <1>4
  <1> HIDE DEF f
  <1>8. "inflight" \in MsgState /\ "ready" \in MsgState /\ "ready" # "inflight"
      BY DEF MsgState
  <1>9. Moved(I, i, shifted(i, f, S, "ready", "inflight"), S, "inflight")
      BY <1>5, <1>6, <1>7, <1>8, Shift
  <1>10. QED
      BY <1>1, <1>9

\* agePriorities moves nothing.
LEMMA AgePriorities ==
    ASSUME NEW I, NEW i \in Index(I), Consistent(i), NEW t \in Nat
    PROVE  Moved(I, i, agePriorities(i, t), {}, "ready")
  <1> DEFINE F(x) == IF x \in i.held["ready"]
                     THEN [i.msgs[x] EXCEPT !.eff = effectivePriority(i.msgs[x], t)]
                     ELSE i.msgs[x]
             f == [x \in DOMAIN i.msgs |-> F(x)]
             j == agePriorities(i, t)
  <1>1. j = [i EXCEPT !.msgs = f]
      BY Zenon DEF agePriorities
  <1>2. /\ DOMAIN i.msgs \subseteq I
        /\ \A x \in DOMAIN i.msgs : i.msgs[x] \in Message
      BY Fields
  <1>4. \A x \in DOMAIN i.msgs :
          /\ F(x) \in Message /\ SameEntry(i.msgs[x], F(x))
          /\ F(x).state = i.msgs[x].state
    <2> TAKE x \in DOMAIN i.msgs
    <2>1. effectivePriority(i.msgs[x], t) \in Int /\ i.msgs[x] \in Message
        BY <1>2, PriorityType
    <2>2. CASE x \in i.held["ready"]
        BY <2>1, <2>2 DEF Message, SameEntry
    <2>3. CASE x \notin i.held["ready"]
        BY <2>1, <2>3 DEF SameEntry
    <2>4. QED
        BY <2>2, <2>3
  <1> HIDE DEF F
  <1>5. f \in [DOMAIN i.msgs -> Message] /\ DOMAIN f = DOMAIN i.msgs
      BY <1>4
  <1>6. f \in MsgMap(I)
      BY <1>2, <1>5, MapFacts
  <1>7. \A x \in DOMAIN i.msgs :
          SameEntry(i.msgs[x], f[x]) /\ f[x].state = i.msgs[x].state
      BY <1>4
  <1> HIDE DEF f, j
  <1>8. /\ j \in Index(I) /\ j.msgs = f /\ j.held = i.held
        /\ j.dedup = i.dedup /\ j.nextSeq = i.nextSeq
      BY <1>1, <1>6 DEF Index
  <1>9. Consistent(j)
      BY <1>5, <1>7, <1>8 DEF Consistent
  <1>10. QED
      BY <1>5, <1>7, <1>8, <1>9 DEF Moved, j

\* purgeDedup touches no message.
LEMMA PurgeDedup ==
    ASSUME NEW I, NEW i \in Index(I), Consistent(i), NEW t \in Nat
    PROVE  LET j == purgeDedup(i, t)
           IN /\ j \in Index(I) /\ Consistent(j)
              /\ j.msgs = i.msgs /\ j.nextSeq = i.nextSeq
              /\ DOMAIN j.dedup = {d \in DOMAIN i.dedup : ~(i.dedup[d].expires <= t)}
              /\ \A d \in DOMAIN j.dedup : j.dedup[d] = i.dedup[d]
  <1> DEFINE K == {d \in DOMAIN i.dedup : i.dedup[d].expires <= t}
             D == Without(i.dedup, K)
             j == purgeDedup(i, t)
  <1>1. j = [i EXCEPT !.dedup = D]
      BY Zenon DEF purgeDedup
  <1>2. DOMAIN D = DOMAIN i.dedup \ K /\ \A d \in DOMAIN D : D[d] = i.dedup[d]
      BY DEF Without
  <1>3. i.dedup \in DedupMap
      BY Fields
  <1> HIDE DEF K
  <1>4. D \in DedupMap
      BY <1>3, WithoutDedup, Zenon
  <1> HIDE DEF D, j
  <1>5. /\ j \in Index(I) /\ j.msgs = i.msgs /\ j.held = i.held
        /\ j.dedup = D /\ j.nextSeq = i.nextSeq
      BY <1>1, <1>4 DEF Index
  <1>6. Consistent(j)
      BY <1>5 DEF Consistent
  <1>7. QED
      BY <1>2, <1>5, <1>6 DEF j, K

-----------------------------------------------------------------------------
(***************************************************************************)
(* Records and their replay.                                               *)
(***************************************************************************)
LEMMA RecordFacts ==
    ASSUME NEW r \in LogRecord
    PROVE  /\ r.type \in {"META", "ENQUEUE", "ACK", "NACK", "LEASE_EXPIRE", "DEDUP"}
           /\ r.type = "META" => r.nextSeq \in Nat
           /\ r.type = "ENQUEUE" => r.m \in Encoded
           /\ r.type \in {"ACK", "NACK", "LEASE_EXPIRE"} => r.id \in Id
           /\ r.type = "DEDUP" => r.d \in DedupId /\ r.e \in DedupEntry
  BY DEF LogRecord

LEMMA EnqueueTyped ==
    ASSUME NEW id \in Id, NEW m \in Message
    PROVE  EnqueueRec(id, m) \in LogRecord
  <1> DEFINE b == m.state = "dead"
             c == encodeMessage(id, m)
  <1>1. b \in BOOLEAN
      OBVIOUS
  <1> HIDE DEF b
  <1>2. c = [id |-> id, dedup |-> m.dedup, seq |-> m.seq, prio |-> m.prio,
             visible |-> m.visible, created |-> m.created, attempts |-> m.attempts,
             dead |-> b]
      BY Zenon DEF encodeMessage, b
  <1> HIDE DEF c
  <1>3. c \in Encoded
      BY <1>1, <1>2 DEF Message, Encoded
  <1>4. EnqueueRec(id, m) = [type |-> "ENQUEUE", m |-> c]
      BY DEF EnqueueRec, c
  <1>5. QED
      BY <1>3, <1>4 DEF LogRecord

\* A message read back from its record.
LEMMA DecodeFacts ==
    ASSUME NEW e \in Encoded
    PROVE  /\ decodeMessage(e) \in Message
           /\ SameEntry(e, decodeMessage(e))
           /\ decodeMessage(e).state = IF e.dead THEN "dead" ELSE "ready"
  <1> DEFINE s == IF e.dead THEN "dead" ELSE "ready"
             d == [dedup |-> e.dedup, seq |-> e.seq, prio |-> e.prio,
                   visible |-> e.visible, created |-> e.created,
                   attempts |-> e.attempts, state |-> s, eff |-> e.prio, deadline |-> 0]
  <1>1. decodeMessage(e) = d
      BY Zenon DEF decodeMessage
  <1>2. s \in MsgState
      BY Zenon DEF MsgState
  <1> HIDE DEF s
  <1>3. d \in Message
      BY <1>2 DEF Encoded, Message
  <1>4. SameEntry(e, d) /\ d.state = s
      BY DEF SameEntry
  <1>5. QED
      BY <1>1, <1>3, <1>4 DEF s

LEMMA EncodeFacts ==
    ASSUME NEW id, NEW m
    PROVE  LET e == EnqueueRec(id, m).m
           IN /\ EnqueueRec(id, m).type = "ENQUEUE"
              /\ e.id = id /\ SameEntry(m, e) /\ e.dead = (m.state = "dead")
  BY Zenon DEF EnqueueRec, encodeMessage, SameEntry

\* What apply does with a record of each type.
LEMMA ApplyCases ==
    ASSUME NEW i, NEW r, NEW t
    PROVE  /\ r.type = "META" =>
                apply(i, r, t) = [i EXCEPT !.nextSeq = IF r.nextSeq > @ THEN r.nextSeq ELSE @]
           /\ r.type = "ENQUEUE" =>
                apply(i, r, t) = applyEnqueue(i, r.m.id, decodeMessage(r.m), t)
           /\ r.type = "ACK" => apply(i, r, t) = applyAck(i, r.id)
           /\ r.type \in {"NACK", "LEASE_EXPIRE"} =>
                apply(i, r, t) = applyAttempt(i, r.id, t)
           /\ r.type = "DEDUP" => apply(i, r, t) = [i EXCEPT !.dedup = Put(@, r.d, r.e)]
  BY Zenon DEF apply

LEMMA ApplyMeta ==
    ASSUME NEW I, NEW i \in Index(I), Consistent(i), NEW n \in Nat
    PROVE  LET j == [i EXCEPT !.nextSeq = IF n > @ THEN n ELSE @]
           IN /\ j \in Index(I) /\ Consistent(j)
              /\ j.msgs = i.msgs /\ j.dedup = i.dedup
              /\ j.nextSeq = IF n > i.nextSeq THEN n ELSE i.nextSeq
  <1> DEFINE v == IF n > i.nextSeq THEN n ELSE i.nextSeq
             j == [i EXCEPT !.nextSeq = v]
  <1>1. v \in Nat
      BY Fields
  <1> HIDE DEF v
  <1>2. /\ j \in Index(I) /\ j.msgs = i.msgs /\ j.held = i.held
        /\ j.dedup = i.dedup /\ j.nextSeq = v
      BY <1>1 DEF Index
  <1> HIDE DEF j
  <1>3. Consistent(j)
      BY <1>2 DEF Consistent
  <1>4. QED
      BY <1>2, <1>3, Zenon DEF v, j

LEMMA ApplyDedup ==
    ASSUME NEW I, NEW i \in Index(I), Consistent(i), NEW d \in DedupId, NEW e \in DedupEntry
    PROVE  LET j == [i EXCEPT !.dedup = Put(@, d, e)]
           IN /\ j \in Index(I) /\ Consistent(j)
              /\ j.msgs = i.msgs /\ j.nextSeq = i.nextSeq
              /\ j.dedup = Put(i.dedup, d, e)
  <1> DEFINE v == Put(i.dedup, d, e)
             j == [i EXCEPT !.dedup = v]
  <1>0. i.dedup \in DedupMap
      BY Fields
  <1>1. v \in DedupMap
      BY <1>0, PutDedup, Zenon
  <1> HIDE DEF v
  <1>2. /\ j \in Index(I) /\ j.msgs = i.msgs /\ j.held = i.held
        /\ j.dedup = v /\ j.nextSeq = i.nextSeq
      BY <1>1 DEF Index
  <1> HIDE DEF j
  <1>3. Consistent(j)
      BY <1>2 DEF Consistent
  <1>4. QED
      BY <1>2, <1>3, Zenon DEF v, j

\* The index j that the record r makes of i, whatever its type.
Replayed(i, j, r, t) ==
    /\ r.type = "META" =>
         /\ j.msgs = i.msgs /\ j.dedup = i.dedup
         /\ j.nextSeq = IF r.nextSeq > i.nextSeq THEN r.nextSeq ELSE i.nextSeq
    /\ r.type = "ENQUEUE" =>
         /\ r.m.id \notin DOMAIN i.msgs
         /\ DOMAIN j.msgs = DOMAIN i.msgs \cup {r.m.id}
         /\ SameBut(i, j, r.m.id) /\ SameEntry(r.m, j.msgs[r.m.id])
         /\ j.msgs[r.m.id].state = IF r.m.dead THEN "dead"
                                   ELSE IF r.m.visible > t THEN "delayed" ELSE "ready"
         /\ j.nextSeq = IF r.m.seq >= i.nextSeq THEN r.m.seq + 1 ELSE i.nextSeq
         /\ j.dedup = IF r.m.dedup = NoDedup THEN i.dedup
                      ELSE Put(i.dedup, r.m.dedup,
                               [msg |-> r.m.id, expires |-> r.m.created + DedupWindow])
    /\ r.type = "ACK" =>
         /\ r.id \in DOMAIN i.msgs
         /\ DOMAIN j.msgs = DOMAIN i.msgs \ {r.id}
         /\ SameBut(i, j, r.id)
         /\ j.dedup = i.dedup /\ j.nextSeq = i.nextSeq
    /\ r.type \in {"NACK", "LEASE_EXPIRE"} =>
         /\ r.id \in DOMAIN i.msgs
         /\ DOMAIN j.msgs = DOMAIN i.msgs
         /\ SameBut(i, j, r.id)
         /\ j.msgs[r.id].dedup = i.msgs[r.id].dedup
         /\ j.msgs[r.id].seq = i.msgs[r.id].seq
         /\ j.msgs[r.id].prio = i.msgs[r.id].prio
         /\ j.msgs[r.id].created = i.msgs[r.id].created
         /\ j.msgs[r.id].attempts = i.msgs[r.id].attempts + 1
         /\ IF i.msgs[r.id].attempts + 1 >= MaxAttempts
            THEN j.msgs[r.id].state = "dead" /\ j.msgs[r.id].visible = i.msgs[r.id].visible
            ELSE j.msgs[r.id].state = "ready" /\ j.msgs[r.id].visible = t
         /\ j.dedup = i.dedup /\ j.nextSeq = i.nextSeq
    /\ r.type = "DEDUP" =>
         /\ j.msgs = i.msgs /\ j.nextSeq = i.nextSeq
         /\ j.dedup = Put(i.dedup, r.d, r.e)

LEMMA ApplyFacts ==
    ASSUME NEW I, I \subseteq Id, NEW i \in Index(I), Consistent(i), NEW r \in LogRecord,
           r.type = "ENQUEUE" => r.m.id \in I, ~Refuses(i, r), NEW t \in Nat
    PROVE  /\ apply(i, r, t) \in Index(I) /\ Consistent(apply(i, r, t))
           /\ Replayed(i, apply(i, r, t), r, t)
  <1> DEFINE j == apply(i, r, t)
  <1>0. r.type \in {"META", "ENQUEUE", "ACK", "NACK", "LEASE_EXPIRE", "DEDUP"}
      BY RecordFacts
  <1>1. CASE r.type = "META"
    <2>1. j = [i EXCEPT !.nextSeq = IF r.nextSeq > @ THEN r.nextSeq ELSE @]
        BY <1>1, ApplyCases, Zenon
    <2>2. PICK n \in Nat : n = r.nextSeq
        BY <1>1, RecordFacts
    <2>3. j = [i EXCEPT !.nextSeq = IF n > @ THEN n ELSE @]
        BY <2>1, <2>2
    <2> HIDE DEF j
    <2>4. /\ j \in Index(I) /\ Consistent(j)
          /\ j.msgs = i.msgs /\ j.dedup = i.dedup
          /\ j.nextSeq = IF n > i.nextSeq THEN n ELSE i.nextSeq
        BY <2>3, ApplyMeta, Zenon
    <2>5. Replayed(i, j, r, t)
        BY <1>1, <2>2, <2>4, Zenon DEF Replayed
    <2>6. QED
        BY <2>4, <2>5 DEF j
  <1>2. CASE r.type = "ENQUEUE"
    <2>1. j = applyEnqueue(i, r.m.id, decodeMessage(r.m), t)
        BY <1>2, ApplyCases
    <2>2. PICK e \in Encoded : e = r.m
        BY <1>2, RecordFacts
    <2>3. PICK id \in I : id = r.m.id
        BY <1>2
    <2>4. PICK d \in Message : /\ d = decodeMessage(e) /\ SameEntry(e, d)
                               /\ d.state = IF e.dead THEN "dead" ELSE "ready"
        BY DecodeFacts, Zenon
    <2>5. j = applyEnqueue(i, id, d, t)
        BY <2>1, <2>2, <2>3, <2>4, Zenon
    <2>6. id \in Id /\ id \notin DOMAIN i.msgs
        BY <1>2, <2>3 DEF Refuses
    <2>7. e.dead \in BOOLEAN
        BY DEF Encoded
    <2> HIDE DEF j
    <2>8. /\ j \in Index(I) /\ Consistent(j)
          /\ DOMAIN j.msgs = DOMAIN i.msgs \cup {id}
          /\ SameBut(i, j, id) /\ SameEntry(d, j.msgs[id])
          /\ j.msgs[id].state = IF d.state = "dead" THEN "dead"
                                ELSE IF d.visible > t THEN "delayed" ELSE "ready"
          /\ j.nextSeq = IF d.seq >= i.nextSeq THEN d.seq + 1 ELSE i.nextSeq
          /\ j.dedup = IF d.dedup = NoDedup THEN i.dedup
                       ELSE Put(i.dedup, d.dedup,
                                [msg |-> id, expires |-> d.created + DedupWindow])
        BY <2>5, <2>6, ApplyEnqueue
    <2>9. j.msgs[id].state = IF e.dead THEN "dead"
                             ELSE IF e.visible > t THEN "delayed" ELSE "ready"
      <3>1. e.visible = d.visible
          BY <2>4 DEF SameEntry
      <3>2. CASE e.dead
          BY <2>4, <2>8, <3>2, Zenon
      <3>3. CASE ~e.dead
        <4>1. d.state # "dead"
            BY <2>4, <3>3
        <4>2. QED
            BY <2>8, <3>1, <3>3, <4>1, Zenon
      <3>4. QED
          BY <3>2, <3>3
    <2>10. SameEntry(e, j.msgs[id]) /\ d.seq = e.seq /\ d.dedup = e.dedup /\ d.created = e.created
        BY <2>4, <2>8 DEF SameEntry
    <2>11. Replayed(i, j, r, t)
        BY <1>2, <2>2, <2>3, <2>6, <2>8, <2>9, <2>10, Zenon DEF Replayed
    <2>12. QED
        BY <2>8, <2>11 DEF j
  <1>3. CASE r.type = "ACK"
    <2>1. j = applyAck(i, r.id)
        BY <1>3, ApplyCases, Zenon
    <2>2. PICK id \in DOMAIN i.msgs : id = r.id
        BY <1>3 DEF Refuses
    <2>3. j = applyAck(i, id)
        BY <2>1, <2>2
    <2> HIDE DEF j
    <2>4. /\ j \in Index(I) /\ Consistent(j)
          /\ DOMAIN j.msgs = DOMAIN i.msgs \ {id}
          /\ SameBut(i, j, id)
          /\ j.dedup = i.dedup /\ j.nextSeq = i.nextSeq
        BY <2>3, ApplyAck, Zenon
    <2>5. Replayed(i, j, r, t)
        BY <1>3, <2>2, <2>4, Zenon DEF Replayed
    <2>6. QED
        BY <2>4, <2>5 DEF j
  <1>4. CASE r.type \in {"NACK", "LEASE_EXPIRE"}
    <2>1. j = applyAttempt(i, r.id, t)
        BY <1>4, ApplyCases
    <2>2. PICK id \in DOMAIN i.msgs : id = r.id
        BY <1>4 DEF Refuses
    <2>3. j = applyAttempt(i, id, t)
        BY <2>1, <2>2
    <2> HIDE DEF j
    <2>4. /\ j \in Index(I) /\ Consistent(j)
          /\ DOMAIN j.msgs = DOMAIN i.msgs
          /\ SameBut(i, j, id)
          /\ j.msgs[id].dedup = i.msgs[id].dedup
          /\ j.msgs[id].seq = i.msgs[id].seq
          /\ j.msgs[id].prio = i.msgs[id].prio
          /\ j.msgs[id].created = i.msgs[id].created
          /\ j.msgs[id].attempts = i.msgs[id].attempts + 1
          /\ IF i.msgs[id].attempts + 1 >= MaxAttempts
             THEN j.msgs[id].state = "dead" /\ j.msgs[id].visible = i.msgs[id].visible
             ELSE j.msgs[id].state = "ready" /\ j.msgs[id].visible = t
          /\ j.dedup = i.dedup /\ j.nextSeq = i.nextSeq
        BY <2>3, ApplyAttempt
    <2>5. Replayed(i, j, r, t)
        BY <1>4, <2>2, <2>4, Zenon DEF Replayed
    <2>6. QED
        BY <2>4, <2>5 DEF j
  <1>5. CASE r.type = "DEDUP"
    <2>1. j = [i EXCEPT !.dedup = Put(@, r.d, r.e)]
        BY <1>5, ApplyCases, Zenon
    <2>2. r.d \in DedupId /\ r.e \in DedupEntry
        BY <1>5, RecordFacts
    <2> HIDE DEF j
    <2>3. /\ j \in Index(I) /\ Consistent(j)
          /\ j.msgs = i.msgs /\ j.nextSeq = i.nextSeq
          /\ j.dedup = Put(i.dedup, r.d, r.e)
        BY <2>1, <2>2, ApplyDedup
    <2>4. Replayed(i, j, r, t)
        BY <1>5, <2>3, Zenon DEF Replayed
    <2>5. QED
        BY <2>3, <2>4 DEF j
  <1>6. QED
      BY <1>0, <1>1, <1>2, <1>3, <1>4, <1>5
=============================================================================
