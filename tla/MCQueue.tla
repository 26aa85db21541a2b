------------------------------ MODULE MCQueue ------------------------------
(***************************************************************************)
(* The queue for TLC, with the properties that speak of the replay of a    *)
(* whole log, and the abstract queue that it implements.                   *)
(***************************************************************************)
EXTENDS Queue

\* wal.Replay driving Queue.apply over the log s, at the present time.
Replay(s) ==
    LET after[k \in 0 .. Len(s)] ==
          IF k = 0 THEN [refused |-> FALSE, ix |-> EmptyIndex]
          ELSE LET acc == after[k - 1] IN
               IF acc.refused \/ Refuses(acc.ix, s[k])
               THEN [acc EXCEPT !.refused = TRUE]
               ELSE [acc EXCEPT !.ix = apply(acc.ix, s[k], now)]
    IN after[Len(s)]

Recovered(s) == Replay(s).ix

\* What replay is to reproduce: leases and the promotion of delayed messages
\* are not persistent, an expired dedup entry counts as none, and a message
\* already visible is visible now.
Persistent(i) ==
    [msgs |-> [id \in DOMAIN i.msgs |->
                 LET m == i.msgs[id] IN
                 [dedup |-> m.dedup, seq |-> m.seq, prio |-> m.prio,
                  created |-> m.created, attempts |-> m.attempts,
                  dead |-> m.state = "dead",
                  visible |-> IF m.visible > now THEN m.visible ELSE now]],
     dedup |-> {<<d, i.dedup[d]>> : d \in {e \in DOMAIN i.dedup : now < i.dedup[e].expires}},
     nextSeq |-> i.nextSeq]

\* "Log order identical to state-transition order is what makes replay
\* reproduce exactly the state the crash interrupted": at every moment the
\* records appended so far, and a snapshot being installed, replay to the
\* index in memory.
ReplayReproducesIndex ==
    phase = "up" =>
        \A s \in {log} \cup (IF dir = "log" THEN {} ELSE {snap}) :
            Persistent(Recovered(s)) = Persistent(ix)

\* No log a crash can leave is one that startup refuses.
ReplayNeverRefuses == \A s \in DiskImages : ~Replay(s).refused

\* A message answered 201 is in the queue that any crash leaves, unless an
\* ack of it was issued; one whose ack was answered is not, so that it is never
\* delivered again.
AnswersSurvive ==
    \A s \in DiskImages :
        LET left == DOMAIN Recovered(s).msgs IN
        enqOK \ acked \subseteq left /\ ackOK \cap left = {}

\* A delivered message comes before every message left behind that was
\* visible at that moment, by the order the configuration promises.
Before(a, b) ==
    IF PriorityEnabled /\ a.prio # b.prio
    THEN a.prio > b.prio
    ELSE IF Ordering = "lifo" THEN a.seq > b.seq ELSE a.seq < b.seq

DeliveredIsBest ==
    [][\A a \in ix'.held["inflight"] \ ix.held["inflight"] :
         \A b \in DOMAIN ix.msgs \ ix'.held["inflight"] :
           ix.msgs[b].state \in {"ready", "delayed"} /\ ix.msgs[b].visible <= now
             => Before(ix.msgs[a], ix.msgs[b])]_vars

\* What the log alone says of a message, with no replay: it is there if it
\* was enqueued and not acked, and its attempts are those it was written with
\* and one for every record of a nack or an expired lease.
Births(id) == {i \in DOMAIN log : log[i].type = "ENQUEUE" /\ log[i].m.id = id}
Entries(types, id) == {i \in DOMAIN log : log[i].type \in types /\ log[i].id = id}
Logged(id) == Births(id) # {} /\ Entries({"ACK"}, id) = {}
LoggedTries(id) ==
    log[CHOOSE i \in Births(id) : TRUE].m.attempts
    + Cardinality(Entries({"NACK", "LEASE_EXPIRE"}, id))

Present(id) == IF phase = "up" THEN id \in DOMAIN ix.msgs ELSE Logged(id)

TriesOf(id) ==
    IF ~Present(id) THEN 0
    ELSE IF phase = "up" THEN ix.msgs[id].attempts ELSE LoggedTries(id)

StatusOf(id) ==
    CASE id > Len(born) -> "unborn"
      [] id <= Len(born) /\ ~Present(id) ->
            IF id \in acked THEN "acked" ELSE "lost"
      [] Present(id) /\ phase # "up" ->
            IF LoggedTries(id) >= MaxAttempts THEN "dead" ELSE "waiting"
      [] Present(id) /\ phase = "up" ->
            CASE ix.msgs[id].state \in {"ready", "delayed"} -> "waiting"
              [] ix.msgs[id].state = "inflight" -> "leased"
              [] ix.msgs[id].state = "dead" -> "dead"

Promise == INSTANCE AtLeastOnce WITH
    Msg <- Ids,
    status <- [id \in Ids |-> StatusOf(id)],
    tries <- [id \in Ids |-> TriesOf(id)],
    sure <- enqOK, gone <- ackOK

\* The queue, with its log, compaction, failures and restarts, does nothing a
\* consumer of the abstract queue could not see there.
ImplementsAtLeastOnce == Promise!ALOSpec

-----------------------------------------------------------------------------
\* Claims of the documentation that the code does not keep.

\* A 200 for a duplicate names a message that survives, like a 201.
DuplicateSurvives ==
    \A s \in DiskImages : dupOK \ acked \subseteq DOMAIN Recovered(s).msgs

\* An attempt count is short by at most one per crash.
UndercountByOne ==
    phase = "up" =>
        \A id \in DOMAIN ix.msgs :
            LET m == ix.msgs[id]
                open == IF m.state = "inflight" THEN 1 ELSE 0
            IN deliveries[id] - open - m.attempts <= stops
=============================================================================
