-------------------------- MODULE ConsumersProofs --------------------------
(***************************************************************************)
(* Proofs about the demo's fleet, for every number of messages, workers,   *)
(* kills and timeouts: no confirmed job is lost, none is done twice or     *)
(* delivered after it was done, and the board shows the pool.              *)
(***************************************************************************)
EXTENDS Consumers, FiniteSetTheorems, TLAPS

-----------------------------------------------------------------------------
(***************************************************************************)
(* Calls.  A client has one call at a time, of the kind its position says; *)
(* a call that names a message names a message.                            *)
(***************************************************************************)
OpAt(p) == CASE p = "asking" -> "dequeue" [] p = "acking" -> "ack"
             [] p = "nacking" -> "nack" [] OTHER -> "none"

CallOK(c) ==
    /\ c.op \in {"ack", "nack"} => c.m \in Msg
    /\ c.op = "enqueue" /\ c.at # "sent" => c.m \in Msg
    /\ c.op = "dequeue" => c.at # "applied"
    /\ c.by = producer => c.op = "enqueue" /\ left > 0
    /\ c.by \in Worker => c.op = OpAt(pc[c.by])
    /\ c.by \in Worker /\ c.op \in {"ack", "nack"} => c.m = job[c.by]

CallsInv ==
    /\ \A c \in calls : CallOK(c)
    /\ \A c, d \in calls : c.by = d.by /\ c.by # none => c = d
    /\ \A w \in Worker : pc[w] \in {"work", "acking", "nacking"} => job[w] \in Msg
    /\ \A w \in Worker : w >= nextWorkerID => pc[w] = "unborn"

(***************************************************************************)
(* Acks.  An ack that took effect found the message there, so at most one  *)
(* of the calls that ack it did; it is counted once, if its answer is read.*)
(***************************************************************************)
TookEffect(c, op) == c.op = op /\ c.at \in {"applied", "answered"}

AckInv ==
    /\ NotBack
    /\ \A m \in Msg : done[m] \in {0, 1} /\ (done[m] = 1 => m \in gone)
    /\ \A c \in calls : TookEffect(c, "ack") => status[c.m] = "acked" /\ done[c.m] = 0
    /\ \A c \in calls : c.op = "ack" /\ c.at = "answered" => c.m \in gone
    /\ \A c, d \in calls : TookEffect(c, "ack") /\ TookEffect(d, "ack") /\ c.m = d.m => c = d

(***************************************************************************)
(* Enqueues.  One that took effect and is not answered yet is of a message *)
(* nobody was told of, and one that is answered with a 201 but not read is *)
(* of a confirmed message that the producer has not counted.               *)
(***************************************************************************)
Unanswered(c) == c.op = "enqueue" /\ c.at = "applied"
Told(c) == c.by = producer /\ c.at = "answered"

PutInv ==
    /\ Kept
    /\ \A c \in calls : Unanswered(c) => status[c.m] # "unborn" /\ c.m \notin sure
    /\ \A c, d \in calls : Unanswered(c) /\ Unanswered(d) /\ c.m = d.m => c = d
    /\ accepted \subseteq sure
    /\ \A c \in calls : Told(c) => c.m \in sure \ accepted
    /\ IsFiniteSet(accepted)
    /\ submitted + out + missed = Cardinality(accepted) + again

-----------------------------------------------------------------------------
(***************************************************************************)
(* What the steps do to the set of calls.                                  *)
(***************************************************************************)
At == {"sent", "applied", "answered", "duplicate"}

\* A handler moves one call on, and changes nothing about the others.
LEMMA Moved ==
    ASSUME TypeOK, NEW c \in calls, NEW m \in Msg \cup {none}, NEW at \in At,
           Moves(c, m, at)
    PROVE  \E d \in Call :
             /\ d.op = c.op /\ d.by = c.by /\ d.m = m /\ d.at = at
             /\ calls' \subseteq (calls \ {c}) \cup {d}
             /\ c.by = none /\ at \in {"answered", "duplicate"} => calls' = calls \ {c}
  <1> DEFINE d == [c EXCEPT !.m = m, !.at = at]
  <1>1. c \in Call
      BY DEF TypeOK
  <1>2. d \in Call /\ d.op = c.op /\ d.by = c.by /\ d.m = m /\ d.at = at
      BY <1>1 DEF Call, At
  <1>3. calls' = calls \ {c} \/ calls' = (calls \ {c}) \cup {d}
      BY Zenon DEF Moves
  <1>4. c.by = none /\ at \in {"answered", "duplicate"} => calls' = calls \ {c}
      BY Zenon DEF Moves
  <1> HIDE DEF d
  <1>5. QED
      BY <1>2, <1>3, <1>4, Zenon

\* A failed call is forgotten, or its handler goes on without a client.
LEMMA Failed ==
    ASSUME TypeOK, NEW w, CallFails(w)
    PROVE  \/ calls' = calls /\ CallOf(w) = {}
           \/ \E c \in CallOf(w) :
                \/ calls' = calls \ {c}
                \/ \E d \in Call :
                     /\ d.op = c.op /\ d.by = none /\ d.m = c.m /\ d.at = c.at
                     /\ c.at \in {"sent", "applied"}
                     /\ calls' = (calls \ {c}) \cup {d}
  <1>1. CASE CallOf(w) = {} /\ calls' = calls
      BY <1>1
  <1>2. ASSUME NEW c \in CallOf(w), calls' = (calls \ {c}) \cup Abandoned(c)
        PROVE  \/ calls' = calls \ {c}
               \/ \E d \in Call :
                    /\ d.op = c.op /\ d.by = none /\ d.m = c.m /\ d.at = c.at
                    /\ c.at \in {"sent", "applied"}
                    /\ calls' = (calls \ {c}) \cup {d}
    <2> DEFINE d == [c EXCEPT !.by = none]
    <2>1. c \in Call
        BY DEF TypeOK, CallOf
    <2>2. d \in Call /\ d.op = c.op /\ d.by = none /\ d.m = c.m /\ d.at = c.at
        BY <2>1 DEF Call
    <2>3. CASE c.at \in {"sent", "applied"}
      <3>1. calls' = (calls \ {c}) \cup {d}
          BY <1>2, <2>3, Zenon DEF Abandoned
      <3> HIDE DEF d
      <3>2. QED
          BY <2>2, <2>3, <3>1, Zenon
    <2>4. CASE c.at \notin {"sent", "applied"}
      <3>1. calls' = (calls \ {c}) \cup {}
          BY <1>2, <2>4, Zenon DEF Abandoned
      <3>2. QED
          BY <3>1
    <2>5. QED
        BY <2>3, <2>4
  <1>3. QED
      BY <1>1, <1>2, Zenon DEF CallFails

\* A request is one call more, or none when no server is up.
LEMMA Requested ==
    ASSUME TypeOK, NEW w \in Worker \cup {producer},
           NEW op \in {"enqueue", "dequeue", "ack", "nack"}, NEW m \in Msg \cup {none}
    PROVE  \E d \in Call : /\ d.op = op /\ d.by = w /\ d.m = m /\ d.at = "sent"
                           /\ Request(w, op, m) \subseteq {d}
  <1> DEFINE d == [op |-> op, m |-> m, by |-> w, at |-> "sent"]
  <1>1. d \in Call /\ d.op = op /\ d.by = w /\ d.m = m /\ d.at = "sent"
      BY DEF Call
  <1>2. Request(w, op, m) = {d} \/ Request(w, op, m) = {}
      BY Zenon DEF Request
  <1> HIDE DEF d
  <1>3. QED
      BY <1>1, <1>2

LEMMA Sent1 ==
    ASSUME TypeOK, NEW w \in Worker \cup {producer},
           NEW op \in {"enqueue", "dequeue", "ack", "nack"},
           NEW m \in Msg \cup {none}, Sends(w, op, m)
    PROVE  \E d \in Call :
             /\ d.op = op /\ d.by = w /\ d.m = m /\ d.at = "sent"
             /\ calls' \subseteq calls \cup {d}
  <1>1. PICK R : R = Request(w, op, m) /\ calls' = calls \cup R
      BY DEF Sends
  <1>2. QED
      BY <1>1, Requested

\* The producer reads an answer and sends the next request of its batch, if any.
LEMMA Answered ==
    ASSUME TypeOK, NEW at, SubmitAnswered(at)
    PROVE  \E d \in Call :
             /\ d.op = "enqueue" /\ d.by = producer /\ d.at = "sent"
             /\ \/ calls' = calls \ CallOf(producer)
                \/ left > 1 /\ calls' \subseteq (calls \ CallOf(producer)) \cup {d}
  <1>1. PICK R : R = Request(producer, "enqueue", none)
      OBVIOUS
  <1>2. PICK d \in Call : /\ d.op = "enqueue" /\ d.by = producer /\ d.at = "sent"
                         /\ R \subseteq {d}
      BY <1>1, Requested
  <1>3. /\ left > 0 /\ left \in Nat
        /\ \/ calls' = calls \ CallOf(producer)
           \/ left # 1 /\ calls' = (calls \ CallOf(producer)) \cup R
      BY <1>1 DEF SubmitAnswered, TypeOK
  <1>4. QED
      BY <1>2, <1>3

-----------------------------------------------------------------------------
(***************************************************************************)
(* The queue underneath, which keeps the promise of AtLeastOnce.           *)
(***************************************************************************)
PromiseInv == ALOTypeOK /\ Kept /\ NotBack

LEMMA InitPromise == ALOInit => PromiseInv
  BY DEF ALOInit, PromiseInv, ALOTypeOK, Status, Kept, NotBack

\* A put, a delivery, an ack, an expiry or a crash loses no confirmed message
\* and brings no acked one back.
LEMMA NextPromise ==
    ASSUME PromiseInv, [ALONext]_alo
    PROVE  PromiseInv'
  <1> USE DEF PromiseInv, ALOTypeOK, Status, Kept, NotBack
  <1>1. ASSUME NEW m \in Msg, Put(m) PROVE PromiseInv'
      BY <1>1 DEF Put
  <1>2. ASSUME NEW m \in Msg, ConfirmPut(m) PROVE PromiseInv'
      BY <1>2 DEF ConfirmPut, Live
  <1>3. ASSUME NEW m \in Msg, Remove(m) PROVE PromiseInv'
      BY <1>3 DEF Remove
  <1>4. ASSUME NEW m \in Msg, ConfirmRemove(m) PROVE PromiseInv'
      BY <1>4 DEF ConfirmRemove
  <1>5. ASSUME NEW m \in Msg, GiveBack(m) PROVE PromiseInv'
      BY <1>5 DEF GiveBack
  <1>6. ASSUME NEW S \in SUBSET Msg, Hand(S) PROVE PromiseInv'
      BY <1>6 DEF Hand
  <1>7. CASE Fall
    <2>1. ALOTypeOK'
        BY <1>7, AttemptsAssumption DEF Fall
    <2>2. ASSUME NEW m \in gone PROVE status'[m] = "acked"
        BY <1>7, <2>2 DEF Fall, Outcomes
    <2>3. ASSUME NEW m \in sure PROVE status'[m] \notin {"unborn", "lost"}
      <3>1. status[m] \notin {"unborn", "lost"} /\ status'[m] \in Outcomes(m)
          BY <1>7 DEF Fall
      <3>2. QED
          BY <3>1 DEF Outcomes
    <2>4. QED
        BY <1>7, <2>1, <2>2, <2>3 DEF Fall
  <1>8. CASE UNCHANGED alo
      BY <1>8 DEF alo
  <1>9. QED
      BY <1>1, <1>2, <1>3, <1>4, <1>5, <1>6, <1>7, <1>8 DEF ALONext

\* What a queue that keeps the promise never does: lose a message whose
\* enqueue was answered, or bring back one whose ack was.
THEOREM PromiseKept == ALOSpec => [](Kept /\ NotBack)
  <1>1. PromiseInv => Kept /\ NotBack
      BY DEF PromiseInv
  <1>2. QED
      BY InitPromise, NextPromise, <1>1, PTL DEF ALOSpec

\* The server does to its messages only what the queue can do.
LEMMA AloStep ==
    ASSUME TypeOK, CallsInv, [Next]_vars
    PROVE  [ALONext]_alo
  <1>1. ASSUME NEW c \in calls, ServeEnqueue(c) PROVE [ALONext]_alo
      BY <1>1, Zenon DEF ServeEnqueue, ALONext
  <1>2. ASSUME NEW c \in calls, ServeDequeue(c) PROVE [ALONext]_alo
    <2>1. (\E m \in Msg : Hand({m})) \/ UNCHANGED alo
        BY <1>2, Zenon DEF ServeDequeue
    <2>2. \A m \in Msg : {m} \in SUBSET Msg
        OBVIOUS
    <2>3. QED
        BY <2>1, <2>2, Zenon DEF ALONext
  <1>3. ASSUME NEW c \in calls, c.op \in {"ack", "nack"} PROVE c.m \in Msg
      BY <1>3 DEF CallsInv, CallOK
  <1>4. ASSUME NEW c \in calls, ServeAck(c) PROVE [ALONext]_alo
    <2>1. c.op = "ack"
        BY <1>4 DEF ServeAck, Sent
    <2>2. Remove(c.m) \/ UNCHANGED alo
        BY <1>4, Zenon DEF ServeAck, Refused
    <2>3. QED
        BY <1>3, <2>1, <2>2, Zenon DEF ALONext
  <1>5. ASSUME NEW c \in calls, ServeNack(c) PROVE [ALONext]_alo
    <2>1. c.op = "nack"
        BY <1>5 DEF ServeNack, Sent
    <2>2. GiveBack(c.m) \/ UNCHANGED alo
        BY <1>5, Zenon DEF ServeNack, Refused
    <2>3. QED
        BY <1>3, <2>1, <2>2, Zenon DEF ALONext
  <1>6. ASSUME NEW c \in calls, AnswerCall(c) PROVE [ALONext]_alo
    <2>1. c.op # "dequeue" => c.m \in Msg
        BY <1>6, <1>3 DEF TypeOK, Call, CallsInv, CallOK, AnswerCall
    <2>2. CASE c.op = "enqueue"
      <3>1. ConfirmPut(c.m)
          BY <1>6, <2>2 DEF AnswerCall
      <3>2. QED
          BY <2>1, <2>2, <3>1, Zenon DEF ALONext
    <2>3. CASE c.op = "ack"
      <3>1. ConfirmRemove(c.m)
          BY <1>6, <2>3 DEF AnswerCall
      <3>2. QED
          BY <2>1, <2>3, <3>1, Zenon DEF ALONext
    <2>4. CASE c.op = "nack"
        BY <1>6, <2>4 DEF AnswerCall
    <2>5. c.op # "dequeue"
        BY <1>6 DEF AnswerCall, CallsInv, CallOK
    <2>6. QED
        BY <2>2, <2>3, <2>4, <2>5 DEF TypeOK, Call
  <1>7. ASSUME NEW m \in Msg, Expire(m) PROVE ALONext
      BY <1>7, Zenon DEF Expire, ALONext
  <1>8. CASE Kill
      BY <1>8, Zenon DEF Kill, ALONext
  <1>9. CASE UNCHANGED alo
      BY <1>9
  <1>10. CASE Restart \/ Produce \/ UNCHANGED vars
      BY <1>9, <1>10, Zenon DEF Restart, Produce, Submit, SubmitFails, SubmitAnswered,
         CallFails, Reads, vars, server
  <1>11. ASSUME NEW n \in 0 .. MaxPool, SetWorkers(n) PROVE UNCHANGED alo
      BY <1>11, Zenon DEF SetWorkers, server
  <1>12. ASSUME NEW w \in Worker, Loop(w) PROVE UNCHANGED alo
      BY <1>12, Zenon DEF Loop, LoopTop, GotMessage, DequeueFails, StopAtWork, Abandon,
         Finish, AckAnswered, NackAnswered, FinishFails, CallFails, Reads, server
  <1>13. QED
      BY <1>1, <1>2, <1>4, <1>5, <1>6, <1>7, <1>8, <1>9, <1>10, <1>11, <1>12, Zenon
      DEF Next, Serve

-----------------------------------------------------------------------------
(***************************************************************************)
(* Type correctness, and that every client has one call of its kind.       *)
(***************************************************************************)
FleetOK ==
    /\ up \in BOOLEAN
    /\ pc \in [Worker -> {"unborn", "top", "asking", "work", "acking",
                          "nacking", "exited"}]
    /\ job \in [Worker -> Msg \cup {none}]
    /\ nextWorkerID \in Nat /\ stops \subseteq Worker
    /\ workers \subseteq Worker
    /\ left \in Nat /\ out \in Nat
    /\ submitted \in Nat /\ again \in Nat /\ missed \in Nat
    /\ accepted \subseteq Msg
    /\ done \in [Msg -> Nat]
    /\ kills \in 0 .. MaxKills /\ timeouts \in 0 .. MaxTimeouts

LEMMA InitTypes == Init => TypeOK
  <1>1. Init => ALOTypeOK /\ calls \subseteq Call
      BY InitPromise DEF Init, PromiseInv
  <1>2. Init => FleetOK
    <2> SUFFICES ASSUME Init PROVE FleetOK
        OBVIOUS
    <2>1. up \in BOOLEAN /\ left = 0 /\ out = 0 /\ again = 0 /\ missed = 0
          /\ accepted = {}
        BY Zenon DEF Init
    <2>2. /\ pc = [w \in Worker |-> "unborn"] /\ job = [w \in Worker |-> none]
          /\ nextWorkerID = 1 /\ stops = {} /\ workers = {} /\ submitted = 0
          /\ done = [m \in Msg |-> 0] /\ kills = 0 /\ timeouts = 0
        BY Zenon DEF Init
    <2>3. QED
        BY <2>1, <2>2, ConsumersAssumption DEF FleetOK
  <1>3. QED
      BY <1>1, <1>2 DEF TypeOK, FleetOK

\* Every call in the server is one, whatever step the clients, the handlers,
\* a kill or a timeout take.
LEMMA NextCallType ==
    ASSUME TypeOK, CallsInv, [Next]_vars
    PROVE  calls' \subseteq Call
  <1> USE DEF TypeOK
  <1>0. /\ Msg \subseteq Msg \cup {none} /\ none \in Msg \cup {none}
        /\ {"sent", "applied", "answered", "duplicate"} \subseteq At
        /\ \A c \in calls : c \in Call /\ c.m \in Msg \cup {none}
      BY DEF At, Call
  <1>1. ASSUME NEW c \in calls, NEW m \in Msg \cup {none}, NEW at \in At, Moves(c, m, at)
        PROVE  calls' \subseteq Call
      BY <1>1, Moved
  <1>2. CASE Serve
    <2>1. \E c \in calls : \/ \E m \in Msg \cup {none}, at \in At : Moves(c, m, at)
                           \/ calls' = calls \ {c}
        BY <1>0, <1>2, Zenon DEF Serve, ServeEnqueue, ServeDequeue, ServeAck, ServeNack,
           AnswerCall, At, Refused
    <2>2. QED
        BY <1>1, <2>1
  <1>3. CASE calls' \subseteq calls
      BY <1>3
  <1>4. ASSUME NEW w, CallFails(w) PROVE calls' \subseteq Call
      BY <1>4, Failed
  <1>5. ASSUME NEW w \in Worker \cup {producer},
               NEW op \in {"enqueue", "dequeue", "ack", "nack"},
               NEW m \in Msg \cup {none}, Sends(w, op, m)
        PROVE  calls' \subseteq Call
    <2>1. PICK d \in Call : calls' \subseteq calls \cup {d}
        BY <1>5, Sent1, Zenon
    <2>2. QED
        BY <2>1
  <1>6. CASE Produce
    <2>1. CASE Sends(producer, "enqueue", none) \/ CallFails(producer)
        BY <1>4, <1>5, <2>1
    <2>2. ASSUME NEW at, SubmitAnswered(at) PROVE calls' \subseteq Call
        BY <2>2, Answered
    <2>3. QED
        BY <1>6, <2>1, <2>2, Zenon DEF Produce, Submit, SubmitFails
  <1>7. ASSUME NEW w \in Worker, Loop(w) PROVE calls' \subseteq Call
    <2>1. \/ Sends(w, "dequeue", none) \/ Sends(w, "ack", job[w]) \/ Sends(w, "nack", job[w])
          \/ CallFails(w) \/ Reads(w, "answered") \/ calls' = calls
        BY <1>7, Zenon DEF Loop, LoopTop, GotMessage, DequeueFails, StopAtWork, Abandon,
           Finish, AckAnswered, NackAnswered, FinishFails, server
    <2>2. job[w] \in Msg \cup {none}
        OBVIOUS
    <2>3. QED
        BY <1>3, <1>4, <1>5, <2>1, <2>2 DEF Reads
  <1>8. CASE Kill \/ Restart \/ (\E m \in Msg : Expire(m))
             \/ (\E n \in 0 .. MaxPool : SetWorkers(n)) \/ UNCHANGED vars
    <2>1. calls' = {} \/ calls' = calls
        BY <1>8, Zenon DEF Kill, Restart, Expire, SetWorkers, vars, server
    <2>2. QED
        BY <1>3, <2>1
  <1>9. QED
      BY <1>2, <1>6, <1>7, <1>8, Zenon DEF Next

LEMMA NextFleet ==
    ASSUME TypeOK, CallsInv, [Next]_vars
    PROVE  FleetOK'
  <1> USE ConsumersAssumption
  <1>0. FleetOK /\ calls \subseteq Call
      BY DEF TypeOK, FleetOK
  <1>1. CASE Serve
      BY <1>0, <1>1 DEF Serve, ServeEnqueue, ServeDequeue, ServeAck, ServeNack, AnswerCall,
         FleetOK, fleet, batch, counts, produced, bounds
  <1>2. CASE Kill \/ Restart
    <2>1. /\ UNCHANGED <<pc, job, nextWorkerID, stops, workers, left, out, submitted, again, missed,
                         accepted, done, timeouts>>
          /\ up' \in BOOLEAN
        BY <1>2 DEF Kill, Restart, fleet, batch, counts, produced, bounds
    <2>2. kills' \in 0 .. MaxKills
        BY <1>0, <1>2 DEF Kill, Restart, bounds, FleetOK
    <2>3. QED
        BY <1>0, <2>1, <2>2 DEF FleetOK
  <1>3. ASSUME NEW m \in Msg, Expire(m) PROVE FleetOK'
      BY <1>0, <1>3 DEF Expire, FleetOK, fleet, batch, counts, produced, bounds
  <1>4. ASSUME NEW w, CallFails(w)
        PROVE  up' = up /\ kills' \in 0 .. MaxKills /\ timeouts' \in 0 .. MaxTimeouts
      BY <1>0, <1>4 DEF CallFails, Reads, FleetOK, bounds
  <1>5. CASE Produce
    <2>1. ASSUME NEW n \in 1 .. MaxBatch, Submit(n) PROVE FleetOK'
      <3>1. n \in Nat
          OBVIOUS
      <3>2. QED
          BY <1>0, <2>1, <3>1 DEF Submit, FleetOK, fleet, counts, produced, bounds
    <2>2. CASE SubmitFails
        BY <1>0, <1>4, <2>2 DEF SubmitFails, FleetOK, fleet
    <2>3. ASSUME NEW at \in {"answered", "duplicate"}, SubmitAnswered(at) PROVE FleetOK'
      <3>1. UNCHANGED <<up, pc, job, nextWorkerID, stops, workers, missed, done, kills, timeouts>>
          BY <2>3 DEF SubmitAnswered, fleet, bounds
      <3>2. left' \in Nat
          BY <1>0, <2>3 DEF SubmitAnswered, FleetOK
      <3>3. submitted' \in Nat /\ out' \in Nat /\ again' \in Nat
          BY <1>0, <2>3 DEF SubmitAnswered, FleetOK
      <3>4. accepted' \subseteq Msg
        <4>1. ASSUME NEW c \in CallOf(producer), c.at = "answered" PROVE c.m \in Msg
            BY <4>1 DEF CallOf, CallsInv, CallOK
        <4>2. ASSUME NEW c \in CallOf(producer), NEW d \in CallOf(producer) PROVE c = d
            BY ConsumersAssumption DEF CallOf, CallsInv
        <4>3. \E c \in CallOf(producer) : c.at = at
            BY <2>3 DEF SubmitAnswered
        <4>4. CASE at = "answered"
          <5>1. {c.m : c \in CallOf(producer)} \subseteq Msg
              BY <4>1, <4>2, <4>3, <4>4
          <5>2. accepted' = accepted \cup {c.m : c \in CallOf(producer)}
              BY <2>3, <4>4 DEF SubmitAnswered
          <5>3. QED
              BY <1>0, <5>1, <5>2 DEF FleetOK
        <4>5. CASE at # "answered"
            BY <1>0, <2>3, <4>5 DEF SubmitAnswered, FleetOK
        <4>6. QED
            BY <4>4, <4>5
      <3>5. QED
          BY <1>0, <3>1, <3>2, <3>3, <3>4 DEF FleetOK
    <2>4. QED
        BY <1>5, <2>1, <2>2, <2>3, Zenon DEF Produce
  <1>6. ASSUME NEW n \in 0 .. MaxPool, SetWorkers(n) PROVE FleetOK'
    <2> DEFINE k == Cardinality(stops)
               new == nextWorkerID .. nextWorkerID + (n - k) - 1
               kept == {w \in stops : Cardinality({x \in stops : x <= w}) <= n}
    <2>1. /\ new \subseteq Worker
          /\ nextWorkerID' = nextWorkerID + Cardinality(new)
          /\ stops' = kept \cup new
          /\ workers' = (workers \ (stops \ kept)) \cup new
          /\ pc' = [w \in Worker |-> IF w \in new THEN "top" ELSE pc[w]]
          /\ UNCHANGED <<up, job, left, out, submitted, again, missed, accepted, done, kills,
                         timeouts>>
        BY <1>6 DEF SetWorkers, server, batch, counts, produced, bounds
    <2>2. Cardinality(new) \in Nat
      <3>1. IsFiniteSet(Worker)
          BY FS_Interval DEF Worker
      <3>2. IsFiniteSet(new)
          BY <2>1, <3>1, FS_Subset
      <3>3. QED
          BY <3>2, FS_CardinalityType
    <2> HIDE DEF new, kept
    <2>3. kept \subseteq stops
        BY DEF kept
    <2>4. QED
        BY <1>0, <2>1, <2>2, <2>3 DEF FleetOK
  <1>7. ASSUME NEW w \in Worker, Loop(w) PROVE FleetOK'
    <2> USE DEF FleetOK, Goes, setWorker, batch, counts, produced
    <2>1. CASE LoopTop(w)
        BY <1>0, <2>1 DEF LoopTop, bounds
    <2>2. CASE GotMessage(w)
      <3>1. PICK c \in CallOf(w) :
                /\ job' = [job EXCEPT ![w] = c.m]
                /\ Goes(w, IF c.m = none THEN "top" ELSE "work")
          BY <2>2 DEF GotMessage
      <3>2. c.m \in Msg \cup {none}
          BY <1>0 DEF CallOf, Call
      <3>3. job' \in [Worker -> Msg \cup {none}]
          BY <1>0, <3>1, <3>2
      <3>4. QED
          BY <1>0, <2>2, <3>1, <3>3 DEF GotMessage, Reads, bounds
    <2>3. CASE DequeueFails(w)
        BY <1>0, <1>4, <2>3 DEF DequeueFails
    <2>4. CASE StopAtWork(w) \/ Abandon(w)
        BY <1>0, <2>4 DEF StopAtWork, Abandon, server, bounds
    <2>5. CASE Finish(w)
        BY <1>0, <2>5 DEF Finish, bounds
    <2>6. CASE AckAnswered(w)
      <3>1. /\ UNCHANGED <<up, nextWorkerID, stops, left, out, submitted, again, missed, accepted,
                         kills, timeouts>>
            /\ workers' \in {workers, workers \cup {w}}
            /\ pc' = [pc EXCEPT ![w] = "top"] /\ job' = [job EXCEPT ![w] = none]
            /\ done' = [done EXCEPT ![job[w]] = @ + 1]
          BY <2>6, Zenon DEF AckAnswered, Reads, Over, bounds, batch, produced
      <3>2. done' \in [Msg -> Nat]
        <4>1. job[w] \in Msg /\ done \in [Msg -> Nat]
            BY <1>0, <2>6 DEF AckAnswered, CallsInv
        <4>2. done[job[w]] + 1 \in Nat
            BY <4>1
        <4>3. QED
            BY <3>1, <4>1, <4>2, Zenon
      <3>3. QED
          BY <1>0, <3>1, <3>2
    <2>7. CASE NackAnswered(w)
        BY <1>0, <2>7 DEF NackAnswered, Reads, Over, bounds
    <2>8. CASE FinishFails(w)
        BY <1>0, <1>4, <2>8 DEF FinishFails, Over
    <2>9. QED
        BY <1>7, <2>1, <2>2, <2>3, <2>4, <2>5, <2>6, <2>7, <2>8 DEF Loop
  <1>8. CASE UNCHANGED vars
      BY <1>0, <1>8 DEF vars, server, fleet, batch, counts, produced, bounds, FleetOK
  <1>9. QED
      BY <1>1, <1>2, <1>3, <1>5, <1>6, <1>7, <1>8, Zenon DEF Next

LEMMA NextTypes ==
    ASSUME TypeOK, PromiseInv, CallsInv, [Next]_vars
    PROVE  TypeOK'
  <1>1. ALOTypeOK'
      BY AloStep, NextPromise DEF PromiseInv
  <1>2. QED
      BY <1>1, NextCallType, NextFleet DEF TypeOK, FleetOK

LEMMA InitCalls == Init => CallsInv
  BY ConsumersAssumption DEF Init, CallsInv, Worker

\* What a handler writes into its call.
LEMMA ServeShape ==
    ASSUME TypeOK, CallsInv, Serve, ~ \E c \in calls : calls' = calls \ {c}
    PROVE  \E c \in calls, d \in Call :
             /\ d.op = c.op /\ d.by = c.by
             /\ c.op \in {"ack", "nack"} => d.m = c.m
             /\ c.op = "enqueue" => d.m \in Msg
             /\ c.op = "dequeue" => d.at # "applied"
             /\ calls' \subseteq (calls \ {c}) \cup {d}
  <1>1. PICK c \in calls : \/ ServeEnqueue(c) \/ ServeDequeue(c) \/ ServeAck(c)
                           \/ ServeNack(c) \/ AnswerCall(c)
      BY DEF Serve
  <1>2. PICK m \in Msg \cup {none}, at \in At :
            /\ Moves(c, m, at)
            /\ c.op \in {"ack", "nack"} => m = c.m
            /\ c.op = "enqueue" => m \in Msg
            /\ c.op = "dequeue" => at # "applied"
    <2>1. c.m \in Msg \cup {none} /\ At = {"sent", "applied", "answered", "duplicate"}
        BY DEF TypeOK, Call, At
    <2>2. CASE ServeEnqueue(c)
      <3>1. PICK m \in Msg, at \in {"applied", "duplicate"} : Moves(c, m, at)
          BY <2>2, Zenon DEF ServeEnqueue
      <3>2. c.op = "enqueue"
          BY <2>2 DEF ServeEnqueue, Sent
      <3>3. QED
          BY <2>1, <3>1, <3>2
    <2>3. CASE ServeDequeue(c)
      <3>1. PICK m \in Msg \cup {none} : Moves(c, m, "answered")
          BY <2>3 DEF ServeDequeue
      <3>2. c.op = "dequeue"
          BY <2>3 DEF ServeDequeue, Sent
      <3>3. QED
          BY <2>1, <3>1, <3>2
    <2>4. CASE ServeAck(c) \/ ServeNack(c)
      <3>1. Moves(c, c.m, "applied")
          BY <2>4, Zenon DEF ServeAck, ServeNack, Refused
      <3>2. c.op \in {"ack", "nack"}
          BY <2>4 DEF ServeAck, ServeNack, Sent
      <3>3. QED
          BY <2>1, <3>1, <3>2
    <2>5. CASE AnswerCall(c)
      <3>1. Moves(c, c.m, "answered") /\ c.at = "applied"
          BY <2>5 DEF AnswerCall
      <3>2. c.op = "enqueue" => c.m \in Msg
          BY <3>1 DEF CallsInv, CallOK
      <3>3. QED
          BY <2>1, <3>1, <3>2
    <2>6. QED
        BY <1>1, <2>2, <2>3, <2>4, <2>5
  <1>3. PICK d \in Call :
             /\ d.op = c.op /\ d.by = c.by /\ d.m = m /\ d.at = at
             /\ calls' \subseteq (calls \ {c}) \cup {d}
      BY <1>2, Moved
  <1>4. /\ c.op \in {"ack", "nack"} => d.m = c.m
        /\ c.op = "enqueue" => d.m \in Msg
        /\ c.op = "dequeue" => d.at # "applied"
      BY <1>2, <1>3, Zenon
  <1>5. QED
      BY <1>3, <1>4, Zenon

\* A step that only drops calls and leaves the clients where they are.
LEMMA CallsDrop ==
    ASSUME CallsInv, calls' \subseteq calls,
           UNCHANGED <<pc, job, nextWorkerID, left>>
    PROVE  CallsInv'
  BY DEF CallsInv, CallOK

\* The client w is through with its call, successfully or not.
LEMMA CallsOver ==
    ASSUME TypeOK, CallsInv, NEW w \in Worker \cup {producer},
           calls' = calls \ CallOf(w) \/ CallFails(w)
    PROVE  /\ \A c, d \in calls' : c.by = d.by /\ c.by # none => c = d
           /\ \A c \in calls' :
                \/ c \in calls /\ c.by # w
                \/ /\ c.by = none
                   /\ c.op \in {"ack", "nack"} => c.m \in Msg
                   /\ c.op = "enqueue" /\ c.at # "sent" => c.m \in Msg
                   /\ c.op = "dequeue" => c.at # "applied"
  <1>0. w # none
      BY ConsumersAssumption DEF Worker
  <1>1. CASE calls' = calls \ CallOf(w)
      BY <1>1 DEF CallsInv, CallOf
  <1>2. CASE calls' = calls /\ CallOf(w) = {}
      BY <1>2 DEF CallsInv, CallOf
  <1>3. ASSUME NEW c \in CallOf(w), calls' = calls \ {c}
        PROVE  calls' = calls \ CallOf(w)
      BY <1>0, <1>3 DEF CallsInv, CallOf
  <1>4. ASSUME NEW c \in CallOf(w), NEW d \in Call,
               d.op = c.op, d.by = none, d.m = c.m, d.at = c.at,
               calls' = (calls \ {c}) \cup {d}
        PROVE  /\ \A a, b \in calls' : a.by = b.by /\ a.by # none => a = b
               /\ \A a \in calls' : (a \in calls /\ a.by # w) \/ a = d
               /\ CallOK(c)
      BY <1>0, <1>4 DEF CallsInv, CallOf
  <1>6. CASE CallFails(w)
    <2>1. \/ calls' = calls /\ CallOf(w) = {}
          \/ \E c \in CallOf(w) :
                \/ calls' = calls \ {c}
                \/ \E d \in Call :
                     /\ d.op = c.op /\ d.by = none /\ d.m = c.m /\ d.at = c.at
                     /\ calls' = (calls \ {c}) \cup {d}
        BY <1>6, Failed, Zenon
    <2>2. CASE \E c \in CallOf(w) : \E d \in Call :
                  /\ d.op = c.op /\ d.by = none /\ d.m = c.m /\ d.at = c.at
                  /\ calls' = (calls \ {c}) \cup {d}
      <3>1. PICK c \in CallOf(w), d \in Call :
                  /\ d.op = c.op /\ d.by = none /\ d.m = c.m /\ d.at = c.at
                  /\ calls' = (calls \ {c}) \cup {d}
          BY <2>2
      <3>2. /\ \A a, b \in calls' : a.by = b.by /\ a.by # none => a = b
            /\ \A a \in calls' : (a \in calls /\ a.by # w) \/ a = d
            /\ CallOK(c)
          BY <1>4, <3>1
      <3>3. QED
          BY <3>1, <3>2 DEF CallOK
    <2>3. QED
        BY <1>1, <1>2, <1>3, <2>1, <2>2, Zenon
  <1>7. QED
      BY <1>1, <1>6

LEMMA NextCalls ==
    ASSUME TypeOK, CallsInv, [Next]_vars
    PROVE  CallsInv'
  <1>0. /\ pc \in [Worker -> {"unborn", "top", "asking", "work", "acking",
                              "nacking", "exited"}]
        /\ job \in [Worker -> Msg \cup {none}] /\ calls \subseteq Call
        /\ nextWorkerID \in Nat /\ Worker = 1 .. MaxWorkers
      BY DEF TypeOK, Worker
  <1>1. CASE Serve
    <2>1. UNCHANGED <<pc, job, nextWorkerID, left>>
        BY <1>1, Zenon DEF Serve, ServeEnqueue, ServeDequeue, ServeAck, ServeNack, AnswerCall,
           fleet, batch
    <2> SUFFICES ASSUME ~ \E c \in calls : calls' = calls \ {c} PROVE CallsInv'
        BY <2>1, CallsDrop
    <2>2. PICK c \in calls, d \in Call :
             /\ d.op = c.op /\ d.by = c.by
             /\ c.op \in {"ack", "nack"} => d.m = c.m
             /\ c.op = "enqueue" => d.m \in Msg
             /\ c.op = "dequeue" => d.at # "applied"
             /\ calls' \subseteq (calls \ {c}) \cup {d}
        BY <1>1, ServeShape
    <2>3. CallOK(d)'
        BY <2>1, <2>2 DEF CallsInv, CallOK
    <2>4. \A b \in calls \ {c} : CallOK(b)'
        BY <2>1 DEF CallsInv, CallOK
    <2>5. \A a, b \in calls' : a.by = b.by /\ a.by # none => a = b
        BY <2>2 DEF CallsInv
    <2>6. \A b \in calls' : CallOK(b)'
        BY <2>2, <2>3, <2>4
    <2>7. QED
        BY <2>1, <2>5, <2>6 DEF CallsInv
  <1>2. CASE Kill \/ Restart \/ (\E m \in Msg : Expire(m)) \/ UNCHANGED vars
    <2>1. UNCHANGED <<pc, job, nextWorkerID, left>> /\ (calls' = {} \/ calls' = calls)
        BY <1>2, Zenon DEF Kill, Restart, Expire, vars, server, fleet, batch
    <2>2. QED
        BY <2>1, CallsDrop
  <1>3. ASSUME NEW k \in 1 .. MaxBatch, Submit(k) PROVE CallsInv'
    <2>1. PICK n \in Call : /\ n.op = "enqueue" /\ n.by = producer /\ n.at = "sent"
                            /\ calls' \subseteq calls \cup {n}
        BY <1>3, Sent1 DEF Submit
    <2>2. UNCHANGED <<pc, job, nextWorkerID>> /\ left' = k /\ left = 0 /\ k > 0
        BY <1>3 DEF Submit, fleet
    <2>3. \A c \in calls : c.by # producer
        BY <2>2 DEF CallsInv, CallOK
    <2>4. CallOK(n)'
        BY <2>1, <2>2, ConsumersAssumption DEF CallOK, Worker
    <2>5. \A c \in calls : CallOK(c)'
        BY <2>2, <2>3 DEF CallsInv, CallOK
    <2>6. \A a, b \in calls' : a.by = b.by /\ a.by # none => a = b
        BY <2>1, <2>3 DEF CallsInv
    <2>7. \A c \in calls' : CallOK(c)'
        BY <2>1, <2>4, <2>5
    <2>8. QED
        BY <2>2, <2>6, <2>7 DEF CallsInv
  <1>4. CASE SubmitFails \/ SubmitAnswered("answered") \/ SubmitAnswered("duplicate")
    <2>1. UNCHANGED <<pc, job, nextWorkerID>>
        BY <1>4 DEF SubmitFails, SubmitAnswered, fleet
    <2>2. producer # none /\ none \notin Worker
        BY ConsumersAssumption DEF Worker
    <2>3. ASSUME calls' = calls \ CallOf(producer) \/ CallFails(producer)
          PROVE  CallsInv'
      <3>1. /\ \A c, d \in calls' : c.by = d.by /\ c.by # none => c = d
            /\ \A c \in calls' :
                  \/ c \in calls /\ c.by # producer
                  \/ /\ c.by = none
                     /\ c.op \in {"ack", "nack"} => c.m \in Msg
                     /\ c.op = "enqueue" /\ c.at # "sent" => c.m \in Msg
                     /\ c.op = "dequeue" => c.at # "applied"
          BY <2>3, CallsOver
      <3>2. \A c \in calls' : CallOK(c)'
          BY <2>1, <2>2, <3>1 DEF CallsInv, CallOK
      <3>3. QED
          BY <2>1, <3>1, <3>2 DEF CallsInv
    \* The next request of the batch.
    <2>4. ASSUME NEW d \in Call, d.op = "enqueue", d.by = producer, d.at = "sent",
                 left > 1, left' = left - 1,
                 calls' \subseteq (calls \ CallOf(producer)) \cup {d}
          PROVE  CallsInv'
      <3>1. left' > 0
          BY <2>4 DEF TypeOK
      <3>2. \A c \in calls' : c = d \/ (c \in calls /\ c.by # producer)
          BY <2>4 DEF CallOf
      <3>3. CallOK(d)'
          BY <2>1, <2>4, <3>1, ConsumersAssumption DEF CallOK, Worker
      <3>4. \A c \in calls : c.by # producer => CallOK(c)'
          BY <2>1 DEF CallsInv, CallOK
      <3>5. \A c \in calls' : CallOK(c)'
          BY <3>2, <3>3, <3>4
      <3>6. \A a, b \in calls' : a.by = b.by /\ a.by # none => a = b
          BY <2>4, <3>2 DEF CallsInv
      <3>7. QED
          BY <2>1, <3>5, <3>6 DEF CallsInv
    <2>5. ASSUME NEW at, SubmitAnswered(at) PROVE CallsInv'
      <3>1. left' = left - 1
          BY <2>5 DEF SubmitAnswered
      <3>2. PICK d \in Call :
                /\ d.op = "enqueue" /\ d.by = producer /\ d.at = "sent"
                /\ \/ calls' = calls \ CallOf(producer)
                   \/ left > 1 /\ calls' \subseteq (calls \ CallOf(producer)) \cup {d}
          BY <2>5, Answered
      <3>3. QED
          BY <2>3, <2>4, <3>1, <3>2
    <2>6. SubmitFails => CallFails(producer)
        BY DEF SubmitFails
    <2>7. QED
        BY <1>4, <2>3, <2>5, <2>6
  <1>5. ASSUME NEW n \in 0 .. MaxPool, SetWorkers(n) PROVE CallsInv'
    <2> DEFINE new == nextWorkerID .. nextWorkerID + (n - Cardinality(stops)) - 1
    <2>1. /\ nextWorkerID' = nextWorkerID + Cardinality(new)
          /\ pc' = [w \in Worker |-> IF w \in new THEN "top" ELSE pc[w]]
          /\ UNCHANGED <<calls, job, left>>
        BY <1>5 DEF SetWorkers, server, batch
    <2>2. Cardinality(stops) \in Nat
      <3>1. IsFiniteSet(Worker) /\ stops \subseteq Worker
          BY <1>0, FS_Interval, ConsumersAssumption DEF TypeOK
      <3>2. QED
          BY <3>1, FS_Subset, FS_CardinalityType
    <2>3. nextWorkerID' >= nextWorkerID /\ \A w \in new : w < nextWorkerID'
      <3> DEFINE top == nextWorkerID + (n - Cardinality(stops)) - 1
      <3>1. nextWorkerID \in Int /\ top \in Int
          BY <1>0, <2>2
      <3> HIDE DEF top
      <3>2. Cardinality(nextWorkerID .. top) =
                IF nextWorkerID > top THEN 0 ELSE top - nextWorkerID + 1
          BY <3>1, FS_Interval
      <3>3. nextWorkerID' = nextWorkerID + Cardinality(nextWorkerID .. top)
          BY <2>1 DEF top
      <3>4. nextWorkerID' >= nextWorkerID /\ \A w \in nextWorkerID .. top : w < nextWorkerID'
          BY <1>0, <3>1, <3>2, <3>3
      <3>5. QED
          BY <3>4 DEF top
    <2>4. \A w \in new : w >= nextWorkerID
        BY <1>0, <2>2
    <2> HIDE DEF new
    <2>5. \A w \in Worker : w >= nextWorkerID' => pc'[w] = "unborn"
        BY <1>0, <2>1, <2>3 DEF CallsInv
    <2>6. \A w \in Worker : w \in new => pc[w] = "unborn" /\ pc'[w] = "top"
        BY <1>0, <2>1, <2>4 DEF CallsInv
    <2>7. \A w \in Worker : OpAt(pc'[w]) = OpAt(pc[w])
        BY <1>0, <2>1, <2>6 DEF OpAt
    <2>8. \A w \in Worker : pc'[w] \in {"work", "acking", "nacking"} => pc'[w] = pc[w]
        BY <1>0, <2>1
    <2>9. \A c \in calls : CallOK(c)'
        BY <2>1, <2>7 DEF CallsInv, CallOK
    <2>10. QED
        BY <2>1, <2>5, <2>8, <2>9 DEF CallsInv
  <1>6. ASSUME NEW w \in Worker, Loop(w) PROVE CallsInv'
    <2>0. /\ \A c \in calls : c.by = w => c.op = OpAt(pc[w])
          /\ \A c \in calls : c.op \in {"enqueue", "dequeue", "ack", "nack"}
          /\ w # none /\ w # producer /\ none \notin Worker /\ producer \notin Worker
        BY <1>0, ConsumersAssumption DEF CallsInv, CallOK, Call, Worker
    \* A step of w that sends nothing and has no call: the others are untouched.
    <2>1. ASSUME calls' = calls, pc[w] \in {"top", "work"}, pc' = [pc EXCEPT ![w] = pc'[w]],
                 pc'[w] \in {"top", "exited"}, job' \in {job, [job EXCEPT ![w] = none]},
                 UNCHANGED <<nextWorkerID, left>>
          PROVE  CallsInv'
      <3>1. \A c \in calls : c.by # w
          BY <2>0, <2>1 DEF OpAt
      <3>2. \A v \in Worker : v # w => pc'[v] = pc[v] /\ job'[v] = job[v]
          BY <1>0, <2>1
      <3>3. \A c \in calls : CallOK(c)'
          BY <2>1, <3>1, <3>2 DEF CallsInv, CallOK
      <3>4. \A v \in Worker : pc'[v] \in {"work", "acking", "nacking"} => job'[v] \in Msg
          BY <2>1, <3>2 DEF CallsInv
      <3>5. \A v \in Worker : v >= nextWorkerID' => pc'[v] = "unborn"
          BY <2>1, <3>2 DEF CallsInv
      <3>6. QED
          BY <2>1, <3>3, <3>4, <3>5 DEF CallsInv
    \* w sends a request.
    <2>2. ASSUME NEW op \in {"dequeue", "ack", "nack"},
                 Sends(w, op, IF op = "dequeue" THEN none ELSE job[w]),
                 pc[w] = (IF op = "dequeue" THEN "top" ELSE "work"),
                 pc' = [pc EXCEPT ![w] = CASE op = "dequeue" -> "asking"
                                           [] op = "ack" -> "acking"
                                           [] op = "nack" -> "nacking"],
                 UNCHANGED <<job, nextWorkerID, left>>
          PROVE  CallsInv'
      <3> DEFINE m == IF op = "dequeue" THEN none ELSE job[w]
      <3>1. m \in Msg \cup {none} /\ (op # "dequeue" => m = job[w] /\ m \in Msg)
          BY <1>0, <2>2 DEF CallsInv
      <3>2. PICK n \in Call : /\ n.op = op /\ n.by = w /\ n.m = m /\ n.at = "sent"
                              /\ calls' \subseteq calls \cup {n}
          BY <2>2, <3>1, Sent1
      <3> HIDE DEF m
      <3>3. \A c \in calls : c.by # w
          BY <2>0, <2>2 DEF OpAt
      <3>4. \A v \in Worker : v # w => pc'[v] = pc[v]
          BY <1>0, <2>2
      <3>5. op = OpAt(pc'[w])
          BY <1>0, <2>2 DEF OpAt
      <3>6. CallOK(n)'
          BY <2>0, <2>2, <3>1, <3>2, <3>5 DEF CallOK
      <3>7. \A c \in calls : CallOK(c)'
          BY <2>2, <3>3, <3>4 DEF CallsInv, CallOK
      <3>8. \A c \in calls' : CallOK(c)'
          BY <3>2, <3>6, <3>7
      <3>9. \A a, b \in calls' : a.by = b.by /\ a.by # none => a = b
          BY <3>2, <3>3 DEF CallsInv
      <3>10. \A v \in Worker : pc'[v] \in {"work", "acking", "nacking"} => job'[v] \in Msg
        <4>1. job[w] \in Msg \/ pc'[w] = "asking"
            BY <1>0, <2>2 DEF CallsInv
        <4>2. QED
            BY <2>2, <3>4, <4>1 DEF CallsInv
      <3>11. \A v \in Worker : v >= nextWorkerID' => pc'[v] = "unborn"
        <4>1. pc[w] # "unborn"
            BY <2>2
        <4>2. QED
            BY <2>2, <3>4, <4>1 DEF CallsInv
      <3>12. QED
          BY <3>8, <3>9, <3>10, <3>11 DEF CallsInv
    \* w is through with its call.
    <2>3. ASSUME Reads(w, "answered") \/ CallFails(w), pc[w] \in {"asking", "acking", "nacking"},
                 pc' = [pc EXCEPT ![w] = pc'[w]], pc'[w] \in {"top", "work"},
                 \A v \in Worker : v # w => job'[v] = job[v],
                 pc'[w] = "work" => job'[w] \in Msg,
                 UNCHANGED <<nextWorkerID, left>>
          PROVE  CallsInv'
      <3>1. /\ \A c, d \in calls' : c.by = d.by /\ c.by # none => c = d
            /\ \A c \in calls' :
                 \/ c \in calls /\ c.by # w
                 \/ /\ c.by = none
                    /\ c.op \in {"ack", "nack"} => c.m \in Msg
                    /\ c.op = "enqueue" /\ c.at # "sent" => c.m \in Msg
                    /\ c.op = "dequeue" => c.at # "applied"
          BY <2>3, CallsOver DEF Reads
      <3>2. \A v \in Worker : v # w => pc'[v] = pc[v] /\ job'[v] = job[v]
          BY <1>0, <2>3
      <3>3. ASSUME NEW c \in calls' PROVE CallOK(c)'
        <4>1. CASE c \in calls /\ c.by # w
            BY <2>3, <3>2, <4>1 DEF CallsInv, CallOK
        <4>2. CASE c.by = none
            BY <2>0, <3>1, <4>2, ConsumersAssumption DEF CallsInv, CallOK
        <4>3. QED
            BY <3>1, <4>1, <4>2
      <3>4. \A v \in Worker : pc'[v] \in {"work", "acking", "nacking"} => job'[v] \in Msg
          BY <2>3, <3>2 DEF CallsInv
      <3>5. \A v \in Worker : v >= nextWorkerID' => pc'[v] = "unborn"
        <4>1. pc[w] # "unborn"
            BY <2>3
        <4>2. QED
            BY <2>3, <3>2, <4>1 DEF CallsInv
      <3>6. QED
          BY <3>1, <3>3, <3>4, <3>5 DEF CallsInv
    <2>4. CASE LoopTop(w)
      <3>1. CASE Goes(w, "exited") /\ calls' = calls
          BY <1>0, <2>1, <2>4, <3>1 DEF LoopTop, Goes, batch
      <3>2. CASE Sends(w, "dequeue", none) /\ Goes(w, "asking")
          BY <1>0, <2>2, <2>4, <3>2 DEF LoopTop, Goes, batch
      <3>3. QED
          BY <2>4, <3>1, <3>2 DEF LoopTop
    <2>5. CASE GotMessage(w)
      <3>1. PICK c \in CallOf(w) :
                /\ job' = [job EXCEPT ![w] = c.m]
                /\ Goes(w, IF c.m = none THEN "top" ELSE "work")
          BY <2>5 DEF GotMessage
      <3>2. c.m \in Msg \cup {none}
          BY <1>0 DEF CallOf, Call
      <3>3. /\ pc' = [pc EXCEPT ![w] = pc'[w]] /\ pc'[w] \in {"top", "work"}
            /\ \A v \in Worker : v # w => job'[v] = job[v]
            /\ pc'[w] = "work" => job'[w] \in Msg
          BY <1>0, <3>1, <3>2 DEF Goes
      <3>4. QED
          BY <2>3, <2>5, <3>3 DEF GotMessage, batch
    <2>6. CASE DequeueFails(w)
        BY <1>0, <2>3, <2>6 DEF DequeueFails, Goes, batch
    <2>7. CASE StopAtWork(w) \/ Abandon(w)
        BY <1>0, <2>1, <2>7 DEF StopAtWork, Abandon, Goes, server, batch
    <2>8. CASE Finish(w)
      <3>1. CASE Sends(w, "nack", job[w]) /\ Goes(w, "nacking")
          BY <1>0, <2>2, <2>8, <3>1 DEF Finish, Goes, batch
      <3>2. CASE Sends(w, "ack", job[w]) /\ Goes(w, "acking")
          BY <1>0, <2>2, <2>8, <3>2 DEF Finish, Goes, batch
      <3>3. QED
          BY <2>8, <3>1, <3>2 DEF Finish
    <2>9. CASE AckAnswered(w) \/ NackAnswered(w) \/ FinishFails(w)
        BY <1>0, <2>3, <2>9 DEF AckAnswered, NackAnswered, FinishFails, Over, Goes, batch
    <2>10. QED
        BY <1>6, <2>4, <2>5, <2>6, <2>7, <2>8, <2>9 DEF Loop
  <1>7. QED
      BY <1>1, <1>2, <1>3, <1>4, <1>5, <1>6, Zenon DEF Next, Produce

-----------------------------------------------------------------------------
\* The clients add calls that are sent, take calls away, or leave a handler
\* without a client.
ClientStep ==
    \/ calls' \subseteq calls
    \/ \E d : d.at = "sent" /\ calls' \subseteq calls \cup {d}
    \/ \E c \in calls, d \in Call :
          /\ d.op = c.op /\ d.by = none /\ d.m = c.m /\ d.at = c.at
          /\ calls' \subseteq (calls \ {c}) \cup {d}

LEMMA ClientShape ==
    ASSUME TypeOK, Produce \/ \E w \in Worker : Loop(w)
    PROVE  ClientStep
  <1>1. CASE calls' \subseteq calls
      BY <1>1 DEF ClientStep
  <1>2. ASSUME NEW w, CallFails(w) PROVE ClientStep
    <2>1. \A c \in CallOf(w) : c \in calls
        BY DEF CallOf
    <2>2. \/ calls' \subseteq calls
          \/ \E c \in CallOf(w) : \E d \in Call :
                     /\ d.op = c.op /\ d.by = none /\ d.m = c.m /\ d.at = c.at
                     /\ calls' = (calls \ {c}) \cup {d}
        BY <1>2, Failed
    <2>3. QED
        BY <2>1, <2>2, Zenon DEF ClientStep
  <1>3. ASSUME NEW w \in Worker \cup {producer},
               NEW op \in {"enqueue", "dequeue", "ack", "nack"},
               NEW m \in Msg \cup {none}, Sends(w, op, m)
        PROVE  ClientStep
    <2>1. PICK d \in Call : d.at = "sent" /\ calls' \subseteq calls \cup {d}
        BY <1>3, Sent1
    <2>2. QED
        BY <2>1, Zenon DEF ClientStep
  <1>4. CASE Produce
    <2>1. Sends(producer, "enqueue", none) \/ CallFails(producer) \/ \E at : SubmitAnswered(at)
        BY <1>4, Zenon DEF Produce, Submit, SubmitFails
    <2>2. ASSUME NEW at, SubmitAnswered(at) PROVE ClientStep
      <3>1. PICK d : d.at = "sent" /\ calls' \subseteq calls \cup {d}
          BY <2>2, Answered
      <3>2. QED
          BY <3>1, Zenon DEF ClientStep
    <2>3. QED
        BY <1>2, <1>3, <2>1, <2>2
  <1>5. ASSUME NEW w \in Worker, Loop(w) PROVE ClientStep
    <2>1. \/ Sends(w, "dequeue", none) \/ Sends(w, "ack", job[w]) \/ Sends(w, "nack", job[w])
          \/ CallFails(w) \/ Reads(w, "answered") \/ calls' = calls
        BY <1>5, Zenon DEF Loop, LoopTop, GotMessage, DequeueFails, StopAtWork, Abandon,
           Finish, AckAnswered, NackAnswered, FinishFails, server
    <2>2. job[w] \in Msg \cup {none}
        BY DEF TypeOK
    <2>3. QED
        BY <1>1, <1>2, <1>3, <2>1, <2>2 DEF Reads
  <1>6. QED
      BY <1>4, <1>5

\* The clients leave the queue alone, and only a read answer counts.
LEMMA ClientFrame ==
    ASSUME TypeOK, Produce \/ \E w \in Worker : Loop(w)
    PROVE  /\ UNCHANGED alo
           /\ done' = done \/ \E w \in Worker : AckAnswered(w)
           /\ \/ /\ UNCHANGED <<accepted, again>>
                 /\ submitted' + out' + missed' = submitted + out + missed
              \/ SubmitAnswered("answered") \/ SubmitAnswered("duplicate")
  <1>1. UNCHANGED alo
      BY Zenon DEF Produce, Submit, SubmitFails, SubmitAnswered, Loop, LoopTop, GotMessage,
         DequeueFails, StopAtWork, Abandon, Finish, AckAnswered, NackAnswered, FinishFails,
         CallFails, Reads, server
  <1>2. done' = done \/ \E w \in Worker : AckAnswered(w)
      BY Zenon DEF Produce, Submit, SubmitFails, SubmitAnswered, Loop, LoopTop, GotMessage,
         DequeueFails, StopAtWork, Abandon, Finish, NackAnswered, FinishFails, counts
  <1>3. \/ UNCHANGED <<out, submitted, accepted, again, missed>> \/ SubmitFails
        \/ SubmitAnswered("answered") \/ SubmitAnswered("duplicate")
      BY Zenon DEF Produce, Submit, Loop, LoopTop, GotMessage,
         DequeueFails, StopAtWork, Abandon, Finish, AckAnswered, NackAnswered, FinishFails,
         Over, counts, produced, batch
  <1>4. SubmitFails => /\ UNCHANGED <<accepted, again>>
                       /\ submitted' + out' + missed' = submitted + out + missed
      BY DEF SubmitFails, TypeOK
  <1>5. QED
      BY <1>1, <1>2, <1>3, <1>4

-----------------------------------------------------------------------------
LEMMA InitAck == Init => AckInv
  BY DEF Init, ALOInit, AckInv, NotBack

\* A step in which no ack takes effect or is answered, and no acked message
\* comes back.
LEMMA AckFrame ==
    ASSUME TypeOK, CallsInv, AckInv, NotBack',
           UNCHANGED <<gone, done>>,
           \A m \in Msg : status[m] = "acked" => status'[m] = "acked",
           NEW c, NEW d, calls' \subseteq (calls \ {c}) \cup {d},
           TookEffect(d, "ack") => /\ c \in calls /\ d.at = c.at
                                   /\ d.m = c.m /\ d.op = c.op
    PROVE  AckInv'
  <1>1. \A a \in calls : TookEffect(a, "ack") => a.m \in Msg
      BY DEF CallsInv, CallOK, TookEffect
  <1>2. ASSUME NEW a \in calls', TookEffect(a, "ack")
        PROVE  \E b \in calls : /\ b.at = a.at /\ b.m = a.m /\ b.op = a.op
                                /\ a = b \/ (a = d /\ b = c)
      BY <1>2
  <1>3. ASSUME NEW a \in calls', TookEffect(a, "ack")
        PROVE  status'[a.m] = "acked" /\ done'[a.m] = 0 /\ (a.at = "answered" => a.m \in gone')
      BY <1>1, <1>2, <1>3 DEF AckInv, TookEffect
  <1>4. ASSUME NEW a \in calls', NEW b \in calls', TookEffect(a, "ack"), TookEffect(b, "ack"),
               a.m = b.m
        PROVE  a = b
      BY <1>4 DEF AckInv, TookEffect
  <1>5. \A m \in Msg : done'[m] \in {0, 1} /\ (done'[m] = 1 => m \in gone')
      BY DEF AckInv
  <1>6. QED
      BY <1>3, <1>4, <1>5 DEF AckInv, TookEffect

\* Shorthand for a step of a handler: its call and what the call becomes.
LEMMA MovedTo ==
    ASSUME TypeOK, NEW c \in calls, NEW m \in Msg \cup {none},
           NEW at \in {"sent", "applied", "answered", "duplicate"}, Moves(c, m, at)
    PROVE  \E d \in Call :
             /\ d.op = c.op /\ d.by = c.by /\ d.m = m /\ d.at = at
             /\ calls' \subseteq (calls \ {c}) \cup {d}
  BY Moved DEF At

LEMMA NextAck ==
    ASSUME TypeOK, PromiseInv, CallsInv, AckInv, [Next]_vars
    PROVE  AckInv'
  <1>0. /\ NotBack' /\ status \in [Msg -> Status] /\ done \in [Msg -> Nat]
        /\ \A c \in calls : c \in Call /\ c.m \in Msg \cup {none}
      BY AloStep, NextPromise DEF PromiseInv, TypeOK, ALOTypeOK, Call
  <1>1. ASSUME NEW c \in calls, ServeEnqueue(c) PROVE AckInv'
    <2>1. PICK m \in Msg, at \in {"applied", "duplicate"} :
              Moves(c, m, at) /\ (Put(m) \/ UNCHANGED alo)
        BY <1>1, Zenon DEF ServeEnqueue
    <2>2. PICK d \in Call : d.op = c.op /\ calls' \subseteq (calls \ {c}) \cup {d}
        BY <2>1, MovedTo
    <2>3. c.op = "enqueue" /\ UNCHANGED <<gone, done>>
        BY <1>1, <2>1 DEF ServeEnqueue, Sent, Put, counts, alo
    <2>4. \A x \in Msg : status[x] = "acked" => status'[x] = "acked"
        BY <1>0, <2>1 DEF Put, alo
    <2>5. QED
        BY <1>0, <2>2, <2>3, <2>4, AckFrame DEF TookEffect
  <1>2. ASSUME NEW c \in calls, ServeDequeue(c) PROVE AckInv'
    <2>1. PICK m \in Msg \cup {none} : Moves(c, m, "answered")
        BY <1>2 DEF ServeDequeue
    <2>2. PICK d \in Call : d.op = c.op /\ calls' \subseteq (calls \ {c}) \cup {d}
        BY <2>1, MovedTo
    <2>3. c.op = "dequeue" /\ UNCHANGED <<gone, done>>
        BY <1>2 DEF ServeDequeue, Sent, Hand, counts, alo
    <2>4. \A x \in Msg : status[x] = "acked" => status'[x] = "acked"
        BY <1>0, <1>2 DEF ServeDequeue, Hand, alo
    <2>5. QED
        BY <1>0, <2>2, <2>3, <2>4, AckFrame DEF TookEffect
  <1>3. ASSUME NEW m \in Msg, GiveBack(m)
        PROVE  /\ UNCHANGED gone
               /\ \A x \in Msg : status[x] = "acked" => status'[x] = "acked"
      BY <1>0, <1>3 DEF GiveBack
  <1>4. ASSUME NEW c \in calls, ServeNack(c) PROVE AckInv'
    <2>1. c.op = "nack" /\ UNCHANGED done /\ c.m \in Msg
        BY <1>4 DEF ServeNack, Sent, counts, CallsInv, CallOK
    <2>2. Moves(c, c.m, "applied") \/ calls' = calls \ {c}
        BY <1>4, Zenon DEF ServeNack, Refused
    <2>3. PICK d : d.op = c.op /\ calls' \subseteq (calls \ {c}) \cup {d}
        BY <2>1, <2>2, MovedTo
    <2>4. UNCHANGED gone /\ \A x \in Msg : status[x] = "acked" => status'[x] = "acked"
        BY <1>3, <1>4, <2>1 DEF ServeNack, Refused, alo
    <2>5. QED
        BY <1>0, <2>1, <2>3, <2>4, AckFrame DEF TookEffect
  <1>5. ASSUME NEW c \in calls, ServeAck(c) PROVE AckInv'
    <2>1. c.op = "ack" /\ UNCHANGED <<gone, done>> /\ c.m \in Msg
        BY <1>5 DEF ServeAck, Sent, counts, CallsInv, CallOK, Remove, Refused, alo
    <2>2. CASE calls' = calls \ {c} /\ UNCHANGED alo
        BY <1>0, <2>1, <2>2, AckFrame DEF alo
    <2>3. CASE Remove(c.m) /\ Moves(c, c.m, "applied")
      <3>1. PICK d \in Call : /\ d.op = "ack" /\ d.m = c.m /\ d.at = "applied"
                              /\ calls' \subseteq (calls \ {c}) \cup {d}
          BY <2>1, <2>3, MovedTo
      <3>2. /\ status[c.m] # "acked" /\ status'[c.m] = "acked"
            /\ \A x \in Msg : x # c.m => status'[x] = status[x]
          BY <1>0, <2>1, <2>3 DEF Remove
      <3>3. done[c.m] = 0
          BY <2>1, <3>2 DEF AckInv, NotBack
      <3>4. \A a \in calls : TookEffect(a, "ack") => a.m # c.m /\ a.m \in Msg
          BY <3>2 DEF AckInv, CallsInv, CallOK, TookEffect
      <3>5. ASSUME NEW a \in calls', TookEffect(a, "ack")
            PROVE  /\ status'[a.m] = "acked" /\ done'[a.m] = 0
                   /\ a.at = "answered" => a.m \in gone'
          BY <2>1, <3>1, <3>2, <3>3, <3>4, <3>5 DEF AckInv, TookEffect
      <3>6. ASSUME NEW a \in calls', NEW b \in calls', TookEffect(a, "ack"),
                   TookEffect(b, "ack"), a.m = b.m
            PROVE  a = b
          BY <3>1, <3>4, <3>6 DEF AckInv
      <3>7. QED
          BY <1>0, <2>1, <3>5, <3>6 DEF AckInv, TookEffect
    <2>4. QED
        BY <1>5, <2>2, <2>3 DEF ServeAck, Refused
  <1>6. ASSUME NEW c \in calls, AnswerCall(c) PROVE AckInv'
    <2>1. Moves(c, c.m, "answered") /\ c.at = "applied" /\ UNCHANGED done
        BY <1>6 DEF AnswerCall, counts
    <2>2. PICK d \in Call : /\ d.op = c.op /\ d.m = c.m /\ d.at = "answered"
                            /\ calls' \subseteq (calls \ {c}) \cup {d}
        BY <1>0, <2>1, MovedTo
    <2>3. CASE c.op = "ack"
      <3>1. UNCHANGED status /\ gone' = gone \cup {c.m} /\ c.m \in Msg
          BY <1>6, <2>3 DEF AnswerCall, ConfirmRemove, CallsInv, CallOK
      <3>2. TookEffect(c, "ack")
          BY <2>1, <2>3 DEF TookEffect
      <3>3. ASSUME NEW a \in calls', TookEffect(a, "ack")
            PROVE  /\ status'[a.m] = "acked" /\ done'[a.m] = 0
                   /\ a.at = "answered" => a.m \in gone'
          BY <2>1, <2>2, <3>1, <3>2, <3>3 DEF AckInv, TookEffect
      <3>4. ASSUME NEW a \in calls', NEW b \in calls', TookEffect(a, "ack"),
                   TookEffect(b, "ack"), a.m = b.m
            PROVE  a = b
          BY <2>2, <3>2, <3>4 DEF AckInv
      <3>5. \A m \in Msg : done'[m] \in {0, 1} /\ (done'[m] = 1 => m \in gone')
          BY <2>1, <3>1 DEF AckInv
      <3>6. QED
          BY <1>0, <3>3, <3>4, <3>5 DEF AckInv, TookEffect
    <2>4. CASE c.op # "ack"
      <3>1. c.op \in {"enqueue", "nack"}
          BY <1>0, <2>1, <2>4 DEF Call, CallsInv, CallOK
      <3>2. UNCHANGED <<status, gone>>
          BY <1>6, <3>1 DEF AnswerCall, ConfirmPut, alo
      <3>3. QED
          BY <1>0, <2>1, <2>2, <2>4, <3>2, AckFrame DEF TookEffect
    <2>5. QED
        BY <2>3, <2>4
  <1>7. CASE Kill
      BY <1>0, <1>7 DEF Kill, Fall, counts, AckInv
  <1>8. ASSUME NEW m \in Msg, Expire(m) PROVE AckInv'
    <2>1. UNCHANGED <<calls, done>> /\ GiveBack(m)
        BY <1>8 DEF Expire, counts
    <2>2. UNCHANGED gone /\ \A x \in Msg : status[x] = "acked" => status'[x] = "acked"
        BY <1>3, <2>1
    <2>3. \A c \in calls : TookEffect(c, "ack") => c.m \in Msg
        BY DEF TookEffect, CallsInv, CallOK
    <2>4. QED
        BY <1>0, <2>1, <2>2, <2>3 DEF AckInv, TookEffect
  <1>9. CASE UNCHANGED <<alo, done>> /\ calls' \subseteq calls
      BY <1>9 DEF AckInv, NotBack, alo, TookEffect
  <1>10. CASE Restart \/ (\E n \in 0 .. MaxPool : SetWorkers(n)) \/ UNCHANGED vars
    <2>1. UNCHANGED <<alo, calls, done>>
        BY <1>10, Zenon DEF Restart, SetWorkers, vars, server, counts
    <2>2. QED
        BY <1>9, <2>1
  <1>11. ASSUME UNCHANGED <<alo, done>>, ClientStep PROVE AckInv'
    <2>1. UNCHANGED <<gone, done, status>>
        BY <1>11 DEF alo
    <2>2. ASSUME NEW d, d.at = "sent", calls' \subseteq calls \cup {d} PROVE AckInv'
        BY <1>0, <2>1, <2>2 DEF AckInv, TookEffect
    <2>3. ASSUME NEW c \in calls, NEW d \in Call, d.op = c.op, d.m = c.m, d.at = c.at,
                 calls' \subseteq (calls \ {c}) \cup {d}
          PROVE  AckInv'
        BY <1>0, <2>1, <2>3, AckFrame
    <2>4. QED
        BY <1>9, <1>11, <2>2, <2>3, Zenon DEF ClientStep
  <1>12. ASSUME NEW w \in Worker, AckAnswered(w) PROVE AckInv'
    <2>1. PICK c \in CallOf(w) : c.at = "answered"
        BY <1>12 DEF AckAnswered, Reads
    <2>2. /\ calls' = calls \ CallOf(w) /\ UNCHANGED <<status, gone>>
          /\ done' = [done EXCEPT ![job[w]] = @ + 1] /\ pc[w] = "acking"
        BY <1>12 DEF AckAnswered, Reads, alo
    <2>3. c \in calls /\ c.op = "ack" /\ c.m = job[w] /\ job[w] \in Msg /\ c.by = w
        BY <2>2 DEF CallOf, CallsInv, CallOK, OpAt
    <2>4. done[job[w]] = 0 /\ job[w] \in gone
        BY <2>1, <2>3 DEF AckInv, TookEffect
    <2>5. /\ \A m \in Msg : m # job[w] => done'[m] = done[m]
          /\ done'[job[w]] = 1
        BY <1>0, <2>2, <2>3, <2>4
    <2>6. \A a \in calls' : TookEffect(a, "ack") => a \in calls /\ a.m \in Msg /\ a.m # job[w]
        BY <2>1, <2>2, <2>3 DEF AckInv, TookEffect, CallOf, CallsInv, CallOK
    <2>7. QED
        BY <1>0, <2>2, <2>4, <2>5, <2>6 DEF AckInv, TookEffect
  <1>13. CASE Produce \/ \E w \in Worker : Loop(w)
      BY <1>11, <1>12, <1>13, ClientShape, ClientFrame
  <1>14. QED
      BY <1>1, <1>2, <1>4, <1>5, <1>6, <1>7, <1>8, <1>10, <1>13, Zenon DEF Next, Serve

-----------------------------------------------------------------------------
LEMMA InitPut == Init => PutInv
  <1>1. IsFiniteSet({}) /\ Cardinality({}) = 0
      BY FS_EmptySet
  <1>2. QED
      BY <1>1 DEF Init, ALOInit, PutInv, Kept, Told, Unanswered

\* A step in which no enqueue takes effect or is answered with a 201, and that
\* counts nothing new.
LEMMA PutFrame ==
    ASSUME TypeOK, CallsInv, PutInv, Kept',
           UNCHANGED <<sure, accepted, again>>,
           submitted' + out' + missed' = submitted + out + missed,
           \A m \in Msg : status[m] # "unborn" => status'[m] # "unborn",
           NEW c, NEW d, calls' \subseteq (calls \ {c}) \cup {d},
           Unanswered(d) => c \in calls /\ d.at = c.at /\ d.m = c.m /\ d.op = c.op,
           ~Told(d)
    PROVE  PutInv'
  <1>1. \A a \in calls : Unanswered(a) => a.m \in Msg
      BY DEF CallsInv, CallOK, Unanswered
  <1>2. ASSUME NEW a \in calls', Unanswered(a)
        PROVE  \E b \in calls : /\ b.at = a.at /\ b.m = a.m /\ b.op = a.op
                                /\ a = b \/ (a = d /\ b = c)
      BY <1>2
  <1>3. ASSUME NEW a \in calls', Unanswered(a)
        PROVE  status'[a.m] # "unborn" /\ a.m \notin sure'
      BY <1>1, <1>2, <1>3 DEF PutInv, Unanswered
  <1>4. ASSUME NEW a \in calls', NEW b \in calls', Unanswered(a), Unanswered(b), a.m = b.m
        PROVE  a = b
      BY <1>4 DEF PutInv, Unanswered
  <1>5. ASSUME NEW a \in calls', Told(a) PROVE a.m \in sure' \ accepted'
    <2>1. a \in calls
        BY <1>5
    <2>2. QED
        BY <1>5, <2>1 DEF PutInv
  <1>6. QED
      BY <1>3, <1>4, <1>5 DEF PutInv, Unanswered, Told

LEMMA NextPut ==
    ASSUME TypeOK, PromiseInv, CallsInv, PutInv, [Next]_vars
    PROVE  PutInv'
  <1>0. /\ Kept' /\ status \in [Msg -> Status]
        /\ \A c \in calls : c \in Call /\ c.m \in Msg \cup {none}
        /\ \A c \in calls : Unanswered(c) => c.m \in Msg
        /\ \A m \in Msg : m \in sure => status[m] # "unborn"
      BY AloStep, NextPromise
      DEF PromiseInv, Kept, TypeOK, ALOTypeOK, Call, CallsInv, CallOK, Unanswered
  <1>1. ASSUME UNCHANGED <<out, submitted, accepted, again, missed>>
        PROVE  /\ UNCHANGED <<accepted, again>>
               /\ submitted' + out' + missed' = submitted + out + missed
      BY <1>1
  <1>2. ASSUME NEW c \in calls, ServeEnqueue(c) PROVE PutInv'
    <2>1. /\ UNCHANGED <<out, submitted, accepted, again, missed>>
          /\ c.op = "enqueue" /\ c.at = "sent"
        BY <1>2 DEF ServeEnqueue, Sent, counts, produced, batch
    <2>2. ASSUME NEW m \in Msg, Put(m), Moves(c, m, "applied") PROVE PutInv'
      <3>1. PICK d \in Call : /\ d.op = c.op /\ d.m = m /\ d.at = "applied"
                              /\ calls' \subseteq (calls \ {c}) \cup {d}
          BY <2>2, MovedTo
      <3>2. UNCHANGED sure
          BY <2>2 DEF Put
      <3>3. /\ status[m] = "unborn" /\ m \notin sure
            /\ \A x \in Msg : status[x] # "unborn" => status'[x] # "unborn"
            /\ status'[m] # "unborn"
          BY <1>0, <2>2 DEF Put
      <3>4. \A a \in calls : Unanswered(a) => a.m \in Msg /\ a.m # m
          BY <1>0, <3>3 DEF PutInv
      <3>5. ASSUME NEW a \in calls', Unanswered(a)
            PROVE  status'[a.m] # "unborn" /\ a.m \notin sure'
        <4>1. CASE a = d
            BY <3>1, <3>2, <3>3, <4>1
        <4>2. CASE a \in calls
            BY <3>2, <3>3, <3>4, <3>5, <4>2 DEF PutInv
        <4>3. QED
            BY <3>1, <4>1, <4>2
      <3>6. ASSUME NEW a \in calls', NEW b \in calls', Unanswered(a), Unanswered(b),
                   a.m = b.m
            PROVE  a = b
          BY <3>1, <3>4, <3>6 DEF PutInv
      <3>7. ASSUME NEW a \in calls', Told(a) PROVE a.m \in sure' \ accepted'
          BY <2>1, <3>1, <3>2, <3>7 DEF PutInv, Told
      <3>8. QED
          BY <1>0, <2>1, <3>2, <3>5, <3>6, <3>7 DEF PutInv, Unanswered, Told
    <2>3. ASSUME NEW m \in Msg, Moves(c, m, "duplicate"), UNCHANGED alo PROVE PutInv'
      <3>1. PICK d \in Call : d.at = "duplicate" /\ calls' \subseteq (calls \ {c}) \cup {d}
          BY <2>3, MovedTo
      <3>2. UNCHANGED sure /\ \A x \in Msg : status[x] # "unborn" => status'[x] # "unborn"
          BY <2>3 DEF alo
      <3>3. ~Unanswered(d) /\ ~Told(d)
          BY <3>1 DEF Unanswered, Told
      <3>4. QED
          BY <1>0, <1>1, <2>1, <3>1, <3>2, <3>3, PutFrame
    <2>4. QED
        BY <1>2, <2>2, <2>3, Zenon DEF ServeEnqueue
  <1>3. ASSUME NEW c \in calls, ServeDequeue(c) \/ ServeAck(c) \/ ServeNack(c)
        PROVE  PutInv'
    <2>1. c.op \in {"dequeue", "ack", "nack"} /\ c.by # producer
        BY <1>3 DEF ServeDequeue, ServeAck, ServeNack, Sent, CallsInv, CallOK
    <2>2. \/ \E m \in Msg \cup {none}, at \in {"applied", "answered"} : Moves(c, m, at)
          \/ calls' = calls \ {c}
        BY <1>0, <1>3, Zenon DEF ServeDequeue, ServeAck, ServeNack, Refused
    <2>3. PICK d : /\ d.op = c.op /\ d.by = c.by
                   /\ calls' \subseteq (calls \ {c}) \cup {d}
        BY <2>2, MovedTo
    <2>4. UNCHANGED <<sure, out, submitted, accepted, again, missed>>
        BY <1>3 DEF ServeDequeue, ServeAck, ServeNack, Refused, Hand, Remove, GiveBack, alo,
           counts, produced, batch
    <2>5. \A x \in Msg : status[x] # "unborn" => status'[x] # "unborn"
        BY <1>0, <1>3, <2>1 DEF ServeDequeue, ServeAck, ServeNack, Refused, Hand, Remove,
           GiveBack, alo
    <2>6. ~Unanswered(d) /\ ~Told(d)
        BY <2>1, <2>3 DEF Unanswered, Told
    <2>7. QED
        BY <1>0, <1>1, <2>3, <2>4, <2>5, <2>6, PutFrame
  <1>4. ASSUME NEW c \in calls, AnswerCall(c) PROVE PutInv'
    <2>1. /\ Moves(c, c.m, "answered") /\ c.at = "applied"
          /\ UNCHANGED <<out, submitted, accepted, again, missed>>
        BY <1>4 DEF AnswerCall, counts, produced, batch
    <2>2. PICK d \in Call : /\ d.op = c.op /\ d.m = c.m /\ d.at = "answered" /\ d.by = c.by
                            /\ calls' \subseteq (calls \ {c}) \cup {d}
        BY <1>0, <2>1, MovedTo
    <2>3. CASE c.op = "enqueue"
      <3>1. UNCHANGED status /\ sure' = sure \cup {c.m} /\ c.m \in Msg
          BY <1>4, <2>1, <2>3 DEF AnswerCall, ConfirmPut, CallsInv, CallOK
      <3>2. Unanswered(c) /\ c.m \notin sure /\ c.m \notin accepted
          BY <2>1, <2>3 DEF PutInv, Unanswered
      <3>3. \A a \in calls' : Unanswered(a) => a \in calls /\ a # c
          BY <2>2 DEF Unanswered
      <3>4. \A a \in calls' : Unanswered(a) => status'[a.m] # "unborn" /\ a.m \notin sure'
          BY <3>1, <3>2, <3>3 DEF PutInv
      <3>5. ASSUME NEW a \in calls', Told(a) PROVE a.m \in sure' \ accepted'
          BY <2>1, <2>2, <3>1, <3>2, <3>5 DEF PutInv
      <3>6. \A a, b \in calls' : Unanswered(a) /\ Unanswered(b) /\ a.m = b.m => a = b
          BY <3>3 DEF PutInv
      <3>7. accepted' \subseteq sure'
          BY <2>1, <3>1 DEF PutInv
      <3>8. QED
          BY <1>0, <2>1, <3>4, <3>5, <3>6, <3>7 DEF PutInv, Unanswered, Told
    <2>4. CASE c.op # "enqueue"
      <3>1. c.op \in {"ack", "nack"} /\ c.by # producer
          BY <1>0, <2>1, <2>4 DEF Call, CallsInv, CallOK
      <3>2. UNCHANGED <<status, sure>>
          BY <1>4, <3>1 DEF AnswerCall, ConfirmRemove, alo
      <3>3. ~Unanswered(d) /\ ~Told(d)
          BY <2>2, <3>1 DEF Unanswered, Told
      <3>4. QED
          BY <1>0, <1>1, <2>1, <2>2, <3>2, <3>3, PutFrame
    <2>5. QED
        BY <2>3, <2>4
  \* Steps that take calls away, and do not touch the queue but by an expiry or a kill.
  <1>5. ASSUME UNCHANGED sure, calls' = {},
               UNCHANGED <<out, submitted, accepted, again, missed>>
        PROVE  PutInv'
      BY <1>0, <1>5 DEF PutInv
  <1>6. CASE Kill
      BY <1>5, <1>6 DEF Kill, Fall, counts, produced, batch
  <1>7. ASSUME UNCHANGED <<sure, accepted, again>>, calls' \subseteq calls,
               submitted' + out' + missed' = submitted + out + missed,
               \A x \in Msg : status[x] # "unborn" => status'[x] # "unborn"
        PROVE  PutInv'
      BY <1>0, <1>7 DEF PutInv, Unanswered, Told
  <1>8. ASSUME NEW m \in Msg, Expire(m) PROVE PutInv'
    <2>1. UNCHANGED <<calls, sure, out, submitted, accepted, again, missed>>
        BY <1>8 DEF Expire, GiveBack, counts, produced, batch
    <2>2. \A x \in Msg : status[x] # "unborn" => status'[x] # "unborn"
        BY <1>0, <1>8 DEF Expire, GiveBack
    <2>3. QED
        BY <1>1, <1>7, <2>1, <2>2
  <1>9. CASE Restart \/ (\E n \in 0 .. MaxPool : SetWorkers(n)) \/ UNCHANGED vars
    <2>1. UNCHANGED <<alo, calls, out, submitted, accepted, again, missed>>
        BY <1>9, Zenon DEF Restart, SetWorkers, vars, server, counts, produced, batch
    <2>2. QED
        BY <1>1, <1>7, <2>1 DEF alo
  <1>10. ASSUME UNCHANGED <<alo, accepted, again>>, ClientStep,
                submitted' + out' + missed' = submitted + out + missed
         PROVE  PutInv'
    <2>1. UNCHANGED <<sure, accepted, again, status>>
        BY <1>10 DEF alo
    <2>2. ASSUME NEW d, d.at = "sent", calls' \subseteq calls \cup {d} PROVE PutInv'
      <3>1. \A a \in calls' : Unanswered(a) \/ Told(a) => a \in calls
          BY <2>2 DEF Unanswered, Told
      <3>2. QED
          BY <1>0, <1>10, <2>1, <3>1 DEF PutInv, Unanswered, Told
    <2>3. ASSUME NEW c \in calls, NEW d \in Call, d.op = c.op, d.m = c.m, d.at = c.at,
                 d.by = none, calls' \subseteq (calls \ {c}) \cup {d}
          PROVE  PutInv'
      <3>1. ~Told(d)
          BY <2>3, ConsumersAssumption DEF Told
      <3>2. QED
          BY <1>0, <1>10, <2>1, <2>3, <3>1, PutFrame
    <2>4. ASSUME calls' \subseteq calls PROVE PutInv'
        BY <1>7, <1>10, <2>1, <2>4
    <2>5. QED
        BY <1>10, <2>2, <2>3, <2>4, Zenon DEF ClientStep
  <1>11. ASSUME NEW at \in {"answered", "duplicate"}, SubmitAnswered(at) PROVE PutInv'
    <2>1. PICK c \in CallOf(producer) : c.at = at
        BY <1>11 DEF SubmitAnswered
    <2>2. \A a \in CallOf(producer) : a = c
        BY ConsumersAssumption DEF CallOf, CallsInv
    <2>3. {a.m : a \in CallOf(producer)} = {c.m}
        BY <2>2
    <2>4. PICK d \in Call :
             /\ d.op = "enqueue" /\ d.by = producer /\ d.at = "sent"
             /\ \/ calls' = calls \ CallOf(producer)
                \/ left > 1 /\ calls' \subseteq (calls \ CallOf(producer)) \cup {d}
        BY <1>11, Answered
    <2>5. /\ \A a \in calls' : Unanswered(a) => a \in calls
          /\ \A a \in calls' : ~Told(a)
        BY <2>4 DEF Unanswered, Told, CallOf
    <2>6. UNCHANGED <<sure, status, missed>>
        BY <1>11 DEF SubmitAnswered, alo
    <2>7. submitted' + out' = submitted + out + 1
        BY <1>11 DEF SubmitAnswered, TypeOK
    <2>8. /\ accepted' \subseteq sure' /\ IsFiniteSet(accepted')
          /\ submitted' + out' + missed' = Cardinality(accepted') + again'
      <3>1. Cardinality(accepted) \in Nat
          BY FS_CardinalityType DEF PutInv
      <3>2. CASE at = "answered"
        <4>1. Told(c) /\ c.m \in sure \ accepted
            BY <2>1, <3>2 DEF Told, CallOf, PutInv
        <4>2. accepted' = accepted \cup {c.m} /\ again' = again
            BY <1>11, <2>3, <3>2 DEF SubmitAnswered
        <4>3. IsFiniteSet(accepted') /\ Cardinality(accepted') = Cardinality(accepted) + 1
            BY <4>1, <4>2, FS_AddElement DEF PutInv
        <4>4. QED
            BY <2>6, <2>7, <3>1, <4>1, <4>2, <4>3 DEF PutInv, TypeOK
      <3>3. CASE at = "duplicate"
        <4>1. accepted' = accepted /\ again' = again + 1
            BY <1>11, <3>3 DEF SubmitAnswered
        <4>2. QED
            BY <2>6, <2>7, <3>1, <4>1 DEF PutInv, TypeOK
      <3>4. QED
          BY <3>2, <3>3
    <2>9. QED
        BY <1>0, <2>5, <2>6, <2>8 DEF PutInv, Unanswered, Told
  <1>12. CASE Produce \/ \E w \in Worker : Loop(w)
      BY <1>10, <1>11, <1>12, ClientShape, ClientFrame
  <1>13. QED
      BY <1>2, <1>3, <1>4, <1>6, <1>8, <1>9, <1>12, Zenon DEF Next, Serve

-----------------------------------------------------------------------------
(***************************************************************************)
(* The theorems.                                                           *)
(***************************************************************************)
FleetInv == TypeOK /\ PromiseInv /\ CallsInv /\ AckInv /\ PutInv

LEMMA InitFleetInv == Init => FleetInv
  BY InitTypes, InitPromise, InitCalls, InitAck, InitPut DEF Init, FleetInv

LEMMA NextFleetInv == FleetInv /\ [Next]_vars => FleetInv'
  <1> SUFFICES ASSUME FleetInv, [Next]_vars PROVE FleetInv'
      OBVIOUS
  <1>1. PromiseInv'
      BY AloStep, NextPromise DEF FleetInv
  <1>2. QED
      BY <1>1, NextTypes, NextCalls, NextAck, NextPut DEF FleetInv

\* Type correctness of the runner, its workers and the calls under way.
THEOREM FleetTypes == Spec => []TypeOK
  <1>1. FleetInv => TypeOK
      BY DEF FleetInv
  <1>2. QED
      BY InitFleetInv, NextFleetInv, <1>1, PTL DEF Spec

\* A job is recorded as done at most once, and once it is, it is acked for
\* good: no kill, late ack or second holder of the message brings it back.
THEOREM DoneOnce == Spec => []DoneForGood
  <1>1. FleetInv => DoneForGood
      BY DEF FleetInv, AckInv, NotBack, DoneForGood
  <1>2. QED
      BY InitFleetInv, NextFleetInv, <1>1, PTL DEF Spec

\* No job the producer read a 201 for disappears but by an ack, also when its
\* worker stopped or the server was killed; and the runner's count is such jobs,
\* each once, and the duplicates, less those of the batches that failed.
THEOREM JobsKept == Spec => []NoJobLost
  <1>1. FleetInv => NoJobLost
      BY DEF FleetInv, PutInv, Kept, NoJobLost
  <1>2. QED
      BY InitFleetInv, NextFleetInv, <1>1, PTL DEF Spec

\* setWorker's test keeps a worker that was stopped in the middle of its loop
\* from putting itself back on the board.
LEMMA NextBoard == BoardIsPool /\ [Next]_vars => BoardIsPool'
  <1> SUFFICES ASSUME workers = stops, [Next]_vars PROVE workers' = stops'
      BY DEF BoardIsPool
  <1>1. ASSUME NEW n \in 0 .. MaxPool, SetWorkers(n) PROVE workers' = stops'
      BY <1>1 DEF SetWorkers
  <1>2. ASSUME NEW w \in Worker, Loop(w) PROVE workers' = stops'
    <2>1. stops' = stops /\ (workers' = workers \/ setWorker(w))
        BY <1>2, Zenon DEF Loop, LoopTop, GotMessage, DequeueFails, StopAtWork, Abandon,
           Finish, AckAnswered, NackAnswered, FinishFails, Over
    <2>2. QED
        BY <2>1 DEF setWorker
  <1>3. CASE Serve \/ Kill \/ Restart \/ Produce \/ (\E m \in Msg : Expire(m))
             \/ UNCHANGED vars
      BY <1>3, Zenon DEF Serve, ServeEnqueue, ServeDequeue, ServeAck, ServeNack, AnswerCall,
         Kill, Restart, Produce, Submit, SubmitFails, SubmitAnswered, Expire, vars, fleet
  <1>4. QED
      BY <1>1, <1>2, <1>3, Zenon DEF Next

\* The dashboard's board shows exactly the workers of the pool.
THEOREM BoardTrue == Spec => []BoardIsPool
  <1>1. Init => BoardIsPool
      BY DEF Init, BoardIsPool
  <1>2. QED
      BY <1>1, NextBoard, PTL DEF Spec
=============================================================================
