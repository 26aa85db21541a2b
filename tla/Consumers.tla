----------------------------- MODULE Consumers -----------------------------
(***************************************************************************)
(* The demo's fleet of workers (internal/demo/runner.go) and its producer, *)
(* over HTTP (client.go, api/server.go), on a queue that keeps the promise *)
(* of module AtLeastOnce.                                                  *)
(*                                                                         *)
(* A call to the server is a record in `calls`.  It takes effect, is       *)
(* answered, and the answer is read, in separate steps; the client may     *)
(* give up on it at any of them, and a handler whose client has given up   *)
(* goes on: its call is an orphan, with no client.  The server dies with   *)
(* all its calls.  A lease may end at any time after the dequeue, while    *)
(* its worker is at work or has an ack or a nack under way.                *)
(*                                                                         *)
(* The message a worker or a call has is `none` when there is none; what   *)
(* the board says of a worker is left out, `workers` is whom it shows, and *)
(* so are the counts of failed and abandoned jobs.  Every enqueue carries  *)
(* the same dedup id; one without is like one whose window is over.        *)
(***************************************************************************)
EXTENDS AtLeastOnce

CONSTANTS
    none,          \* no message, no client
    producer,      \* the client that submits jobs
    MaxWorkers,    \* bound: workers ever started
    MaxPool,       \* largest pool asked for; the code has 32
    MaxKills,      \* bound: kills of the server
    MaxTimeouts,   \* bound: calls a client gives up on
    MaxBatch,      \* largest batch submitted; the code has 500
    MaxSubmitted   \* bound: jobs submitted

ASSUME ConsumersAssumption ==
    /\ MaxWorkers \in Nat /\ MaxPool \in Nat
    /\ MaxKills \in Nat /\ MaxTimeouts \in Nat
    /\ MaxBatch \in Nat /\ MaxSubmitted \in Nat
    /\ none \notin Msg /\ none \notin 1 .. MaxWorkers
    /\ producer # none /\ producer \notin 1 .. MaxWorkers

Worker == 1 .. MaxWorkers

VARIABLES
    up,             \* the server is serving
    calls,          \* requests the server has or has answered
    pc, job,        \* of each worker: where its loop is, the message it holds
    nextWorkerID, stops, workers,   \* Runner.nextWorkerID, .stops, .workers
    left, out,      \* of the Submit under way: its jobs left, its len(out)
    submitted, done,                \* Runner.submitted, and .done by message
    accepted, again, missed,        \* history: jobs the producer read a 201 for,
                                    \* 200s it read, jobs of batches that failed
    kills, timeouts

server == <<alo, up, calls>>
fleet == <<pc, job, nextWorkerID, stops, workers>>
batch == <<left, out>>
produced == <<submitted, accepted, again, missed>>
counts == <<produced, done>>
bounds == <<kills, timeouts>>
vars == <<server, fleet, batch, counts, bounds>>

Call == [op : {"enqueue", "dequeue", "ack", "nack"}, m : Msg \cup {none},
         by : Worker \cup {producer, none},
         at : {"sent", "applied", "answered", "duplicate"}]

TypeOK ==
    /\ ALOTypeOK
    /\ up \in BOOLEAN /\ calls \subseteq Call
    /\ pc \in [Worker -> {"unborn", "top", "asking", "work", "acking",
                          "nacking", "exited"}]
    /\ job \in [Worker -> Msg \cup {none}]
    /\ nextWorkerID \in Nat /\ stops \subseteq Worker
    /\ workers \subseteq Worker
    /\ left \in Nat /\ out \in Nat
    /\ submitted \in Nat /\ again \in Nat /\ missed \in Nat
    /\ accepted \subseteq Msg
    /\ done \in [Msg -> Nat]
    /\ kills \in 0 .. MaxKills /\ timeouts \in 0 .. MaxTimeouts

Init ==
    /\ ALOInit
    /\ up = TRUE /\ calls = {}
    /\ pc = [w \in Worker |-> "unborn"] /\ job = [w \in Worker |-> none]
    /\ nextWorkerID = 1 /\ stops = {} /\ workers = {}
    /\ left = 0 /\ out = 0
    /\ submitted = 0 /\ accepted = {} /\ again = 0 /\ missed = 0
    /\ done = [m \in Msg |-> 0]
    /\ kills = 0 /\ timeouts = 0

-----------------------------------------------------------------------------
\* The server.

Sent(op) == {c \in calls : c.op = op /\ c.at = "sent"}

\* A call moves on; the handler of an orphan answers nobody.
Moves(c, m, at) ==
    calls' = (calls \ {c}) \cup
             (IF c.by = none /\ at \in {"answered", "duplicate"} THEN {}
              ELSE {[c EXCEPT !.m = m, !.at = at]})

\* An error status: the client is left without an answer to count.
Refused(c) == calls' = calls \ {c} /\ UNCHANGED alo

\* Faulty: a duplicate is answered like a new message.
ServeEnqueueAlike(c) ==
    /\ up /\ c \in Sent("enqueue")
    /\ \E m \in Msg : \/ Put(m) /\ Moves(c, m, "applied")
                      \/ /\ status[m] \notin {"unborn", "lost"}
                         /\ Moves(c, m, "answered") /\ UNCHANGED alo
    /\ UNCHANGED <<up, fleet, batch, counts, bounds>>

\* Server.enqueue.  In the window of an earlier message, live or acked, it adds
\* nothing and answers at once, with a 200 and not a 201, although that message may
\* have no durable record yet.
ServeEnqueue(c) ==
    /\ up /\ c \in Sent("enqueue")
    /\ \E m \in Msg : \/ Put(m) /\ Moves(c, m, "applied")
                      \/ /\ status[m] \notin {"unborn", "lost"}
                         /\ Moves(c, m, "duplicate") /\ UNCHANGED alo
    /\ UNCHANGED <<up, fleet, batch, counts, bounds>>

\* Server.dequeue for one message.  It writes no record, so it is answered.
ServeDequeue(c) ==
    /\ up /\ c \in Sent("dequeue")
    /\ \/ \E m \in Msg : Hand({m}) /\ Moves(c, m, "answered")
       \/ /\ \A m \in Msg : status[m] # "waiting"
          /\ Moves(c, none, "answered")
          /\ UNCHANGED alo
    /\ UNCHANGED <<up, fleet, batch, counts, bounds>>

\* Server.ack: 404 for a message that is gone, 409 for one that waits.
ServeAck(c) ==
    /\ up /\ c \in Sent("ack")
    /\ \/ Remove(c.m) /\ Moves(c, c.m, "applied")
       \/ /\ status[c.m] \notin {"leased", "dead"}
          /\ Refused(c)
    /\ UNCHANGED <<up, fleet, batch, counts, bounds>>

ServeNack(c) ==
    /\ up /\ c \in Sent("nack")
    /\ \/ GiveBack(c.m) /\ Moves(c, c.m, "applied")
       \/ /\ status[c.m] # "leased"
          /\ Refused(c)
    /\ UNCHANGED <<up, fleet, batch, counts, bounds>>

\* Faulty: the handler answers an ack before the log has its record.
AnswerEarly(c) ==
    /\ up /\ c \in calls /\ c.at = "applied"
    /\ IF c.op = "enqueue" THEN ConfirmPut(c.m) ELSE UNCHANGED alo
    /\ Moves(c, c.m, "answered")
    /\ UNCHANGED <<up, fleet, batch, counts, bounds>>

\* The record is durable and the handler answers.
AnswerCall(c) ==
    /\ up /\ c \in calls /\ c.at = "applied"
    /\ CASE c.op = "enqueue" -> ConfirmPut(c.m)
         [] c.op = "ack" -> ConfirmRemove(c.m)
         [] c.op = "nack" -> UNCHANGED alo
    /\ Moves(c, c.m, "answered")
    /\ UNCHANGED <<up, fleet, batch, counts, bounds>>

\* The background timer ends a lease.
Expire(m) ==
    /\ up /\ GiveBack(m)
    /\ UNCHANGED <<up, calls, fleet, batch, counts, bounds>>

\* The process is killed, and with it every handler.
Kill ==
    /\ up /\ kills < MaxKills
    /\ kills' = kills + 1
    /\ up' = FALSE /\ calls' = {}
    /\ Fall
    /\ UNCHANGED <<fleet, batch, counts, timeouts>>

Restart ==
    /\ ~up
    /\ up' = TRUE
    /\ UNCHANGED <<alo, calls, fleet, batch, counts, bounds>>

Serve == \E c \in calls : \/ ServeEnqueue(c) \/ ServeDequeue(c) \/ ServeAck(c)
                          \/ ServeNack(c) \/ AnswerCall(c)

-----------------------------------------------------------------------------
\* Client.do.

CallOf(w) == {c \in calls : c.by = w}

\* A request that is sent; without a server it fails at once.
Request(w, op, m) ==
    IF up THEN {[op |-> op, m |-> m, by |-> w, at |-> "sent"]} ELSE {}

Sends(w, op, m) == calls' = calls \cup Request(w, op, m)

\* The answer w reads, of the given kind.
Reads(w, at) ==
    /\ \E c \in CallOf(w) : c.at = at
    /\ calls' = calls \ CallOf(w)
    /\ UNCHANGED <<alo, up, bounds>>

Abandoned(c) ==
    IF c.at \in {"sent", "applied"} THEN {[c EXCEPT !.by = none]} ELSE {}

\* The call fails: an error status, a dead server, or the client's timeout,
\* which leaves the handler running.
CallFails(w) ==
    \/ /\ CallOf(w) = {} /\ UNCHANGED <<alo, up, calls, bounds>>
    \/ \E c \in CallOf(w) :
         /\ timeouts < MaxTimeouts /\ timeouts' = timeouts + 1
         /\ calls' = (calls \ {c}) \cup Abandoned(c)
         /\ UNCHANGED <<alo, up, kills>>

-----------------------------------------------------------------------------
\* Runner.

\* Faulty: a worker that was stopped puts itself back on the board.
setWorkerUnchecked(w) == workers' = workers \cup {w}

setWorker(w) == workers' = IF w \in stops THEN workers \cup {w} ELSE workers

Goes(w, to) == pc' = [pc EXCEPT ![w] = to]

\* SetWorkers: new workers get new ids, the highest ids are stopped.
SetWorkers(n) ==
    LET k == Cardinality(stops)
        new == nextWorkerID .. nextWorkerID + (n - k) - 1
        kept == {w \in stops : Cardinality({x \in stops : x <= w}) <= n}
    IN /\ n # k /\ new \subseteq Worker
       /\ nextWorkerID' = nextWorkerID + Cardinality(new)
       /\ stops' = kept \cup new
       /\ workers' = (workers \ (stops \ kept)) \cup new
       /\ pc' = [w \in Worker |-> IF w \in new THEN "top" ELSE pc[w]]
       /\ UNCHANGED <<server, job, batch, counts, bounds>>

\* Faulty: the loop does not look at stop.
LoopTopDeaf(w) ==
    /\ pc[w] = "top"
    /\ Sends(w, "dequeue", none) /\ Goes(w, "asking")
    /\ UNCHANGED <<alo, up, job, nextWorkerID, stops, workers, batch, counts, bounds>>

\* The head of workerLoop, and the sleepOrStop before it when the last dequeue
\* was empty or failed: leave if stopped, else ask for a message.
LoopTop(w) ==
    /\ pc[w] = "top"
    /\ \/ w \notin stops /\ Goes(w, "exited") /\ UNCHANGED calls
       \/ w \in stops /\ Sends(w, "dequeue", none) /\ Goes(w, "asking")
    /\ UNCHANGED <<alo, up, job, nextWorkerID, stops, workers, batch, counts, bounds>>

GotMessage(w) ==
    /\ pc[w] = "asking" /\ Reads(w, "answered")
    /\ \E c \in CallOf(w) :
         /\ job' = [job EXCEPT ![w] = c.m]
         /\ Goes(w, IF c.m = none THEN "top" ELSE "work")
         /\ setWorker(w)
    /\ UNCHANGED <<nextWorkerID, stops, batch, counts>>

\* Faulty: a worker gives up when the server does not answer.
DequeueFailsForGood(w) ==
    /\ pc[w] = "asking" /\ CallFails(w)
    /\ setWorker(w) /\ Goes(w, "exited")
    /\ UNCHANGED <<job, nextWorkerID, stops, batch, counts>>

DequeueFails(w) ==
    /\ pc[w] = "asking" /\ CallFails(w)
    /\ setWorker(w) /\ Goes(w, "top")
    /\ UNCHANGED <<job, nextWorkerID, stops, batch, counts>>

\* sleepOrStop while working: a stopped worker leaves its message to its lease.
StopAtWork(w) ==
    /\ pc[w] = "work" /\ w \notin stops
    /\ Goes(w, "exited") /\ job' = [job EXCEPT ![w] = none]
    /\ UNCHANGED <<server, nextWorkerID, stops, workers, batch, counts, bounds>>

\* The roll: walk away, nack or ack.
Abandon(w) ==
    /\ pc[w] = "work"
    /\ Goes(w, "top") /\ job' = [job EXCEPT ![w] = none]
    /\ setWorker(w)
    /\ UNCHANGED <<server, nextWorkerID, stops, batch, counts, bounds>>

Finish(w) ==
    /\ pc[w] = "work"
    /\ \/ Sends(w, "nack", job[w]) /\ Goes(w, "nacking")
       \/ Sends(w, "ack", job[w]) /\ Goes(w, "acking")
    /\ UNCHANGED <<alo, up, job, nextWorkerID, stops, workers, batch, counts, bounds>>

\* The answer to the ack or nack, counted only when it is a success.
Over(w) ==
    /\ setWorker(w) /\ Goes(w, "top") /\ job' = [job EXCEPT ![w] = none]
    /\ UNCHANGED <<nextWorkerID, stops, batch, produced>>

AckAnswered(w) ==
    /\ pc[w] = "acking" /\ Reads(w, "answered") /\ Over(w)
    /\ done' = [done EXCEPT ![job[w]] = @ + 1]

NackAnswered(w) ==
    /\ pc[w] = "nacking" /\ Reads(w, "answered") /\ Over(w)
    /\ UNCHANGED done

FinishFails(w) ==
    /\ pc[w] \in {"acking", "nacking"} /\ CallFails(w) /\ Over(w)
    /\ UNCHANGED done

Loop(w) == \/ LoopTop(w) \/ GotMessage(w) \/ DequeueFails(w)
           \/ StopAtWork(w) \/ Abandon(w) \/ Finish(w)
           \/ AckAnswered(w) \/ NackAnswered(w) \/ FinishFails(w)

-----------------------------------------------------------------------------
\* Submit of n jobs, with one dedup id for all.
Submit(n) ==
    /\ left = 0 /\ submitted + missed + n <= MaxSubmitted
    /\ left' = n /\ Sends(producer, "enqueue", none)
    /\ UNCHANGED <<alo, up, fleet, out, counts, bounds>>

\* One more in out, new or duplicate.  The next is sent, or all are counted.
SubmitAnswered(at) ==
    /\ left > 0 /\ \E c \in CallOf(producer) : c.at = at
    /\ left' = left - 1
    /\ IF left = 1
       THEN /\ submitted' = submitted + out + 1 /\ out' = 0
            /\ calls' = calls \ CallOf(producer)
       ELSE /\ out' = out + 1 /\ UNCHANGED submitted
            /\ calls' = (calls \ CallOf(producer)) \cup Request(producer, "enqueue", none)
    /\ IF at = "answered"
       THEN accepted' = accepted \cup {c.m : c \in CallOf(producer)} /\ UNCHANGED again
       ELSE again' = again + 1 /\ UNCHANGED accepted
    /\ UNCHANGED <<alo, up, fleet, missed, done, bounds>>

\* The first enqueue that fails ends the batch, and the jobs before it are in the
\* queue but not in the count.
SubmitFails ==
    /\ left > 0 /\ CallFails(producer)
    /\ left' = 0 /\ out' = 0 /\ missed' = missed + out
    /\ UNCHANGED <<fleet, submitted, accepted, again, done>>

Produce ==
    \/ \E n \in 1 .. MaxBatch : Submit(n)
    \/ SubmitFails
    \/ SubmitAnswered("answered") \/ SubmitAnswered("duplicate")

Next ==
    \/ Serve \/ Kill \/ Restart \/ Produce
    \/ \E m \in Msg : Expire(m)
    \/ \E n \in 0 .. MaxPool : SetWorkers(n)
    \/ \E w \in Worker : Loop(w)

\* A server that is killed is started again, its timer goes on, and so does every
\* worker, in its loop or in the handler of its call.  Nobody has to submit, to
\* resize the pool, to kill or to time out, and an orphan may hang.
Fairness ==
    /\ WF_vars(Restart)
    /\ \A m \in Msg : WF_vars(Expire(m))
    /\ \A w \in Worker :
          WF_vars(\/ Loop(w)
                  \/ \E c \in CallOf(w) : \/ ServeDequeue(c) \/ ServeAck(c)
                                          \/ ServeNack(c) \/ AnswerCall(c))

Spec == Init /\ [][Next]_vars /\ Fairness

-----------------------------------------------------------------------------
\* A job is recorded as done at most once and is never delivered after that,
\* whoever else holds it, times out on it or acks it late, and whatever a kill
\* takes back.
DoneForGood ==
    \A m \in Msg : done[m] <= 1 /\ (done[m] = 1 => status[m] = "acked")

\* A job the producer was told is new, with a 201, is in the queue or was acked,
\* although a kill takes back what was not durable, a retry under the same dedup id
\* is answered before that, and a worker may walk away with it; and what the runner
\* counts as submitted is such jobs, each once, and the duplicates, less the jobs
\* of batches that failed half way.
NoJobLost ==
    /\ Kept /\ \A m \in accepted : status[m] \notin {"unborn", "lost"}
    /\ submitted + out + missed = Cardinality(accepted) + again

\* The board shows exactly the workers of the pool, although a worker that was
\* stopped is still in the middle of its loop.
BoardIsPool == workers = stops

\* With a worker in the pool every confirmed job ends, acked or dead-lettered,
\* even if every worker always walks away.
EveryJobEnds ==
    \A m \in Msg : m \in sure ~> (status[m] \in {"acked", "dead"} \/ stops = {})

\* The workers taken out of the pool leave their loops, whatever they were in the
\* middle of, which is what Stop waits for.
StoppedWorkersExit ==
    []<>(\A w \in Worker : w \notin stops => pc[w] \in {"unborn", "exited"})
=============================================================================
