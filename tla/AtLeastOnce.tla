---------------------------- MODULE AtLeastOnce ----------------------------
(***************************************************************************)
(* What a queue promises to the producers and consumers of its messages,   *)
(* with no log, heap or clock.  A message goes back and forth between      *)
(* waiting and leased, uses up its attempts or is acked.  A change takes   *)
(* effect before it is confirmed; a crash may undo what was not confirmed  *)
(* and nothing else.  Module MCQueue shows that Queue implements this,     *)
(* module Consumers runs a fleet of workers on top of it.                  *)
(***************************************************************************)
EXTENDS Integers, FiniteSets

CONSTANTS
    Msg,            \* message ids, each used for one enqueue
    MaxAttempts     \* Config.MaxAttempts

ASSUME AttemptsAssumption == MaxAttempts \in Nat \ {0}

VARIABLES
    status,         \* where each message is
    tries,          \* its attempts, 0 when it is not in the queue
    sure,           \* messages whose enqueue was answered
    gone            \* messages whose ack was answered

alo == <<status, tries, sure, gone>>

Status == {"unborn", "waiting", "leased", "dead", "acked", "lost"}
Live == {"waiting", "leased", "dead"}

ALOTypeOK ==
    /\ status \in [Msg -> Status]
    /\ tries \in [Msg -> Nat]
    /\ sure \subseteq Msg /\ gone \subseteq Msg

ALOInit ==
    /\ status = [m \in Msg |-> "unborn"]
    /\ tries = [m \in Msg |-> 0]
    /\ sure = {} /\ gone = {}

\* An enqueue takes effect, delayed or not.
Put(m) ==
    /\ status[m] = "unborn"
    /\ status' = [status EXCEPT ![m] = "waiting"]
    /\ UNCHANGED <<tries, sure, gone>>

\* An enqueue is answered.
ConfirmPut(m) ==
    /\ status[m] \in Live \cup {"acked"}
    /\ sure' = sure \cup {m}
    /\ UNCHANGED <<status, tries, gone>>

\* A dequeue hands out the messages S.
Hand(S) ==
    /\ S # {} /\ \A m \in S : status[m] = "waiting"
    /\ status' = [m \in Msg |-> IF m \in S THEN "leased" ELSE status[m]]
    /\ UNCHANGED <<tries, sure, gone>>

\* An ack takes effect.  It names no lease, so anybody's will do.
Remove(m) ==
    /\ status[m] \in {"leased", "dead"}
    /\ status' = [status EXCEPT ![m] = "acked"]
    /\ tries' = [tries EXCEPT ![m] = 0]
    /\ UNCHANGED <<sure, gone>>

\* An ack is answered.
ConfirmRemove(m) ==
    /\ status[m] = "acked"
    /\ gone' = gone \cup {m}
    /\ UNCHANGED <<status, tries, sure>>

\* A nack or the end of a lease: an attempt is used up.
GiveBack(m) ==
    /\ status[m] = "leased"
    /\ tries' = [tries EXCEPT ![m] = @ + 1]
    /\ status' = [status EXCEPT ![m] =
                    IF tries[m] + 1 >= MaxAttempts THEN "dead" ELSE "waiting"]
    /\ UNCHANGED <<sure, gone>>

\* What a message may be after a crash.
Outcomes(m) ==
    CASE status[m] \in {"unborn", "lost"} -> {status[m]}
      [] m \in gone -> {"acked"}
      [] status[m] = "acked" /\ m \notin gone -> {"acked", "waiting", "dead"}
      [] OTHER -> {"waiting", "dead"} \cup (IF m \in sure THEN {} ELSE {"lost"})

\* Its attempts may be short of what they were, never more.
TriesLeft(m) == IF status[m] = "acked" THEN 0 .. MaxAttempts ELSE 0 .. tries[m]

Fall ==
    /\ status' \in [Msg -> Status] /\ tries' \in [Msg -> 0 .. MaxAttempts]
    /\ \A m \in Msg :
         /\ status'[m] \in Outcomes(m)
         /\ IF status'[m] \in Live
            THEN /\ tries'[m] \in TriesLeft(m)
                 /\ status'[m] = "dead" <=> tries'[m] >= MaxAttempts
            ELSE tries'[m] = 0
    /\ UNCHANGED <<sure, gone>>

ALONext ==
    \/ \E m \in Msg : \/ Put(m) \/ ConfirmPut(m) \/ Remove(m)
                      \/ ConfirmRemove(m) \/ GiveBack(m)
    \/ \E S \in SUBSET Msg : Hand(S)
    \/ Fall

ALOSpec == ALOInit /\ [][ALONext]_alo

\* What a queue with this behaviour never does: lose a message whose enqueue
\* was answered, or bring back one whose ack was.
Kept == \A m \in sure : status[m] \notin {"unborn", "lost"}
NotBack == \A m \in gone : status[m] = "acked"
=============================================================================
