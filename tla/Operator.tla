------------------------------ MODULE Operator ------------------------------
(***************************************************************************)
(* The operator's side of a server: the supervisor that runs it as a child *)
(* process (demo/supervisor.go), the dashboard's crash and corruption lab  *)
(* (demo/dashboard.go) and the verify and repair commands (main.go).       *)
(*                                                                         *)
(* One request of the lab is handled at a time, which the code leaves to   *)
(* its one user: Supervisor.mu covers single fields and no request.  The   *)
(* workers' enqueues go on meanwhile, and the child may die by itself; the *)
(* goroutine that waits for it learns of its death later.                  *)
(***************************************************************************)
EXTENDS Manager

CONSTANT MaxDamage   \* bound: requests that damage a log

ASSUME OperatorAssumption == MaxDamage \in Nat

VARIABLES
    running,        \* Supervisor.running
    lab,            \* the request being handled
    backup,         \* of each queue: the records in the copies repair has saved
    dropped,        \* of each queue: the records repair has cut off
    damage          \* requests that have damaged a log

opvars == <<vars, running, lab, backup, dropped, damage>>

\* do: what was asked; q: the queue it names; at: where its handler is; clean:
\* no log was damaged or torn before; left: queues EnsureQueues has yet to create.
Idle == [do |-> "none", q |-> 0, at |-> "idle", clean |-> FALSE, left |-> {}]

OpTypeOK ==
    /\ TypeOK /\ running \in BOOLEAN
    /\ lab \in [do : {"none", "kill", "start", "midlog", "tail", "repair"},
                q : Name \cup {0}, clean : BOOLEAN, left : SUBSET Name,
                at : {"idle", "kill", "reap", "act", "copy", "cut", "sync",
                      "start", "wait", "ensure", "create"}]
    /\ \A q \in Name : backup[q] \cup dropped[q] \subseteq {Meta} \cup 1 .. MaxRecs
    /\ damage \in 0 .. MaxDamage

\* The demo has started its server and created its queues.
OpInit ==
    /\ file = [q \in Name |-> Encode(Meta)]
    /\ synced = [q \in Name |-> Len(Encode(Meta))]
    /\ dirent = [q \in Name |-> "stable"]
    /\ proc = "up" /\ todo = {} /\ queues = Name
    /\ creating = NoCreate /\ answer = "created" /\ waiting = {}
    /\ last = [q \in Name |-> 0]
    /\ created = Name /\ confirmed = [q \in Name |-> {}]
    /\ botched = {}
    /\ running = TRUE /\ lab = Idle
    /\ backup = [q \in Name |-> {}] /\ dropped = [q \in Name |-> {}]
    /\ damage = 0

Goto(at) == lab' = [lab EXCEPT !.at = at]
Done == lab' = Idle

\* The records of the queue whose ends a log has, damaged or not.
Held(f) ==
    {f[i].rec : i \in {j \in 1 .. Len(f) : f[j].part = HeaderSize + PayloadLen(f[j].rec)}}
        \ {Fragment}

-----------------------------------------------------------------------------
\* The requests.  corrupt and repair kill a server that runs.

Ask(do, q) ==
    /\ lab = Idle
    /\ do \in {"midlog", "tail"} => damage < MaxDamage
    /\ lab' = [Idle EXCEPT !.do = do, !.q = q,
                 !.at = CASE do = "kill" -> "kill"
                          [] do = "start" -> "start"
                          [] OTHER -> IF running THEN "kill" ELSE "act"]
    /\ UNCHANGED <<vars, running, backup, dropped, damage>>

\* Supervisor.Kill: SIGKILL, if there is still a process.
LabKills ==
    /\ lab.at = "kill" /\ Goto("reap")
    /\ Killed \/ (~Alive /\ UNCHANGED vars)
    /\ UNCHANGED <<running, backup, dropped, damage>>

\* Faulty: Kill itself says that the child is gone.
ReapNoWait ==
    /\ running /\ running' = FALSE
    /\ UNCHANGED <<vars, lab, backup, dropped, damage>>

\* The goroutine of Start that waits for the child.
Reap ==
    /\ running /\ ~Alive
    /\ running' = FALSE
    /\ UNCHANGED <<vars, lab, backup, dropped, damage>>

\* Kill polls until the child is gone, for 2 s at most.
LabKilled ==
    /\ lab.at = "reap"
    /\ IF lab.do \in {"kill", "start"} THEN Done ELSE Goto("act")
    /\ UNCHANGED <<vars, running, backup, dropped, damage>>

-----------------------------------------------------------------------------
\* The damage.  All of it is refused while the supervisor has the child running.

AllClean == \A q \in Name : ~Replay(file[q]).corrupt /\ ~Replay(file[q]).torn

LabRefused ==
    /\ lab.at = "act" /\ running /\ Done
    /\ UNCHANGED <<vars, running, backup, dropped, damage>>

Damage(f) ==
    /\ file' = [file EXCEPT ![lab.q] = f]
    /\ synced' = [synced EXCEPT ![lab.q] = Len(f)]
    /\ lab' = [lab EXCEPT !.at = "start", !.clean = AllClean]
    /\ damage' = damage + 1
    /\ UNCHANGED <<dirent, server, told, running, backup, dropped>>

\* FlipByteMidLog: the byte in the middle of a log of 64 bytes or more, which a
\* second flip restores.  With payloads of any size the middle is anywhere past
\* the header of META, which alone makes a log long enough.
FlipByteMidLog ==
    LET f == file[lab.q]
    IN /\ lab.at = "act" /\ lab.do = "midlog" /\ ~running
       /\ IF Len(f) >= HeaderSize + PayloadLen(Meta)
          THEN \E mid \in HeaderSize + 1 .. Len(f) : Damage([f EXCEPT ![mid].bad = ~@])
          ELSE Done /\ UNCHANGED <<vars, running, backup, dropped, damage>>

\* TruncateTailMidRecord: the beginning of a record at the end of the log.
TruncateTailMidRecord ==
    LET f == file[lab.q]
    IN /\ lab.at = "act" /\ lab.do = "tail" /\ ~running
       /\ IF dirent[lab.q] # "none"
          THEN Damage(f \o SubSeq(Encode(Fragment), 1, HeaderSize + 1))
          ELSE Done /\ UNCHANGED <<vars, running, backup, dropped, damage>>

-----------------------------------------------------------------------------
\* Verify and repair.

\* verify replays every log, in the order of their names.
Failing == {q \in Name : Replay(file[q]).corrupt}

\* parseOffset: the first offset in verify's report.
parseOffset == Replay(file[Min(Failing)]).valid

\* Supervisor.Repair: nothing is done when verify is content, or when the
\* offset is not one of the log that is to be cut.
CanRepair == Failing # {} /\ dirent[lab.q] # "none" /\ parseOffset <= Len(file[lab.q])

LabRepairs ==
    /\ lab.at = "act" /\ lab.do = "repair" /\ ~running /\ CanRepair
    /\ Goto("copy")
    /\ UNCHANGED <<vars, running, backup, dropped, damage>>

\* runRepair: copyFile, with its fsync.
RepairCopies ==
    /\ lab.at = "copy" /\ Goto("cut")
    /\ backup' = [backup EXCEPT ![lab.q] = @ \cup Held(file[lab.q])]
    /\ UNCHANGED <<vars, running, dropped, damage>>

\* The log is truncated, at the offset verify gave, which is still its offset.
RepairCuts ==
    LET f == file[lab.q]
    IN /\ lab.at = "cut" /\ Goto("sync")
       /\ file' = [file EXCEPT ![lab.q] = SubSeq(f, 1, parseOffset)]
       /\ synced' = [synced EXCEPT ![lab.q] = Min({@, parseOffset})]
       /\ dropped' = [dropped EXCEPT ![lab.q] =
                        @ \cup Held(SubSeq(f, parseOffset + 1, Len(f)))]
       /\ UNCHANGED <<dirent, server, told, running, backup, damage>>

RepairSyncs ==
    /\ lab.at = "sync" /\ Goto("start")
    /\ synced' = [synced EXCEPT ![lab.q] = Len(file[lab.q])]
    /\ UNCHANGED <<file, dirent, server, told, running, backup, dropped, damage>>

\* Faulty: the log is truncated although the copy failed.
RepairFailsOn ==
    /\ lab.at \in {"copy", "cut", "sync"}
    /\ IF lab.at = "copy" THEN Goto("cut") ELSE Done
    /\ UNCHANGED <<vars, running, backup, dropped, damage>>

\* The disk refuses a step, or the command is killed; a copy cut short is none.
RepairFails ==
    /\ lab.at \in {"copy", "cut", "sync"} /\ Done
    /\ UNCHANGED <<vars, running, backup, dropped, damage>>

LabHasNothingToRepair ==
    /\ lab.at = "act" /\ lab.do = "repair" /\ ~running /\ ~CanRepair
    /\ Done
    /\ UNCHANGED <<vars, running, backup, dropped, damage>>

-----------------------------------------------------------------------------
\* Supervisor.Start and EnsureQueues.

Started == lab' = [lab EXCEPT !.at = "ensure", !.left = Name]

\* A child that is taken to run is not started again.
LabStarts ==
    /\ lab.at = "start"
    /\ IF running THEN Started /\ UNCHANGED <<vars, running>>
       ELSE StartServer /\ running' = TRUE /\ Goto("wait")
    /\ UNCHANGED <<backup, dropped, damage>>

\* The child answers /healthz and is alive.
LabStarted ==
    /\ lab.at = "wait" /\ proc = "up" /\ Started
    /\ UNCHANGED <<vars, running, backup, dropped, damage>>

LabStartFails ==
    /\ lab.at = "wait" /\ ~running /\ Done
    /\ UNCHANGED <<vars, running, backup, dropped, damage>>

\* 10 s are over: Start kills what it has started.
LabStartTimesOut ==
    /\ lab.at = "wait" /\ proc = "booting" /\ Killed
    /\ lab' = [lab EXCEPT !.at = "reap", !.do = "start"]
    /\ UNCHANGED <<running, backup, dropped, damage>>

\* EnsureQueues: one create after the other; a name that is taken will do.
LabCreates ==
    /\ lab.at = "ensure" /\ lab.left # {} /\ Goto("create")
    /\ \/ CreateRefused(Min(lab.left)) \/ CreateBegins(Min(lab.left))
       \/ proc # "up" /\ UNCHANGED vars
    /\ UNCHANGED <<running, backup, dropped, damage>>

LabCreated ==
    /\ lab.at = "create" /\ creating = NoCreate
    /\ IF answer \in {"created", "exists"}
       THEN lab' = [lab EXCEPT !.at = "ensure", !.left = @ \ {Min(@)}]
       ELSE Done
    /\ UNCHANGED <<vars, running, backup, dropped, damage>>

LabEnsured ==
    /\ lab.at = "ensure" /\ lab.left = {} /\ Done
    /\ UNCHANGED <<vars, running, backup, dropped, damage>>

LabStep ==
    \/ LabKills \/ LabKilled \/ LabRefused \/ FlipByteMidLog
    \/ TruncateTailMidRecord \/ LabRepairs \/ LabHasNothingToRepair
    \/ RepairCopies \/ RepairCuts \/ RepairSyncs \/ RepairFails
    \/ LabStarts \/ LabStarted \/ LabStartFails \/ LabStartTimesOut
    \/ LabCreates \/ LabCreated \/ LabEnsured

OpNext ==
    \/ \E do \in {"kill", "start"} : Ask(do, 0)
    \/ \E do \in {"midlog", "tail", "repair"}, q \in Name : Ask(do, q)
    \/ LabStep \/ Reap
    \/ /\ \/ Boot \/ CreateStep \/ Kill \/ \E q \in Name : Enqueue(q) \/ Confirm(q)
       /\ UNCHANGED <<running, lab, backup, dropped, damage>>

OpSpec == OpInit /\ [][OpNext]_opvars

-----------------------------------------------------------------------------
\* A server that starts serves every queue and every confirmed message, but for
\* what an operator's repair has cut off: no damage, torn tail or kill, in any
\* order, makes startup drop one by itself.
Served(q) == IF q \in queues THEN Records(file[q]) ELSE {}

RefuseOrServe ==
    proc = "up" =>
        \A q \in created : confirmed[q] \cup {Meta} \subseteq Served(q) \cup dropped[q]

\* Every queue and every confirmed message is at all times in its log, damaged or
\* not, or in a copy of it: neither a kill, nor a repair that fails or is killed
\* between its steps or is run again, destroys the last one.
NothingDestroyed ==
    \A q \in created : confirmed[q] \cup {Meta} \subseteq Held(file[q]) \cup backup[q]

\* The lab and repair never change a log under a live server, although running
\* lags behind the child and Kill gives up waiting.
LogsChangedOffline ==
    [][FlipByteMidLog \/ TruncateTailMidRecord \/ RepairCuts
         => file' = file \/ ~Alive]_opvars

\* The lab's explanation, for a directory that was sound before: a flipped byte
\* keeps the server down, a torn tail does not.
LabAsExplained ==
    lab.at = "wait" /\ lab.clean =>
        /\ lab.do = "midlog" => proc # "up"
        /\ lab.do = "tail" => proc # "refused"

\* Repair cuts the queue it is given at that queue's own damage.
RepairCutsAtDamage ==
    [][RepairCuts => file'[lab.q] = SubSeq(file[lab.q], 1, Replay(file[lab.q]).valid)]_opvars
=============================================================================
