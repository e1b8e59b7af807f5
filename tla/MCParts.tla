------------------------------ MODULE MCParts ------------------------------
(***************************************************************************)
(* Small instances of the parts that share no state, for liveness: every   *)
(* behaviour runs one of them, and the others stay as they start.  Two of  *)
(* them are extended: Init, Next, Spec and vars are those of CodexTurns,   *)
(* and ReminderScheduler's have its name.  The variables of the others     *)
(* have their names.                                                       *)
(***************************************************************************)
EXTENDS CodexTurns, ReminderScheduler

VARIABLES
  part,
  (* RealtimeJournal *)
  events, batch, draining, stream, thread, last, view, seen, fetch,
  opened, blind, vouched, warned, forgone, breaks, resyncs,
  (* DaemonSessions *)
  call, lane, sessionsMade, waiting, drain, starts, startQueue, active, lastStart, paced,
  upgrade, jobs, trouble,
  (* MarkdownOplog *)
  log, manifest, file, queue, applying, sweep, answered, submissions, sweeps, edits, faults,
  (* StateSaves *)
  changes, memory, saves, operation, tasks, controlTail, authTail, workspaceTails,
  persisting, waiters, stored, reader, lostChanges, failures,
  (* NotifyOwner *)
  confirmations, grant, intents, overdue, posted, refused, request, delivery, deciding,
  prompting, expiring, host, approved, undone, dropped, hitches

\* Two events and a resync.
Journal == INSTANCE RealtimeJournal WITH
  Keep <- 1, PageSize <- 1, MaxEvents <- 2, MaxBreaks <- 0, MaxResyncs <- 1

\* Two deliveries for one slot, and an upgrade; no trouble.
LaneAgents == [a1 |-> "a", a2 |-> "a"]
DeliveryLanes == [d1 |-> "a1", d2 |-> "a2"]
Sessions == INSTANCE DaemonSessions WITH
  Lanes <- DOMAIN LaneAgents, AgentOf <- LaneAgents,
  Deliveries <- DOMAIN DeliveryLanes, LaneOf <- DeliveryLanes,
  AgentSlots <- 1, ComputerSlots <- 1, MaxStarts <- 1, MaxUpgrades <- 1, MaxTrouble <- 0,
  session <- sessionsMade

\* Two operations, two failed writes or crashes.
Oplog == INSTANCE MarkdownOplog WITH
  Bullets <- {"b1", "b2"}, NoBullet <- "none", MaxItems <- 2, MaxSubmissions <- 2,
  MaxSweeps <- 0, MaxEdits <- 0, MaxFaults <- 2

\* A save and an operation on accounts, one connection, one failed write; no rows are
\* read, as nothing that is answered waits for that.
Saves == INSTANCE StateSaves WITH
  Workspaces <- {"w1", "w2"}, All <- "all", Operations <- {"o"}, Readers <- {}, Slots <- 1,
  MaxSaves <- 1, MaxFailures <- 1,
  lost <- lostChanges

\* One request, and two cards, deadlines, revocations or restarts.
Notify == INSTANCE NotifyOwner WITH
  Requests <- {"r"}, MaxHitches <- 2

journal == <<events, batch, draining, stream, thread, last, view, seen, fetch,
             opened, blind, vouched, warned, forgone, breaks, resyncs>>
sessions == <<call, lane, sessionsMade, waiting, drain, starts, startQueue, active,
              lastStart, paced, upgrade, jobs, trouble>>
oplog == <<log, manifest, file, queue, applying, sweep, answered, submissions, sweeps,
           edits, faults>>
persistence == <<changes, memory, saves, operation, tasks, controlTail, authTail,
                 workspaceTails, persisting, waiters, stored, reader, lostChanges, failures>>
notify == <<confirmations, grant, intents, overdue, posted, refused, request, delivery,
            deciding, prompting, expiring, host, approved, undone, dropped, hitches>>
parts == <<part, journal, sessions, vars, schedulerVars, oplog, persistence, notify>>

PartsInit ==
  /\ part \in {"journal", "sessions", "turns", "scheduler", "oplog", "saves", "notify"}
  /\ Journal!Init /\ Sessions!DaemonInit /\ Init /\ SchedulerInit /\ Oplog!Init /\ Saves!Init
  /\ Notify!NotifyInit
  \* where the parts at rest may start differently, they start one way
  /\ part # "journal" => events = <<>> /\ ~thread
  /\ part # "turns" => ~threadId
  /\ part # "scheduler" => \A r \in DOMAIN fireAt : fireAt[r] = 1

PartsNext ==
  /\ UNCHANGED part
  /\ \/ /\ part = "journal" /\ Journal!Next
        /\ UNCHANGED <<sessions, vars, schedulerVars, oplog, persistence, notify>>
     \/ /\ part = "sessions" /\ Sessions!DaemonNext
        /\ UNCHANGED <<journal, vars, schedulerVars, oplog, persistence, notify>>
     \/ /\ part = "turns" /\ Next
        /\ UNCHANGED <<journal, sessions, schedulerVars, oplog, persistence, notify>>
     \/ /\ part = "scheduler" /\ SchedulerNext
        /\ UNCHANGED <<journal, sessions, vars, oplog, persistence, notify>>
     \/ /\ part = "oplog" /\ Oplog!Next
        /\ UNCHANGED <<journal, sessions, vars, schedulerVars, persistence, notify>>
     \/ /\ part = "saves" /\ Saves!Next
        /\ UNCHANGED <<journal, sessions, vars, schedulerVars, oplog, notify>>
     \/ /\ part = "notify" /\ Notify!NotifyNext
        /\ UNCHANGED <<journal, sessions, vars, schedulerVars, oplog, persistence>>

PartsSpec == PartsInit /\ [][PartsNext]_parts

-----------------------------------------------------------------------------
(* The fairness of each part, as its module states it.                     *)

FairJournal ==
  /\ WF_journal(part = "journal" /\ Journal!FlushRealtimeBroadcasts)
  /\ WF_journal(part = "journal" /\ Journal!FlushPendingSsePackets)
  /\ WF_journal(part = "journal" /\ Journal!HandlePacket)
  /\ WF_journal(part = "journal" /\ Journal!Restart)

FairSessions ==
  /\ WF_sessions(part = "sessions" /\ Sessions!RunJob)
  /\ WF_sessions(part = "sessions" /\ Sessions!PaceTimer)
  /\ WF_sessions(part = "sessions" /\ Sessions!UpgradeIdleTimer)
  /\ WF_sessions(part = "sessions" /\ Sessions!StartUpgradeWorker)
  /\ \A d \in DOMAIN DeliveryLanes :
       /\ WF_sessions(part = "sessions" /\ Sessions!Accepted(d))
       /\ WF_sessions(part = "sessions" /\ Sessions!PrepareDone(d))
       /\ WF_sessions(part = "sessions" /\ Sessions!StartTurn(d))
  /\ \A a \in {"a"} : WF_sessions(part = "sessions" /\ Sessions!StartDone(a))
  /\ \A i \in 1 .. Cardinality(DOMAIN LaneAgents) :
       /\ WF_sessions(part = "sessions" /\ i \in DOMAIN sessionsMade /\ Sessions!ThreadReady(i))
       /\ WF_sessions(part = "sessions" /\ i \in DOMAIN sessionsMade /\ Sessions!TurnEnds(i))
       /\ \A d \in DOMAIN DeliveryLanes :
            WF_sessions(part = "sessions" /\ i \in DOMAIN sessionsMade /\ Sessions!TurnTaken(i, d))

FairTurns ==
  /\ WF_vars(part = "turns" /\ (OpenThread \/ TakePrompt))
  /\ WF_vars(part = "turns" /\ FinishTurn)
  /\ WF_vars(part = "turns" /\ \E d \in Deliveries : Start(d))
  /\ WF_vars(part = "turns" /\ \E d \in Deliveries : StartTurn(d))
  /\ WF_vars(part = "turns" /\ Handle)

FairScheduler ==
  /\ WF_schedulerVars(part = "scheduler" /\ Tick)
  /\ \A r \in Reminders :
       /\ WF_schedulerVars(part = "scheduler" /\ TimerFires(r))
       /\ WF_schedulerVars(part = "scheduler" /\ Delivered(r))
       /\ WF_schedulerVars(part = "scheduler" /\ SavedOne(r))

FairOplog == WF_oplog(part = "oplog" /\ Oplog!Apply)

FairSaves ==
  /\ WF_persistence(part = "saves" /\ Saves!Chain)
  /\ WF_persistence(part = "saves" /\ Saves!Accounts)
  /\ WF_persistence(part = "saves" /\ \E t \in DOMAIN tasks : Saves!StartTask(t) \/ Saves!Commit(t))

FairNotify ==
  /\ WF_notify(part = "notify" /\ Notify!Recover)
  /\ \A r \in {"r"} : WF_notify(part = "notify" /\ Notify!Delivering(r))
  /\ \A c \in Notify!Numbers : WF_notify(part = "notify" /\ Notify!Completing(c))

FairPartsSpec ==
  /\ PartsSpec
  /\ FairJournal /\ FairSessions /\ FairTurns /\ FairScheduler /\ FairOplog /\ FairSaves
  /\ FairNotify

-----------------------------------------------------------------------------
(* The properties, each stated and explained in the module of its part;    *)
(* those of CodexTurns and ReminderScheduler keep their names.             *)

PartsTyped ==
  /\ Journal!TypeOK /\ Sessions!DaemonTypeOK /\ TypeOK /\ SchedulerTypeOK /\ Oplog!TypeOK
  /\ Saves!TypeOK /\ Notify!NotifyTypeOK

EverythingIsSent == Journal!EverythingIsSent
WorkGoesOn == Sessions!WorkGoesOn
UpgradeGoesOn == Sessions!UpgradeGoesOn
QueueDrains == Oplog!QueueDrains
SavesSettle == Saves!SavesSettle
ApprovedIsPosted == Notify!ApprovedIsPosted
=============================================================================
