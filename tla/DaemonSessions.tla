--------------------------- MODULE DaemonSessions ---------------------------
(***************************************************************************)
(* The daemon's sessions (cli-core/src/cli.js): which delivery goes to     *)
(* which session, the queue of agent starts, the slots that bound how many *)
(* sessions are active, and the upgrade that waits until no work is left.  *)
(*                                                                         *)
(* The daemon is one thread.  What runs before the next await is one step; *)
(* what a settled promise lets run, and the calls a status change makes    *)
(* (a drain of the waiting deliveries, a look at the pending upgrade), are *)
(* jobs, and no frame, timer or answer of a runtime comes between jobs.    *)
(*                                                                         *)
(* A lane is one conversation of an agent.  Sessions are numbered as they  *)
(* are made: a stop forgets a session, and what still holds it goes on.    *)
(* The ledger is DeliveryRelay's: a delivery here is not a duplicate.      *)
(***************************************************************************)
EXTENDS Naturals, Sequences, FiniteSets, SequencesExt, FiniteSetsExt

CONSTANTS
  Lanes, AgentOf,        \* the conversations and the agent of each
  Deliveries, LaneOf,    \* the deliveries and the lane of each
  AgentSlots,            \* maxActiveAgentSessions
  ComputerSlots,         \* maxActiveComputerSessions
  MaxStarts,             \* maxConcurrentAgentStarts
  MaxUpgrades,           \* bound: 1, or 0 for a daemon nobody upgrades
  MaxTrouble             \* bound: starts, stops and restarts the server asks for,
                         \* preparations that fail, runtimes that exit

VARIABLES
  call,      \* where each delivery is, its session, the prompts behind it
  lane,      \* sessions: the number of the session of a lane, or 0
  session,   \* every session made
  waiting,   \* pendingSessionDeliveries
  drain,     \* drainingSessionDeliveries, what it awaits and its index
  starts,    \* agentStartPromises: the start of each agent and who awaits it
  startQueue,\* agentStartQueue
  active,    \* activeAgentStartCount
  lastStart, \* lastAgentStartAgentId
  paced,     \* agentStartPumpTimer is set
  upgrade,   \* none, asked, pending, starting, worker
  jobs,      \* what runs before the daemon takes anything new
  trouble    \* counter of the bound

sessions == <<lane, session>>
starting == <<starts, startQueue, active, lastStart, paced>>
waits == <<waiting, drain>>
daemonVars == <<call, sessions, waits, starting, upgrade, jobs, trouble>>

Agents == {AgentOf[l] : l \in Lanes}
Nobody == "nobody"
Phases == {"new", "accepting", "waiting", "given", "starting", "preparing",
           "prompts", "listed", "images", "asked", "running",
           "done", "failed", "dropped", "lost"}
\* What the daemon has accepted and neither finished nor given up.
Open == {"waiting", "given", "starting", "preparing", "prompts", "listed",
         "images", "asked", "running"}

AgentOfCall(d) == AgentOf[LaneOf[d]]
NewSession(l) == [lane |-> l, children |-> 0, started |-> FALSE, status |-> "offline",
                  ready |-> FALSE, opening |-> 0, prompts |-> <<>>,
                  asked |-> {}, turn |-> FALSE]
NoStart == [state |-> "none", session |-> 0, waiters |-> <<>>]
NoDrain == [on |-> FALSE, item |-> Nobody, at |-> 1]
Job(kind, arg) == [kind |-> kind, arg |-> arg]

UpgradeOnly ==                 \* mutant: a change of status drains nothing
  <<Job("upgrade", Nobody)>>

\* onStatusChange: first the drain, then the upgrade.
StatusChange == <<Job("drain", Nobody), Job("upgrade", Nobody)>>

-----------------------------------------------------------------------------
(* Slots.                                                                  *)

\* sessionIsActive: a turn, a prompt or a request that waits, or the status.
SessionIsActive(i) ==
  \/ session[i].turn \/ session[i].prompts # <<>>
  \/ session[i].asked # {} \/ session[i].opening > 0
  \/ session[i].status \in {"starting", "thinking", "working"}

ActiveLanes == {l \in Lanes : lane[l] # 0 /\ SessionIsActive(lane[l])}

CanUseSessionSlot(l) ==
  \/ l \in ActiveLanes
  \/ /\ Cardinality({k \in ActiveLanes : AgentOf[k] = AgentOf[l]}) < AgentSlots
     /\ Cardinality(ActiveLanes) < ComputerSlots

\* daemonIsIdleForUpgrade
DaemonIsIdle ==
  /\ active = 0 /\ startQueue = <<>> /\ \A a \in Agents : starts[a].state = "none"
  /\ waiting = <<>> /\ ~drain.on
  /\ ActiveLanes = {}

-----------------------------------------------------------------------------
DaemonInit ==
  /\ call = [d \in Deliveries |-> [phase |-> "new", session |-> 0, rest |-> <<>>]]
  /\ lane = [l \in Lanes |-> 0] /\ session = <<>>
  /\ waiting = <<>> /\ drain = NoDrain
  /\ starts = [a \in Agents |-> NoStart] /\ startQueue = <<>>
  /\ active = 0 /\ lastStart = Nobody /\ paced = FALSE
  /\ upgrade = "none" /\ jobs = <<>>
  /\ trouble = 0

Moved(d, phase) == call' = [call EXCEPT ![d].phase = phase]

\* sessionFor: the lane's session, made when it has none.
Made(l) ==
  IF lane[l] # 0 THEN UNCHANGED sessions
  ELSE /\ session' = Append(session, NewSession(l))
       /\ lane' = [lane EXCEPT ![l] = Len(session) + 1]
SessionFor(l) == IF lane[l] # 0 THEN lane[l] ELSE Len(session) + 1

\* enqueueAgentStart: one start per agent; a second one awaits the first.
EnqueueAgentStart(a, i, waiters, rest) ==
  IF starts[a].state # "none"
  THEN /\ starts' = [starts EXCEPT ![a].waiters = @ \o waiters]
       /\ jobs' = rest /\ UNCHANGED startQueue
  ELSE /\ starts' = [starts EXCEPT ![a] =
                       [state |-> "queued", session |-> i, waiters |-> waiters]]
       /\ startQueue' = Append(startQueue, a)
       /\ jobs' = <<Job("pump", Nobody)>> \o rest

-----------------------------------------------------------------------------
(* Frames of the server.                                                   *)

Deliver(d) ==
  /\ jobs = <<>> /\ call[d].phase = "new"
  /\ Moved(d, "accepting")
  /\ UNCHANGED <<sessions, waits, starting, upgrade, jobs, trouble>>

\* handleAgentDeliver, after the ledger has the delivery.
Accepted(d) ==
  /\ jobs = <<>> /\ call[d].phase = "accepting"
  /\ IF CanUseSessionSlot(LaneOf[d])
     THEN /\ Moved(d, "given") /\ jobs' = <<Job("give", d)>>
          /\ UNCHANGED waiting
     ELSE /\ Moved(d, "waiting") /\ waiting' = Append(waiting, d)
          /\ UNCHANGED jobs
  /\ UNCHANGED <<sessions, drain, starting, upgrade, trouble>>

\* handleAgentStart
HandleAgentStart(l) ==
  /\ jobs = <<>> /\ trouble < MaxTrouble
  /\ trouble' = trouble + 1
  /\ Made(l)
  /\ EnqueueAgentStart(AgentOf[l], SessionFor(l), <<>>, <<>>)
  /\ UNCHANGED <<call, waits, active, lastStart, paced, upgrade>>

\* handleAgentStop: the runtimes are told to end, the sessions forgotten.
Stopped(a) ==
  [i \in DOMAIN session |->
     IF lane[session[i].lane] = i /\ AgentOf[session[i].lane] = a
     THEN [session[i] EXCEPT !.status = "stopping"] ELSE session[i]]
LanesForgotten(a) == [l \in Lanes |-> IF AgentOf[l] = a THEN 0 ELSE lane[l]]

HandleAgentStop(a) ==
  /\ jobs = <<>> /\ trouble < MaxTrouble
  /\ trouble' = trouble + 1
  /\ session' = Stopped(a) /\ lane' = LanesForgotten(a)
  /\ UNCHANGED <<call, waits, starting, upgrade, jobs>>

\* handleAgentRestart: a stop, and a new session that is started.
HandleAgentRestart(l) ==
  /\ jobs = <<>> /\ trouble < MaxTrouble
  /\ trouble' = trouble + 1
  /\ session' = Append(Stopped(AgentOf[l]), NewSession(l))
  /\ lane' = [LanesForgotten(AgentOf[l]) EXCEPT ![l] = Len(session) + 1]
  /\ EnqueueAgentStart(AgentOf[l], Len(session) + 1, <<>>, <<>>)
  /\ UNCHANGED <<call, waits, active, lastStart, paced, upgrade>>

\* handleDaemonUpgrade: the handoff is written, then the daemon looks.
HandleDaemonUpgrade ==
  /\ jobs = <<>> /\ upgrade = "none" /\ MaxUpgrades > 0
  /\ upgrade' = "asked"
  /\ UNCHANGED <<call, sessions, waits, starting, jobs, trouble>>

HandoffWritten ==
  /\ jobs = <<>> /\ upgrade = "asked"
  /\ upgrade' = IF DaemonIsIdle THEN "starting" ELSE "pending"
  /\ UNCHANGED <<call, sessions, waits, starting, jobs, trouble>>

\* scheduleUpgradeIdleCheck: a look every second while the request is pending;
\* one that finds work changes nothing.
UpgradeIdleTimer ==
  /\ jobs = <<>> /\ upgrade = "pending" /\ DaemonIsIdle
  /\ upgrade' = "starting"
  /\ UNCHANGED <<call, sessions, waits, starting, jobs, trouble>>

\* startUpgradeWorker, after it has read the service and written the handoff;
\* without an active background service the request is refused.
StartUpgradeWorker ==
  /\ jobs = <<>> /\ upgrade = "starting"
  /\ upgrade' \in {"worker", "refused"}
  /\ UNCHANGED <<call, sessions, waits, starting, jobs, trouble>>

-----------------------------------------------------------------------------
(* Jobs.                                                                   *)

Doing(kind) == jobs # <<>> /\ Head(jobs).kind = kind
Arg == Head(jobs).arg

\* The delivery's session, its start when it has not been started.
Give ==
  /\ Doing("give")
  /\ LET d == Arg
         i == SessionFor(LaneOf[d])
         up == lane[LaneOf[d]] # 0 /\ session[i].started
     IN /\ Made(LaneOf[d])
        /\ call' = [call EXCEPT ![d] = [phase |-> IF up THEN "given" ELSE "starting",
                                        session |-> i, rest |-> <<>>]]
        /\ IF up
           THEN jobs' = <<Job("deliver", d)>> \o Tail(jobs) /\ UNCHANGED <<starts, startQueue>>
           ELSE EnqueueAgentStart(AgentOfCall(d), i, <<d>>, Tail(jobs))
  /\ UNCHANGED <<waits, active, lastStart, paced, upgrade, trouble>>

\* The call session.deliver of d has returned: the drain goes on when it was
\* its call, and a prompt of a list is followed by the next.
Returned(d) ==
  (IF drain.item = d THEN <<Job("drained", d)>> ELSE <<>>)
    \o (IF call[d].rest # <<>> THEN <<Job("turns", d)>> ELSE <<>>)

\* CodexAgentSession.deliver: a session that has exited is started here,
\* past the queue; without a thread the prompt waits.
DeliverTo ==
  /\ Doing("deliver")
  /\ LET d == Arg
         i == call[d].session
     IN \/ /\ ~session[i].started
           /\ Moved(d, "preparing") /\ jobs' = Tail(jobs) /\ UNCHANGED session
        \/ /\ session[i].started /\ ~session[i].ready
           /\ Moved(d, "prompts")
           /\ session' = [session EXCEPT ![i].prompts = Append(@, d)]
           /\ jobs' = Tail(jobs) \o Returned(d)
        \/ /\ session[i].started /\ session[i].ready
           /\ Moved(d, "images") /\ jobs' = Tail(jobs) /\ UNCHANGED session
  /\ UNCHANGED <<lane, waits, starting, upgrade, trouble>>

MayPump == ~paced /\ startQueue # <<>> /\ active < MaxStarts

\* pumpAgentStartQueue: at once, or after the interval between two agents.
Pump ==
  /\ Doing("pump")
  /\ IF ~MayPump
     THEN jobs' = Tail(jobs) /\ UNCHANGED starting
     ELSE LET a == Head(startQueue) IN
       \/ /\ lastStart \notin {Nobody, a} /\ Arg # "due"
          /\ paced' = TRUE /\ jobs' = Tail(jobs)
          /\ UNCHANGED <<starts, startQueue, active, lastStart>>
       \/ /\ startQueue' = Tail(startQueue) /\ active' = active + 1 /\ lastStart' = a
          /\ starts' = [starts EXCEPT ![a].state = "running"]
          /\ jobs' = IF session[starts[a].session].started
                     THEN Append(Tail(jobs), Job("settled", a)) ELSE Tail(jobs)
          /\ UNCHANGED paced
  /\ UNCHANGED <<call, sessions, waits, upgrade, trouble>>

PaceTimer ==
  /\ jobs = <<>> /\ paced
  /\ paced' = FALSE /\ jobs' = <<Job("pump", "due")>>
  /\ UNCHANGED <<call, sessions, waits, starts, startQueue, active, lastStart, upgrade, trouble>>

\* The promise of a start is settled: those who await it go on, then the count
\* goes down.
StartSettled ==
  /\ Doing("settled")
  /\ LET a == Arg
         next == [n \in DOMAIN starts[a].waiters |-> Job("deliver", starts[a].waiters[n])]
     IN /\ starts' = [starts EXCEPT ![a] = NoStart]
        /\ jobs' = Tail(jobs) \o next \o <<Job("finally", a)>>
  /\ UNCHANGED <<call, sessions, waits, startQueue, active, lastStart, paced, upgrade, trouble>>

KeepsCount ==                  \* mutant: the count does not go down
  /\ Doing("finally")
  /\ jobs' = <<Job("pump", Nobody), Job("upgrade", Nobody)>> \o Tail(jobs)
  /\ UNCHANGED <<call, sessions, waits, starting, upgrade, trouble>>

NoPump ==                      \* mutant: the finished start does not pump
  /\ Doing("finally")
  /\ active' = active - 1
  /\ jobs' = <<Job("upgrade", Nobody)>> \o Tail(jobs)
  /\ UNCHANGED <<call, sessions, waits, starts, startQueue, lastStart, paced, upgrade, trouble>>

Finally ==
  /\ Doing("finally")
  /\ active' = active - 1
  /\ jobs' = <<Job("pump", Nobody), Job("upgrade", Nobody)>> \o Tail(jobs)
  /\ UNCHANGED <<call, sessions, waits, starts, startQueue, lastStart, paced, upgrade, trouble>>

\* drainPendingSessionDeliveries: the first waiting delivery from the index on
\* that has a slot, else the first of all, else the drain ends.
Usable == {k \in DOMAIN waiting : CanUseSessionSlot(LaneOf[waiting[k]])}

DrainFrom(at) ==
  IF Usable = {}
  THEN /\ drain' = NoDrain /\ jobs' = Tail(jobs)
       /\ UNCHANGED <<call, waiting>>
  ELSE LET later == {k \in Usable : k >= at}
           k == Min(IF later # {} THEN later ELSE Usable)
       IN /\ waiting' = RemoveAt(waiting, k)
          /\ drain' = [on |-> TRUE, item |-> waiting[k], at |-> k]
          /\ Moved(waiting[k], "given")
          /\ jobs' = <<Job("give", waiting[k])>> \o Tail(jobs)

DrainPendingSessionDeliveries ==
  /\ Doing("drain")
  /\ IF drain.on THEN jobs' = Tail(jobs) /\ UNCHANGED <<call, waits>>
     ELSE DrainFrom(1)
  /\ UNCHANGED <<sessions, starting, upgrade, trouble>>

DrainGoesOn ==
  /\ Doing("drained")
  /\ DrainFrom(drain.at)
  /\ UNCHANGED <<sessions, starting, upgrade, trouble>>

MaybeStartPendingUpgrade ==
  /\ Doing("upgrade")
  /\ upgrade' = IF upgrade = "pending" /\ DaemonIsIdle THEN "starting" ELSE upgrade
  /\ jobs' = Tail(jobs)
  /\ UNCHANGED <<call, sessions, waits, starting, trouble>>

-----------------------------------------------------------------------------
(* Starting a session.                                                     *)

Spawned(i) ==
  [session EXCEPT ![i].children = @ + 1, ![i].started = TRUE,
                  ![i].status = "starting", ![i].ready = FALSE, ![i].opening = @ + 1]

\* The queue's start: the workspace is prepared, the runtime spawned.
StartDone(a) ==
  /\ jobs = <<>> /\ starts[a].state = "running"
  /\ session' = Spawned(starts[a].session)
  /\ jobs' = Append(StatusChange, Job("settled", a))
  /\ UNCHANGED <<call, lane, waits, starting, upgrade, trouble>>

\* The deliveries that await the start fail; the one of a drain is lost, and the
\* drain ends with it.
StartFails(a) ==
  /\ jobs = <<>> /\ starts[a].state = "running" /\ trouble < MaxTrouble
  /\ trouble' = trouble + 1
  /\ LET out == Range(starts[a].waiters) IN
       /\ call' = [d \in Deliveries |->
                     IF d \in out
                     THEN [call[d] EXCEPT !.phase = IF drain.item = d THEN "lost" ELSE "failed"]
                     ELSE call[d]]
       /\ drain' = IF drain.item \in out THEN NoDrain ELSE drain
  /\ starts' = [starts EXCEPT ![a] = NoStart]
  /\ jobs' = <<Job("finally", a)>>
  /\ UNCHANGED <<sessions, waiting, startQueue, active, lastStart, paced, upgrade>>

\* A start inside session.deliver: the same, and the prompt waits.
PrepareDone(d) ==
  /\ jobs = <<>> /\ call[d].phase = "preparing"
  /\ session' = Spawned(call[d].session)
  /\ Moved(d, "given")
  /\ jobs' = Append(StatusChange, Job("deliver", d))
  /\ UNCHANGED <<lane, waits, starting, upgrade, trouble>>

PrepareFails(d) ==
  /\ jobs = <<>> /\ call[d].phase = "preparing" /\ trouble < MaxTrouble
  /\ trouble' = trouble + 1
  /\ Moved(d, IF drain.item = d THEN "lost" ELSE "failed")
  /\ drain' = IF drain.item = d THEN NoDrain ELSE drain
  /\ UNCHANGED <<sessions, waiting, starting, upgrade, jobs>>

-----------------------------------------------------------------------------
(* The runtime of a session, as far as slots see it (CodexTurns has more). *)

Answers(i) == jobs = <<>> /\ session[i].children > 0

\* thread/start is answered: idle, then the prompts become turns, one by one.
ThreadReady(i) ==
  /\ Answers(i) /\ session[i].opening > 0
  /\ session' = [session EXCEPT ![i].ready = TRUE, ![i].opening = @ - 1,
                                ![i].status = "idle"]
  /\ jobs' = Append(StatusChange, Job("splice", i))
  /\ UNCHANGED <<call, lane, waits, starting, upgrade, trouble>>

\* drainPendingPrompts
Splice ==
  /\ Doing("splice")
  /\ LET list == session[Arg].prompts IN
       /\ session' = [session EXCEPT ![Arg].prompts = <<>>]
       /\ call' = IF list = <<>> THEN call
                  ELSE [d \in Deliveries |->
                          IF d = list[1] THEN [call[d] EXCEPT !.phase = "images", !.rest = Tail(list)]
                          ELSE IF d \in Range(list) THEN [call[d] EXCEPT !.phase = "listed"]
                          ELSE call[d]]
  /\ jobs' = Tail(jobs)
  /\ UNCHANGED <<lane, waits, starting, upgrade, trouble>>

Turns ==
  /\ Doing("turns")
  /\ LET rest == call[Arg].rest IN
       call' = [call EXCEPT ![Arg].rest = <<>>,
                            ![rest[1]] = [@ EXCEPT !.phase = "images", !.rest = Tail(rest)]]
  /\ jobs' = Tail(jobs)
  /\ UNCHANGED <<sessions, waits, starting, upgrade, trouble>>

\* startTurn, after the images are read: a request to the runtime, or nothing
\* at all when it has exited.
StartTurn(d) ==
  /\ jobs = <<>> /\ call[d].phase = "images"
  /\ LET i == call[d].session IN
       IF session[i].children > 0
       THEN /\ session' = [session EXCEPT ![i].asked = @ \cup {d}, ![i].status = "thinking"]
            /\ Moved(d, "asked") /\ jobs' = StatusChange \o Returned(d)
       ELSE /\ Moved(d, "dropped") /\ jobs' = Returned(d) /\ UNCHANGED session
  /\ UNCHANGED <<lane, waits, starting, upgrade, trouble>>

\* The answer of turn/start or turn/steer, and turn/started.
TurnTaken(i, d) ==
  /\ Answers(i) /\ d \in session[i].asked
  /\ session' = [session EXCEPT ![i].asked = @ \ {d}, ![i].turn = TRUE,
                                ![i].status = "working"]
  /\ Moved(d, "running") /\ jobs' = StatusChange
  /\ UNCHANGED <<lane, waits, starting, upgrade, trouble>>

\* turn/completed or turn/failed
TurnEnds(i) ==
  /\ Answers(i) /\ session[i].turn
  /\ \E status \in {"idle", "error"} :
       session' = [session EXCEPT ![i].turn = FALSE, ![i].status = status]
  /\ call' = [d \in Deliveries |->
                IF call[d].session = i /\ call[d].phase = "running"
                THEN [call[d] EXCEPT !.phase = "done"] ELSE call[d]]
  /\ jobs' = StatusChange
  /\ UNCHANGED <<lane, waits, starting, upgrade, trouble>>

\* The close event: the turn, the requests and the prompts stay as they are.
Exit(i) ==
  /\ jobs = <<>> /\ session[i].children > 0
  /\ IF session[i].status = "stopping" THEN UNCHANGED trouble
     ELSE trouble < MaxTrouble /\ trouble' = trouble + 1
  /\ session' = [session EXCEPT ![i].children = @ - 1, ![i].started = FALSE,
       ![i].status = IF @ = "stopping" THEN "offline" ELSE "error"]
  /\ jobs' = StatusChange
  /\ UNCHANGED <<call, lane, waits, starting, upgrade>>

-----------------------------------------------------------------------------
Frame ==
  \/ \E d \in Deliveries : Deliver(d)
  \/ \E l \in Lanes : HandleAgentStart(l)
  \/ \E a \in Agents : HandleAgentStop(a)
  \/ \E l \in Lanes : HandleAgentRestart(l)
  \/ HandleDaemonUpgrade

RunJob ==
  \/ Give \/ DeliverTo \/ Pump \/ StartSettled \/ Finally
  \/ DrainPendingSessionDeliveries \/ DrainGoesOn
  \/ MaybeStartPendingUpgrade \/ Splice \/ Turns

Daemon ==
  \/ \E d \in Deliveries : Accepted(d) \/ PrepareDone(d) \/ StartTurn(d)
  \/ \E a \in Agents : StartDone(a)
  \/ PaceTimer \/ HandoffWritten \/ UpgradeIdleTimer \/ StartUpgradeWorker

Runtime ==
  \E i \in DOMAIN session :
    ThreadReady(i) \/ TurnEnds(i) \/ \E d \in Deliveries : TurnTaken(i, d)

Fault ==
  \/ \E a \in Agents : StartFails(a)
  \/ \E d \in Deliveries : PrepareFails(d)
  \/ \E i \in DOMAIN session : Exit(i)

DaemonNext == Frame \/ RunJob \/ Daemon \/ Runtime \/ Fault

DaemonSpec == DaemonInit /\ [][DaemonNext]_daemonVars

\* The event loop runs jobs, timers and callbacks, and a runtime answers.
FairDaemonSpec ==
  /\ DaemonSpec /\ WF_daemonVars(RunJob) /\ WF_daemonVars(PaceTimer)
  /\ WF_daemonVars(UpgradeIdleTimer) /\ WF_daemonVars(StartUpgradeWorker)
  /\ \A d \in Deliveries :
       WF_daemonVars(Accepted(d)) /\ WF_daemonVars(PrepareDone(d)) /\ WF_daemonVars(StartTurn(d))
  /\ \A a \in Agents : WF_daemonVars(StartDone(a))
  /\ \A i \in 1 .. Cardinality(Lanes) + MaxTrouble :
       /\ WF_daemonVars(i \in DOMAIN session /\ ThreadReady(i))
       /\ WF_daemonVars(i \in DOMAIN session /\ TurnEnds(i))
       /\ \A d \in Deliveries : WF_daemonVars(i \in DOMAIN session /\ TurnTaken(i, d))

-----------------------------------------------------------------------------
SessionType ==
  [lane : Lanes, children : Nat, started : BOOLEAN,
   status : {"offline", "starting", "idle", "thinking", "working", "error", "stopping"},
   ready : BOOLEAN, opening : Nat, prompts : Seq(Deliveries),
   asked : SUBSET Deliveries, turn : BOOLEAN]

DaemonTypeOK ==
  /\ call \in [Deliveries -> [phase : Phases, session : 0 .. Len(session), rest : Seq(Deliveries)]]
  /\ session \in Seq(SessionType)
  /\ lane \in [Lanes -> 0 .. Len(session)]
  /\ waiting \in Seq(Deliveries)
  /\ drain \in [on : BOOLEAN, item : Deliveries \cup {Nobody}, at : Nat]
  /\ starts \in [Agents -> [state : {"none", "queued", "running"},
                            session : 0 .. Len(session), waiters : Seq(Deliveries)]]
  /\ startQueue \in Seq(Agents) /\ active \in 0 .. MaxStarts
  /\ lastStart \in Agents \cup {Nobody} /\ paced \in BOOLEAN
  /\ upgrade \in {"none", "asked", "pending", "starting", "worker", "refused"}
  /\ trouble \in 0 .. MaxTrouble

\* No wakeup of a waiting delivery is lost: when the daemon has nothing to do
\* at once and one has a slot, a drain is under way, or a change of status is to
\* come: of a session that reads the images of its next turn and holds no slot
\* for that moment, or of a runtime that was told to stop.  Two exceptions of
\* the code: a runtime that had exited before the stop frees its slot unnoticed,
\* and a drain that loses its delivery ends with others waiting.
NoLostSlot ==
  jobs = <<>> /\ Usable # {}
    => \/ drain.on
       \/ \E d \in Deliveries : call[d].phase \in {"images", "lost"}
       \/ \E i \in DOMAIN session : session[i].status = "stopping"

\* No wakeup of the start queue is lost.
StartsGoOn == jobs = <<>> /\ startQueue # <<>> => paced \/ active > 0

\* Neither kind of wakeup is lost.
NoLostWakeup == NoLostSlot /\ StartsGoOn

\* Without a fault or a stop every delivery is worked off, however the slots,
\* the starts and the drains fall; a pending upgrade does not wait for ever.
WorkGoesOn ==
  \A d \in Deliveries : call[d].phase \in Open ~> call[d].phase = "done" \/ trouble > 0
UpgradeGoesOn == upgrade = "pending" ~> upgrade \in {"worker", "refused"} \/ trouble > 0

\* The message of the handoff: an upgrade waits for all work of agents.
UpgradeWaits ==
  [][upgrade' = "worker" => upgrade = "worker" \/ \A d \in Deliveries : call[d].phase \notin Open]_daemonVars
=============================================================================
