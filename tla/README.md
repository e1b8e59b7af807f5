# Verification of MagClaw

TLA+ models of [MagClaw](../src/README.md), the runs of TLC that check them on
small instances, and proofs that TLAPS checks for every instance. MagClaw is a
chat server that hands messages to coding agents on other people's computers.
What can go wrong in it is mostly between processes: a daemon that loses its
connection with an answer in hand, a server that is replaced during a delivery,
a note that is written while somebody else rewrites the file. That is what the
models are about.

- [The system](#the-system)
- [Inventory](#inventory)
- [Modules](#modules)
- [Runs](#runs)
- [Fairness](#fairness)
- [Proofs](#proofs)
- [What the code does otherwise than it says](#what-the-code-does-otherwise-than-it-says)
- [Limits](#limits)
- [Plan](#plan)
- [Working with the project](#working-with-the-project)

## The system

    Browser  <-- HTTP, SSE -->  Web service  <-- WebSocket -->  Daemon  <-- stdio -->  Runtime
                                  |     |                         |                 (Codex, Claude)
                             PostgreSQL attachments       ledger, workspace

The **web service** (`server/`) is one Node process: a state object in memory,
changed by request handlers, saved by a chain of promises, and shown to
browsers as a stream of events. Its **relay** (`server/cloud/daemon-relay.js`)
holds one WebSocket per connected computer. A message that is routed to an
agent becomes a *delivery*: `queued` while the computer is away, `sent` once
written to its socket, `acked` when the daemon says it has it, `completed` or
`failed` when the agent's turn has ended.

The **daemon** (`cli-core/src/cli.js`) runs on the computer. It dials the
relay for ever, enters each delivery in a *ledger* on disk, acknowledges it,
gives it to the agent's *session* -- a child process that speaks JSON-RPC over
stdio -- and reports what comes out. Everything it sends goes to the socket of
the moment or nowhere (`send`, cli.js:4611).

**Agents' documents** (MEMORY.md and notes) are kept by the web service as
files, each with an append-only log of operations from which it can be rebuilt
(`server/markdown-*.js`). Operations come from tools of agents, from the
daemon's copy of MEMORY.md, and from a maintenance sweep that asks a language
model for a shorter text.

Server and daemon are single-threaded; two pieces of code interleave only where
one of them awaits. In the models a step is what is done between two awaits,
and the interesting steps are those where something that was read before an
await is used after it.

## Inventory

For each part: its state, its operations, whom it talks to, what is hard about
it, and what makes it correct. The parts without a module are in the plan or,
with the reason, under [Limits](#limits).

**Delivery relay of the server** -- `daemon-relay.js`,
`warm-control-relay.js`. State: `cloud().agentDeliveries`, `connections`
(computer to socket), `pendingDisconnects` (grace timers), and the snapshot
last saved. Operations: request a delivery, adopt a connection, notice its end,
end the grace, read a frame (ready, ack, result, idle, error, stopping),
restart. Talks to the daemon by frames and to the router by calls. Hard: two
sides that learn of the end of a connection at different times; frames of an
old connection read after a new one is up; timers; a restart from an older
snapshot. Correct if it claims nothing the computer does not have, posts one
answer, keeps one active delivery per message, and forgets none.

**Daemon: connection and ledger** -- `cli.js`. State: the run id, the socket,
the ledger file, what is being accepted. Operations: connect, greet, accept,
acknowledge, report, complete, fail, restart. Hard: duplicates in the same run
and in a later one; a crash between the ledger and the acknowledgement. Correct
if a run gives a delivery to a session once and nothing finished is run again.

**Daemon: start queue, slots and sessions** -- `cli.js` 3272-4563, 5144-5535.
State: the queue of starts and one shared promise per agent, the map of
sessions, deliveries waiting for a slot; per session its child, thread, active
turn, active delivery, pending requests and prompts. Operations: start, stop,
deliver, steer, drain, and one for each message of the runtime. Hard: every
handler awaits, and reads fields of the session again afterwards. Correct if
an answer belongs to the delivery it names, a finished delivery was put to a
turn, limits hold, and no waiting delivery starves.

**Agents' Markdown** -- `markdown-operations.js`, `markdown-oplog.js`,
`markdown-document.js`, `markdown-maintenance.js`. State: log, manifest, file;
one promise chain per document. Operations: submit, apply in five steps, sweep.
Hard: three files that are written one after the other; retries; edits that
bypass the log; a sweep that works on an old text. Correct if an operation is
logged once, what was answered is in the log and in the file, and the log only
grows.

**Computers: pairing, upgrade, close** -- `daemon-relay.js`, `cli.js`. State:
tokens, the status of the computer, the upgrade under way on either side, the
handoff file. Operations: pair, revoke, upgrade (request, acknowledge, progress,
finish), close, ready. Hard: status fields written by the grace, by ready and
by the upgrade, each unaware of the others; listeners that are attached after
an await (daemon-relay.js:3323). Correct if an upgrade starts only when no work
is under way and its end is known to whoever waits for it.

**State, events and SSE journal** -- `state-core.js`, `system-routes.js`, and
the client in `public/app/sync-events-keyboard.js`. State: a sequence, a
trimmed journal, merged activity that waits for a timer, packets pending per
connection, the tab's last sequence and its fetches. Operations: record,
coalesce, merge, write, flush, trim, drain, reconnect with `lastSeq`, refresh
after a gap, suspend a hidden tab. Hard: coalescing against ordering; a gap
found while the refresh for another is in flight; a stream that reconnects
without a number. Correct if the number a tab goes on from stands for events it
shows, has been told to fetch, or has been told it missed.

**Saving** -- `state-core.js` 882-910, `cloud/postgres-store.js`,
`cloud/auth.js`. State: the chain of saves, the queues of accounts, workspaces
and everything, the connections in use. Hard: a rejected save; writes that
replace one another in the wrong order; a failed operation that loads the old
state over changes made since. Correct if what was answered is in the database
and a full write meets no other.

**Reminders** -- `reminder-scheduler.js`. State: reminders, timers, lists of
due reminders that are being worked off. Operations: schedule, cancel, fire,
start after a restart. Hard: two timers whose lists overlap; the delivery
before the save; the cap on timers. Correct if each is shown once, none after
it was canceled, and none is forgotten by a restart.

**Tasks and work items** -- `task-routes.js`, `task-orchestrator.js`,
`delivery-tasks.js`. State: the status of a task, its claim, the work item of a
delivery. Hard: two agents that claim; a late update of a finished task.
Correct if there is one claimant and terminal states stay.

**Notify and its owner** -- `notify/`, `notify-owner/`. State, in SQLite:
grants, confirmations that wait for the owner with the requests batched in them,
delivery intents. Operations: receive a request, decide, send the card, expire,
revoke, post, recover. Hard: a batch that is decided, expires and is being
asked about at once; records written back as they were read before an await; a
restart in the middle of a post. Correct if only what the owner allowed is
posted, it is posted or known to have failed, and nothing refused is.

**Team sharing** -- `team-sharing/`, `server/team-sharing.js`. State: the
transcript of a coding session, the cursor file hooks share, the switch that
turns reporting off and on, and on the server the events and batches a thread
has. Operations: say, switch, read, post, accept, answer. Hard: hooks are
processes and run at once; lost answers; restarts. Correct if nothing said
while reporting is off is posted, and nothing is posted twice or lost.

**Accounts and invitations** -- `server/cloud/auth.js`. State: pending
invitations, join links. Hard: acceptance of an invitation that was repeated or
has expired.

## Modules

| module | what it is |
| --- | --- |
| `DeliveryPromise` | what the relay promises about deliveries, without connections |
| `DeliveryRelay` | relay, daemon and network, which implement it |
| `MCDeliveryRelay` | bounds and symmetry for TLC |
| `DeliveryRelay_proofs` | theorems about `DeliveryRelay` |
| `MarkdownOplog` | one document of an agent and its log |
| `MCMarkdownOplog` | symmetry for TLC |
| `MarkdownOplog_proofs` | theorems about `MarkdownOplog` |
| `RealtimeJournal` | the journal of events, the event stream, and a tab that listens |
| `MCRealtimeJournal` | the tab's first state for TLC |
| `RealtimeJournal_proofs` | theorems about `RealtimeJournal` |
| `DaemonSessions` | the daemon's deliveries, starts, slots, sessions and pending upgrade |
| `DaemonSessions_proofs` | theorems about `DaemonSessions` |
| `CodexTurns` | one Codex session and the app-server it talks to |
| `ReminderScheduler` | reminders, their timers, and restarts |
| `Parts_proofs` | theorems about `CodexTurns` and `ReminderScheduler` |
| `TeamSharingSync` | hooks that share a transcript with the server |
| `MCTeamSharing` | `TeamSharingSync` for TLC |
| `TeamSharingSync_proofs` | theorems about `TeamSharingSync` |
| `StateSaves` | how the server's state gets into PostgreSQL |
| `StateSaves_proofs` | theorems about `StateSaves` |
| `NotifyOwner` | requests to post, the owner's decisions, and restarts |
| `NotifyOwner_proofs` | theorems about `NotifyOwner` |
| `MCParts`, `MCPartsSafety` | small instances of the parts that share no state |

`PROJECT.json` maps each definition to the lines it stands for. A module that is
extended beside another says `DaemonInit`, `SchedulerNext` or `NotifySpec` where
the others say `Init`, `Next` and `Spec`.

### DeliveryRelay

One computer with one agent. Three groups of variables, one per place:

| variable | in the code |
| --- | --- |
| `deliveries` | `cloud().agentDeliveries`: status, message, whether `ackedAt` is set, whether `sentAt` is old |
| `connections`, `pendingDisconnects` | the computer's entries in the maps of these names |
| `responses` | answers to a delivery among the messages of the chat |
| `stored` | deliveries and answers as last persisted |
| `link`, `toDaemon`, `toServer` | the WebSocket connections, in the order they are opened |
| `run`, `socket`, `ledger` | `daemonRunId`, `this.socket`, the ledger file |
| `handling` | what `acceptDelivery` returned, until `handleAgentDeliver` goes on |
| `session` | what the agent's session does with a delivery |

| action | in the code |
| --- | --- |
| `Request` | `queueAgentCommand`: deduplicate, create, send or queue |
| `Connect`, `ServerLosesSocket`, `GraceExpires` | `handleUpgrade` with `adoptConnection`, `markComputerDisconnected`, `finalizeComputerDisconnected` |
| `ServerReceive` | the handler of a daemon frame, one disjunct per frame |
| `Age` | two minutes pass for a delivery that was sent |
| `DaemonGreets`, `DaemonAccepts`, `DaemonAcks` | `ready`; `handleAgentDeliver` before and after its await |
| `Report`, `Complete`, `Fail` | the end of a turn: the answer, the ledger with the idle status, an error |
| `Break`, `DaemonLosesSocket`, `DaemonRestart`, `Persist`, `ServerRestart` | faults, and what survives them |

A frame is lost with its connection. The two ends learn of the end of a
connection independently, and the server may still read what an old connection
carried after the daemon has opened the next one -- except that when it is told
of the end it drops what is left. A restart of the daemon keeps the ledger; a
restart of the server returns to `stored`, which `Persist` writes at any
moment: the code saves after each change without waiting for it, so any earlier
state may be what is found. Deliveries and connections are numbers in the order
they come to be.

`DeliveryPromise` says what this amounts to: a phase per delivery that moves
forward only (`none`, `pending`, `taken`, `done`), on word from a computer that
has the delivery in its journal, and one answer. `Promise` in `DeliveryRelay`
is the refinement mapping, `KeepsPromise` the property.

### MarkdownOplog

One document. The data is a sequence of bullets, the newest first, no more than
`MaxItems`; the hash of a document is the document, the idempotency key of an
operation is the operation, and the rewrites of different sweeps differ.

| variable | in the code |
| --- | --- |
| `log` | the records of all segments of the log |
| `manifest` | revision and hash; `NoManifest` before the first |
| `file` | the document |
| `queue`, `applying` | the promise chain of the document; where `applyNow` is and what it has read |
| `sweep` | the text the maintenance sweep waits with |
| `answered` | history: operations a client was told ok of |

`Begin`, `OpenLog`, `CreateManifest`, `Dedupe`, `Check`, `AppendRecord`,
`WriteManifest` and `WriteFile` are `applyNow` between two writes. `WriteFails`
ends it at any of them with an error and `Crash` ends the process. `Edit` is
anybody who writes the file without the log. `SweepReads`, `SweepSubmits` and
`SweepGivesUp` are the sweep around its call of the language model; the model's
answer is taken to keep every bullet it was shown, so that what gets lost is
lost by the code.

### RealtimeJournal

One workspace, one tab. An event is its number and its topic: a message of the
selected space, a reply of the open thread, activity of an agent, or anything
the tab's stream does not carry.

| variable | in the code |
| --- | --- |
| `events` | every event recorded; the journal is the newest `Keep` of them |
| `batch` | activity merged until its timer (`queueRealtimeBroadcast`) |
| `stream` | the connection: the URL it was made with, the packets in flight, whether the socket is full, `pendingSsePackets` |
| `draining` | `beginDrain` has been called |
| `last`, `view`, `seen`, `thread` | `lastSseSeq`, the records shown, `agentActivitySeqById`, an open thread |
| `fetch` | requests of the tab for records, and where they are |
| `opened`, `blind`, `vouched`, `warned`, `forgone` | history: what a property must not count, and why |

A fetch brings what the code fetches, the newest `PageSize` messages of the space
(`CONVERSATION_HISTORY_PAGE_SIZE`, sync-events-keyboard.js:1191, 1205), and not all
that was missed.

The server's actions are `RecordRealtimeEvent`, `FlushRealtimeBroadcasts`,
`BroadcastStateDelta`, `FlushPendingSsePackets`, `BeginDrain` and `Restart`; the
tab's are `HandlePacket`, the steps of a fetch (`AnswerFetch`, `TakeAnswer`,
`FetchFails`), `Select`, `Reconnect` (the browser's own, to the old URL),
`SuspendForHiddenTab` and `ResumeAfterHiddenTab`. `LoseStream` is the network.

### DaemonSessions

The daemon is one thread, and this module is about what that thread does between
awaits. A frame of the relay, a timer or an answer of a runtime's child process is
a step; what a settled promise lets run, and what a change of a session's status
calls at once, are `jobs`, done in their order before anything else.

| variable | in the code |
| --- | --- |
| `call` | where `handleAgentDeliver` of a delivery is |
| `lane`, `session` | `this.sessions`, and every session ever made: a stop forgets one that others still hold |
| `starts`, `startQueue`, `active`, `lastStart`, `paced` | the shared promise per agent, `agentStartQueue`, `activeAgentStarts`, the interval between starts |
| `waiting`, `drain` | `pendingSessionDeliveries`, and the drain that works them off |
| `upgrade` | none, pending, worker started |

Actions: the frames (`Deliver`, `HandleAgentStart`, `HandleAgentStop`,
`HandleAgentRestart`, `HandleDaemonUpgrade`), the awaits (`Accepted`,
`StartDone`, `PrepareDone`, `StartTurn`), the timers (`PaceTimer`,
`UpgradeIdleTimer`), the runtime (`ThreadReady`, `TurnTaken`, `TurnEnds`,
`Exit`), and failures of a start. `RunJob` runs `Give`, `DeliverTo`, `Pump`,
`StartSettled`, `Finally`, `DrainPendingSessionDeliveries`, `DrainGoesOn`, `Turns`,
`Splice` or `MaybeStartPendingUpgrade`, each named for its function. The ledger
is `DeliveryRelay`'s: a delivery here is one that was accepted.

### CodexTurns

Inside one session: `threadId`, `activeTurn`, `activeDelivery`, the pending
`prompts` and the lists taken from them, the `handler` of the message in hand,
`mark` (what the ledger says of each delivery). The app-server is external: it
answers `requests` in order with `messages`, runs one `turn` at a time, and may
refuse any request, for an unknown thread or otherwise (`RefuseRequest`), or exit.
`Deliver`, `Start` and `StartTurn` put a prompt to it, `Handle` is one message up to
its next await, with the recovery from a lost thread (cli.js:4108) and the refusal
(4155) among its cases. `denied` is history: a thread was refused.

### ReminderScheduler

`fireAt`, `status`, `timer` per reminder, `saved` (what the last save has), and
for each timer that has gone off the list of `due` reminders it is working off
and where it is (`at`). `TimerFires`, `Delivered`, `SavedOne` and
`DeliveryFails` are `fireDueReminders` between its awaits; `CreateReminder`,
`CancelReminder`, `PersistState` and `CrashAndStart` come between. Time is a
counter; a delay longer than `MaxDelay` is cut to it, as in the code.

### TeamSharingSync

`transcript` is what was said in a coding session, in order, with the words that
switch reporting off and on; `cursor` and `reporting` are files all hooks share.
Each `hook` is a process between its reads and writes: `StartSync`,
`WriteOverride`, `ReadOverride`, `SkipTo`, `Package`, `WriteCursor`, with `Lose`
for a request or an answer that is lost. On the server `received` and `ledger`
are the events and batches a thread has, `persisted` the same at the last save;
`Accept`, `Persist` and `Restart` change them.

### StateSaves

A change is a number, memory and database are sets of them by workspace. `saves`
is the chain of `persistState` with each save's place in it, `operation` an
operation on accounts that writes past the chain, `tasks` the writes in the order
they were queued with what each waits for, and the tails are the last write of
each queue. `RunSave`, `DeleteDone`, `SaveDone`, `RejectSave` are a save,
`StartTask`, `Commit`, `Fail` a write, with `persisting` and `waiters` for the
few connections. `reader` is a request that puts rows of the database in place of
records of the state (`ReadRows`, `TakeRows`): a page of messages for GET
/api/bootstrap, a workspace for GET /api/channel-path/resolve; the reload of a
failed operation is `LoadIntoState`. `lost` is history: the changes such rows have
undone.

### NotifyOwner

One requester, one group. `confirmations`, `grant` and `intents` are tables;
`request`, `delivery`, `deciding`, `prompting` and `expiring` are where the calls
about them are, with the records they have read: `Receive` and `Prepared`
(`prepareNotifyDelivery` around its lock), `BeginDelivery` to `ReportDelivery`
(`processAuthorizedNotifyDelivery`), `Decide`, `DecideLate`, `DeliverNext`,
`ReportDecision` and `PersistDecision` (`completeTargetAccessConfirmation`), the
card (`PromptReads`, `PromptStarts`, `PromptEnds`), the sweep of every minute
(`SweepReads`, `SweepReports`, `SweepWrites`), and `Crash` with the steps of
`recoverNotifyDeliveries`. The group is external and shows a key once (`Show`).
`undone` keeps the requests in a record that an older copy replaced, `dropped`
those a grant let through and a crash lost before they had an intent: the code
does both, and the properties except them.

### MCParts, MCPartsSafety

The parts other than `DeliveryRelay` share no state. These two modules run small
instances of them side by side: the first step picks a part, and the rest of the
behaviour is that part's, in `MCParts` under its own fairness. Nothing is claimed
about their interleaving. `MCPartsSafety` extends its three parts, `StateSaves`,
`DaemonSessions` and `NotifyOwner`; `MCParts` extends `CodexTurns` and
`ReminderScheduler`, and instantiates the others with bounds in the module. So
what a run checks of a part it extends is the definition the theorems are about.
`PartsTyped` is the type invariant of every part of `MCParts`.

## Runs

Each `.cfg` gives the bounds. Deadlock is not checked: with all submissions and
faults used up these systems rightly stop.

| run | bounds | properties | states |
| --- | --- | --- | --- |
| `restart` | 1 delivery, 3 connections, 2 runs of the daemon, 1 restart of the server, 3 frames each way | `TypeOK`, `AckMeansAccepted`, `AtMostOneResponse`, `OncePerRun`, `ServerUsesDaemonsSocket`, `FinishedNeverRerun`, `KeepsPromise` | 818 000 |
| `pair` | 2 messages, 2 deliveries, 2 connections, 2 runs, 2 frames each way | `OneActivePerMessage`, `GraceMeansGone`, `NothingStranded` | 789 000 |
| `liveness` | 1 delivery, 3 connections, 2 runs, no restart of the server | `EveryDeliveryTaken` | 365 000 |
| `upgrade` | 1 delivery, 2 connections, 1 restart of the server | `EveryDeliveryTaken` is violated | |
| `oplog_faults` | 2 bullets, 3 submissions, 1 sweep, 1 edit, 2 faults | `OncePerKey`, `AnsweredIsLogged`, `RevisionInStep`, `LogOnlyGrows`, `BuiltUntilFault` | 4 600 000 |
| `oplog_retry` | 2 submissions, 1 fault | `AnsweredIsBuilt` is violated | |
| `oplog_sweep` | 2 submissions, 1 sweep | `SweepKeepsBullets` is violated | |
| `realtime` | 3 events, a journal of 1, a page of 1, 1 break, 1 resync | `MarkIsHonest`, `ResumeIsComplete`, `GapsAreRepaired` | 2 100 000 |
| `realtime_resume` | 3 events, a journal of 2, 1 break | `ResumesAfterBreak` is violated | |
| `sharing` | 2 hooks, 3 events, 1 command, 2 losses or restarts | `TypeOK`, `PrivateStaysLocal`, `PostedOnce`, `CursorIsHonest` | 626 000 |
| `parts_safety` | saves: 2 workspaces, 2 saves, 1 operation, 1 connection, 2 failures or 1 reader; sessions: 3 lanes of 2 agents, 1 slot, 1 start at a time, 1 trouble, 3 deliveries, or 2 and 1 upgrade; owner: 2 requests, 1 hitch | `FullRunsAlone`, `StoredUnlessLost`, `NoLostWakeup`, `ShownAsDecided` | 3 030 000 |
| `parts` | a Codex session: 2 prompts, 2 troubles; journal: 2 events, 1 resync; sessions: 2 deliveries, 1 slot, 1 upgrade, no trouble; 2 reminders, 1 hitch; a log: 2 submissions, 2 faults; saves: 1 save, 1 operation, 1 failure; owner: 1 request, 2 hitches | `PartsTyped`, `TakenOnce`, `CompletedIsMarked`, `ShownOnce`, `EverythingIsSent`, `WorkGoesOn`, `UpgradeGoesOn`, `TurnsGoOn`, `CanceledStaysSilent`, `NearOnesFire`, `QueueDrains`, `SavesSettle`, `ApprovedIsPosted` | 143 000 |

What they show:

- `AckMeansAccepted`: the cloud takes nothing for received, finished or
  answered that the ledger on the computer does not have, through crashes of
  both sides and late frames.
- `AtMostOneResponse`: a result is sent by the session, again for a duplicate,
  by a second run of the daemon, before and after a restart; there is one
  answer in the chat.
- `OncePerRun`, `FinishedNeverRerun`: the ledger keeps a delivery from being
  given to a session twice in a run, or ever again once it is finished.
- `OneActivePerMessage`: a message is one active delivery at most, through
  requeues and handing out again. `pair` has no restart of the server; the
  theorem `OneActiveDelivery` covers them.
- `GraceMeansGone`, `ServerUsesDaemonsSocket`: no timer and no word of an
  earlier connection takes a computer offline that is back.
- `NothingStranded`, `EveryDeliveryTaken`: while the server stays up every
  waiting delivery has a way forward, and reaches the daemon once the network
  holds.
- `KeepsPromise`: every step of the relay is one of `DeliveryPromise` or
  changes nothing there.
- `OncePerKey`, `AnsweredIsLogged`, `RevisionInStep`, `LogOnlyGrows`: the log
  of a document stays whole wherever a write fails or the process ends.
- `BuiltUntilFault`: until the first fault, a document that has just been
  answered for is what its log rebuilds to, even if it was edited behind the
  log's back. With a fault it is not: `oplog_retry`.
- `QueueDrains`: a failed operation does not hold up the next.
- `MarkIsHonest`: the number a tab goes on from never passes an event it has
  neither taken nor been told to fetch, through coalescing, merging, trimming,
  another selection, a hidden tab, a drain and a restart. `ResumeIsComplete`:
  once nothing is under way, it has every event or the demand to fetch.
  `GapsAreRepaired`: when no fetch is under way, the newest page has no hole up to
  the mark, so a gap that is ignored because an earlier one is being fetched costs
  nothing -- unless the server has answered that fetch already, or it fails.
  `EverythingIsSent`: what a slow connection or a timer holds back gets out.
- `NoLostWakeup`: while a slot is free and a delivery waits, something that will
  take it up is on its way; a queued start has somebody to pump it.
  `WorkGoesOn`, `UpgradeGoesOn`: in behaviours without trouble, each delivery
  reaches its turn and a pending upgrade its worker.
- `TakenOnce`: no prompt is given to two turns, however often the thread is lost
  and found. `CompletedIsMarked`: the ledger has what the runtime completed.
  `TurnsGoOn`: a prompt is not left in a list nobody works off, unless the
  opening of a thread was refused, or the app-server exits.
- `ShownOnce`: timers that go off together show a reminder once; only a crash
  before the save shows it again. `CanceledStaysSilent`, `NearOnesFire`: a saved
  cancellation holds, and restarts forget no reminder.
- `PrivateStaysLocal`: what is said with reporting off never reaches the server,
  with several hooks at once. `PostedOnce`: an event is one message of the thread,
  over retries and overlapping batches. `CursorIsHonest`: the cursor passes
  nothing the user wants reported and the server does not have.
- `FullRunsAlone`: a write of everything meets no other write.
  `StoredUnlessLost`: what was answered as saved is in the database, and stays
  there; nothing takes it back but rows read before it was stored, which a failed
  operation or an ordinary request puts in place of it. `SavesSettle`:
  every save is answered or rejected; queues and connections never deadlock.
- `ShownAsDecided`: the group shows only what the owner or a grant let through,
  what is reported as sent is there, and what the cloud heard refused is not,
  unless an older copy of the record took the decision back. `ApprovedIsPosted`:
  what was let through is posted or has failed, over restarts anywhere in between.

Why these bounds. A delivery interacts with another through the order of
replays and the deduplication by message, for which two suffice; each of the
hazards of a single delivery needs at most an old connection, a current one and
one to come (three), a run and a later run of the daemon (two) and one restart
of the server. More frames on their way are more copies of the same delivery:
three per direction hold one of each connection, and `FewFrames` cuts only
states beyond. Without the constraint the liveness run explores all of them;
TLC accepts no constraint there. Messages and bullets are interchangeable, so
the runs of safety use symmetry; those of liveness do not. In the log, two
bullets are enough for a collision and an eviction (`MaxItems` is 2), three
submissions for an operation, one in between and its retry, and two faults for
a failure during the recovery from another. Three events and a journal of one
make the cases of a resume: the event asked for is there, is trimmed, or is in a
merged packet that spans it; the tab's `lastSeq` may be of before or after. A page of
one leaves older messages out.
Three deliveries for one slot are one that runs, one the drain has in hand and
one behind it (with an upgrade besides, 3.5 million states, there is no violation
either); two lanes of one agent share a start, the third is of another
agent so that the interval between agents matters. Two prompts are enough for
steering and for a list that is put back in front of another; two reminders for
overlapping lists. Two hooks are the reader and the late one, and with three
events the batches overlap without being equal. Two workspaces and one
connection make a full write wait for a partial one and a waiter hand its
connection on; one request that reads rows can read before or after each write and
replace them at each later step, and meets the failures in behaviours of its own
(both together are too many states for a run; the theorem has them together). Two
requests make a batch, of which one is allowed once; a hitch is a card, a deadline, a revocation or a restart, so that each of them meets the
decisions and posts in every order.

Every property of a passing run has a mutant in `PROJECT.json`: a plausible
slip in the code -- a guard dropped, a reset forgotten, an order swapped -- with
which TLC finds the property violated. The mutated forms stand before the
definitions they replace, marked `mutant`.

## Fairness

`FairSpec` of `DeliveryRelay` assumes that the daemon dials again whenever its
socket is gone (`runForever` loops with a bounded delay), that each side
notices the end of a connection and reads what is there (socket events, the
inbound watchdog of the daemon and the connection watchdog of the server),
that a timer that is not cleared fires, and that a handler continues after its
await. These are weak fairness of single actions; nothing is disabled for good
by another of them. Nothing is assumed about the chat, about how long a turn
takes, about saves, or about faults. There are finitely many faults, because
there are finitely many connections: the last one holds. Without that no
delivery could be promised.

`FairSpec` of `MarkdownOplog` assumes that the process goes on with an
operation it has begun, or with the next one in the queue. A sweep that never
hears from the language model is allowed.

The parts' specifications are as modest. `RealtimeJournal`: the merge timer, the
drain event of a socket, the browser's event loop, and that a server that drains
is replaced. `DaemonSessions`: jobs run, timers fire, awaits end, a runtime
answers and ends its turns; `WorkGoesOn` excepts behaviours with trouble because
an exit leaves the session counted as active (cli.js:3982). `CodexTurns`: the
app-server takes requests and ends turns, handlers go on. `ReminderScheduler`:
the clock, timers, awaits. `StateSaves`: the chain and operations go on, and
*some* write that can start or commit does -- the database is fair to nobody in
particular. `NotifyOwner`: a post that has begun succeeds or fails, a decision is
carried through, a plugin host that ended starts again and recovers. No frame, user, network fault or crash is ever assumed to happen.
`TeamSharingSync` is safety only: a hook that dies is replaced by the next one
only if somebody speaks again.

## Proofs

TLAPS proves, for any number of messages, deliveries, connections, runs and
restarts (`BoundsAssumption`: the bounds are natural numbers, connections and
runs at least one; `NoMessage` is no message):

| theorem | property |
| --- | --- |
| `TypeCorrect` | `TypeOK` |
| `InvariantHolds` | `Invariant` |
| `AcksAreAccepted` | `AckMeansAccepted` |
| `AnsweredAtMostOnce` | `AtMostOneResponse` |
| `ExecutedOncePerRun` | `OncePerRun` |
| `OneActiveDelivery` | `OneActivePerMessage` |
| `GraceOnlyWhenGone` | `GraceMeansGone` |
| `ConnectionAgreed` | `ServerUsesDaemonsSocket` |
| `FinishedStaysFinished` | `FinishedNeverRerun` |
| `PromiseKept` | `KeepsPromise` |
| `WaitingIsRemembered` | `NothingStranded`, while the server has not restarted |

None of the safety properties is inductive. `AckMeansAccepted` says nothing of
an acknowledgement on its way, of a snapshot that a restart would bring back,
or of a session about to report; `Backed` does, and its conjunct about frames
of type `stopping` -- that they are the last of a cut connection -- is what
`OneConnection` needs to survive a late notice. `AnsweredOnce` and `Issued`
extend their properties to the snapshot, `Issued` also to deliveries that do
not exist yet. `RunOnce` ties the counter of executions to the ledger: it
distinguishes a delivery accepted and not yet given to a session from one that
was, in this run or before. `Invariant` is their conjunction; TLC checks it too when it is
added to the invariants of `restart`. The proof that a step preserves it has a lemma
per conjunct and in it a step per action. `FinishedStaysFinished` and
`PromiseKept` follow from the invariant and the step.

`WaitingIsRemembered` has an invariant of its own. A queued delivery of a
connected computer is remembered by the `ready` that is still to be read, a sent
one by the frame, by the acknowledgement, by the handler that is about to write
it, or by the notice that the connection is gone; `Remembered` says so in terms of
what is in both directions of the current connection, in order, so that reading
one frame hands a delivery from one of these places to the next. After a restart
of the server it is false (run `upgrade`), hence the hypothesis; `pair` has none.

In `MarkdownOplog_proofs`, for any bullets and bounds:

| theorem | property |
| --- | --- |
| `OplogCorrect` | the inductive invariant |
| `LoggedOnce` | `OncePerKey` |
| `AnswersAreDurable` | `AnsweredIsLogged` |
| `SequencesInOrder` | `RevisionInStep` |
| `LogIsAppendOnly` | `LogOnlyGrows` |
| `BuiltWithoutFault` | `BuiltUntilFault` |
| `TypeCorrect` | `TypeOK` |

Its invariant adds `Progress`, what is true at each step of `applyNow`: at
`ready` the operation is not in the log, at `appended` it is the last record
and the manifest is one behind, at `saved` it is still the
last record. The interesting case is a crash after the first record and before its manifest.

`BuiltWithoutFault` needs what `Rebuilt`, a recursive function over the log, is
for a record more. The library's induction theorems cannot be used here, but
their least element can: `BuildsExist` and `BuildsAlike` argue from the least
number of records for which there were no such function, or for which two logs
that agree would differ, and `RebuiltAppend` is the consequence. `Untroubled` then says that
at each step the document in hand is what the log rebuilds to, and that whatever
is logged was answered, is about to be, or is a snapshot, which no client
submits. It is claimed for `faults = 0` only; `oplog_retry` shows why.

`TypeCorrect` says that no document has a bullet twice or more than `MaxItems` of
them, the rebuilt one included. `UpsertedIs` is that for an insertion, and
`RebuiltIsDocument` for a log, again by the least record after which it were not so;
both need the operations in the queue and in the log to be `Genuine`.

In `TeamSharingSync_proofs`, for any hooks and bounds (natural numbers):

| theorem | property |
| --- | --- |
| `TypeCorrect` | `TypeOK` |
| `PrivateKept` | `PrivateStaysLocal` |
| `EventPostedOnce` | `PostedOnce` |
| `CursorHonest` | `CursorIsHonest` |

A hook reads the transcript and acts on it later. `Concludes` says what it has
found out at each of its stages, in words that stay true: which of the words on
reporting is the latest *before a given event* never changes, although new ones
are said. `ServerInv` says that ledger and events agree, now and in the last
save, and that the save is a part of what there is. `CursorIsHonest` is for
behaviours in which no command has moved the switch, as the property states.

In `StateSaves_proofs`, for any workspaces, saves and operations on accounts
(finitely many), connections and failures (natural numbers):

| theorem | property |
| --- | --- |
| `TypeCorrect` | `TypeOK` |
| `ConflictingWritesApart` | `FullRunsAlone` |
| `AnsweredStored` | `StoredUnlessLost` |

A write waits for the tails its queues had when it was queued, not for every
write before it. `TailsReach` and `AfterReaches` say that each earlier write it
conflicts with is one of these or stands before one it conflicts with too;
`OrderKept` is what follows once it has been let go. `SlotsCounted` makes the
counter of connections the number of writes that run. `ChangesKept` follows a
change from memory through the snapshots of the queued writes into the database:
every later write of its workspace has it as well, so that none puts an older
state over it, unless rows that were read before have undone it and it is counted in
`lost`. Rows are read at one moment and put into the state at a later one:
`ReaderTypes` keeps what a reader holds a part of what was stored, and `SnapshotsKept`
says the same of the lists a deletion's snapshot shares with the state.

In `DaemonSessions_proofs`, for any finite set of lanes, any agents and
deliveries, any slots, at least one start at a time, and any number of troubles:

| theorem | property |
| --- | --- |
| `TypeCorrect` | `DaemonTypeOK` |
| `WakeupsKept` | `NoLostWakeup` |
| `StartsBounded` | starts that run are within the limit, the queue is that of the queued ones |
| `OnePlace` | `CallsInv`: a delivery is in one place |

`NoLostWakeup` speaks of a daemon at rest, which is reached after any number of jobs;
the invariant says at every moment what is to come. `StartsInv` is about the
queue of starts: `CountIsExact` makes `active` the starts that run and those
whose `Finally` is still a job, and `PumpIsComing` gives a queue that is not
empty a timer, such a start or a pump. `DrainIsComing` is about deliveries that
wait and whose lane has a slot: a drain goes on or is a job, a turn is
about to begin on a runtime that runs, or a session is on its way out -- each ends in a
change of status, which drains. Whether a step may free a slot without one of them
depends on who else holds the delivery and the session: `CallsInv` puts each delivery
in one place (waiting, in the waiters of one start, in one session's prompts, in
one list, with one runtime) and lets no two jobs go on with it, and
`SessionsFit` keeps `started`, `ready` and the children of a session together.
The counting rests on lemmas about jobs that are taken from the front and
appended behind.

In `Parts_proofs`, of `CodexTurns`, for any finite set of deliveries that `None`
is not one of, and any number of troubles:

| theorem | property |
| --- | --- |
| `TypeCorrect` | `TypeOK` |
| `TurnsTakeOnce` | `TakenOnce` |
| `CompletedMarked` | `CompletedIsMarked` |

`TakenOnce` says nothing of prompts before their turn. `Waiting` and `Looping`
say that a prompt is in `pendingPrompts` or in one list once; `OnItsWay` that what
the session holds is not with the app-server, and that of what is there one
request or one refusal is under way at most, and no turn yet has it. So a prompt that is
sent again after its thread was lost has not been taken before. `CompletedMarked` has
a second invariant, `Stories`: a delivery that is the session's only one is in
one of seven phases, from opening the thread (which may be refused, and asked for again)
over its request, its turn and the handler of its end to the mark, and each phase says
what is on its way, so that nothing else can overwrite the end of the turn. An
exit of the app-server ends the story (`exits = 0`).

In `RealtimeJournal_proofs`, for any bounds, journal and number of events:

| theorem | property |
| --- | --- |
| `TypeCorrect` | `TypeOK` |
| `MarkHonest` | `MarkIsHonest` |
| `ResumeComplete` | `ResumeIsComplete` |
| `GapsRepaired` | `GapsAreRepaired` |

Packets are folded into one another, coalesced and trimmed on their way;
`Announced` is what survives all of that: for each event an open stream owes, a
packet with its number or a higher one is on the way or waits for the merge timer.
When it is handled, either its span reaches back to the mark or the numbers
jump, and then the tab asks for the records. `UrlIsHonest` is `MarkIsHonest` for
the number in the path of the stream, which the browser repeats by itself.
`Repairing` follows a gap to its fetch and the fetch to the records shown: what was
announced is in view, in an answer under way or still to be read by the server,
if it is in the newest page. A page that is read later has no older message than
one read before (`PageShrinks`), so that a hole below the page stays below it.

In `NotifyOwner_proofs`, for any finite set of requests:

| theorem | property |
| --- | --- |
| `TypeCorrect` | `NotifyTypeOK` |
| `OwnerDecides` | `ShownAsDecided` |

The calls write whole records as they were before an await. `Copies` says that
every copy one of them holds is a *version* of the record as it is now: of the
same confirmation, letting through only what was approved, and for each request
that no write has undone with the same decision or none yet. `Decisive`, `Recorded` and
`Posts` follow a decision into its posts and reports. With `undone` empty of a
request, what the cloud heard of it holds.

In `Parts_proofs`, of `ReminderScheduler`, for any reminders, delays and bounds:

| theorem | property |
| --- | --- |
| `RemindersShownOnce` | `ShownOnce` |
| `CanceledNeverShown` | `CanceledStaysSilent` |
| `SchedulerTypeCorrect` | `SchedulerTypeOK` (finitely many reminders, bounds that are natural numbers) |

`ShownOnce` is not inductive: lists that overlap hold a reminder twice, and
nothing in it says that the second finds it fired. `ShownByStatus` ties the
count to the status: what is still scheduled has been shown only as often as a
crash has forgotten it, in memory and in the last save.

Each inductive invariant was given to TLC before it was proved, as an invariant
of the module on bounds like those of the runs, to the end of the state space:
`TeamSharingSync` 626 000 states, `StateSaves` 3 180 000 (two saves and a reader) and
101 000 (one save, a reader and a failure), `CodexTurns` with `Stories` 2 730 000
(three deliveries), `RealtimeJournal` 2 100 000, `NotifyOwner` 289 000 (and 25
million simulated, with three requests and five hitches), `DaemonSessions`
6 610 000 (three deliveries with an upgrade), `Untroubled` 4 580 000
with faults and 26 520 000 without.

Only model-checked, and why: `EveryDeliveryTaken`, `QueueDrains`,
`EverythingIsSent`, `WorkGoesOn`, `UpgradeGoesOn`, `TurnsGoOn`, `NearOnesFire`,
`SavesSettle` and `ApprovedIsPosted` are liveness under fairness, which the
prover does not do. `PartsTyped` joins the type
invariants of the seven parts for one run; each of them is a theorem of its part, and
the conjunction, about instances with fixed bounds, is not stated again. No
safety invariant or action property of a passing run is without its theorem otherwise.

## What the code does otherwise than it says

Four runs end in a counterexample. `PROJECT.json` quotes the lines.

- `upgrade`: a delivery that was sent and saved as sent is loaded by the new
  server process; the daemon reconnects before the delivery is two minutes old;
  `ready` skips it (`deliveryRetryReady`, daemon-relay.js:357) and nothing
  replays it while that connection lasts. A further request of the message is
  deduplicated onto it.
- `oplog_retry`: a write fails after the record of an operation is appended;
  the retry is answered ok as a duplicate (markdown-operations.js:144) although
  the document never got the bullet. The next new operation repairs it.
- `oplog_sweep`: a bullet applied while the sweep waits for the language model
  is overwritten by the rewrite (markdown-maintenance.js:185).
- `realtime_resume`: a tab that opens its first stream has no number to put into
  its path (sync-events-keyboard.js:2552); when that stream breaks the browser
  comes back to the same path, and the server replays only for a number
  (system-routes.js:582). What was recorded meanwhile is not sent.

Seen while modelling, and not given a run of its own:

- Rows of the database are put in place of newer records of the state: by a failed
  operation on accounts, all of them (auth.js:345, 404); by GET /api/bootstrap, a page
  of messages, replies, tasks (index.js:876-893, postgres-store.js:2637); by GET
  /api/channel-path/resolve (collab-routes.js:235), team sharing
  (team-sharing-routes.js:4372), an inbound Feishu message (inbound.js:380) and the
  notifications of other processes (index.js:825-860), a workspace
  (postgres-store.js:4505). A change whose save still waits in the chain is gone, and
  then answered as saved. `StoredUnlessLost` excepts exactly those; the rollback that
  test/cloud-auth-operations.test.js:99 describes is of the operation alone.
- `saveChain` has no catch (state-core.js:885): after one rejected save all later
  ones are rejected without being tried. Every later operation on accounts that
  saves through it fails too, and loads the old state.
- A turn that took several prompts ends: the session names one delivery
  (cli.js:4032, 4237), the others stay `started` in the ledger. `CompletedIsMarked`
  speaks of a session with one delivery.
- An error answer to the request that opens a thread is handled like any other
  (cli.js:4155-4163): the active delivery is marked failed, and what waits in
  `pendingPrompts` stays there; so does every later delivery, as nothing asks for a
  thread again before the app-server has exited or the agent is restarted.
  `TurnsGoOn` excepts it.
- A gap that is noticed after the server has answered the fetch of an earlier one,
  and before the answer is there, is dropped (sync-events-keyboard.js:2517); so is
  one whose fetch fails. Nothing asks again before the next gap.
  `GapsAreRepaired` excepts exactly these numbers.
- A MEMORY.md that goes back to an earlier text is taken for a retry of the
  earlier mirror (agent-tool-routes.js:1691) and is not written.
- A delivery that is accepted and waits for its ledger write or its images is no
  work in the eyes of an upgrade (cli.js:4744); the worker may start over it.
  `UpgradeWaits` of `DaemonSessions` states the opposite and fails.
- The profile lock (cli.js:855) is created empty and written afterwards, and a
  stale one is removed by whoever has read it: a second starter that reads
  between the two, or that removes what the first has just created, starts as
  well.
- Sending the card writes back all confirmations as they were before an await
  (handler.js:1371, 1388), and the one it is about again when the card is out
  (1397): a decision made meanwhile becomes pending again, a request batched
  meanwhile is gone from its record. The sweep does the same with its list (2346)
  and may report as expired what was approved while it reported another. Grants
  are written back by every call (352-371): a revoked one can return.
- A request that a grant let through, and whose process ends before its intent is
  written, is not recovered; a recovered batch that was approved once reports
  only the request that was allowed (1699); a card that was being sent when the
  process ended is not sent again; an error after the post was accepted, as in
  the sync of the group's context, is reported as failed though the group
  shows the post.

By design, and therefore not among them: an acknowledged delivery is never
replayed, so that the answer stays on the computer when the connection is down
at the end of a turn and the daemon is not asked again.

## Limits

Within `DeliveryRelay`: the session is reduced to what the protocol sees of it,
a delivery that is begun and ends once, with or without a result. Which of
several deliveries a turn belongs to, and the mark `started` that the ledger
gets for it without waiting (cli.js:4064; it is merged with `accepted`, and may
in the code be written after the end of the delivery), are inside the session.
`FinishedNeverRerun` and `OncePerRun` speak of relay, ledger and a session that
ends a delivery once. Left out: pruning of the ledger to 500 records, work
items, several computers (they share nothing here), the upgrade's hold on
deliveries, remote close, disabled computers and revoked tokens, the status
`stopped`, the window before the listeners of a socket are attached. A connection is
one step with the save of its state (daemon-relay.js:3317), and the daemon's greeting
one with the two awaits before it (cli.js:5212). `Fail` is an error of an accepted
delivery; when it is the write to the ledger that fails, the catch at cli.js:5520
reports the delivery failed with nothing on disk.

Within `MarkdownOplog`: an append is one step, so that no torn line is found
after a crash; segments are one log; the other transforms of a text are like
`upsert_bullet` or `maintenance_rewrite` for what is checked; an operation is its own
key, where the mirror of MEMORY.md falls back to a hash or a length
(agent-tool-routes.js:1691); a sweep begins with a file that is there; the index and
mirror written by a timer of their own are not there.

Within `RealtimeJournal`: one workspace and one tab; `MarkIsHonest` and
`ResumeIsComplete` do not count what a stream without a number missed (`blind`,
the run above), numbers inside a merged packet of activity (`vouched`: the packet
carries the newest number and the start of the oldest, state-core.js:1316), and
`GapsAreRepaired` not the numbers no fetch was made for (`forgone`, above). It is
about the newest page: a hole older than that is closed only by scrolling, and a fetch
resets the position scrolling goes on from (sync-events-keyboard.js:1009), which is
not modelled. The page is by event number here, by time of creation in the code. The
server restarts only after a drain, with everything saved: a process that is killed
may give its last numbers out again (state-core.js:1050). A drain does not end
the streams by itself; that is `LoseStream`. A reload of a workspace from the
database also replaces the journal (`cloud.realtimeEvents`); it is `StateSaves`' reload,
without the journal.

Within `DaemonSessions`: a delivery that waits for a start that fails is only
logged (cli.js:5380), and a start that is shared (5147) fails for all who wait;
liveness is stated for behaviours without trouble. Claude sessions are left out,
and so are the ages at which idle sessions are closed. A session has one child at a
time, where either of two that overlap would clear it when it closes (cli.js:3985);
`Spawned` clears `ready` when the child is there, the code when the thread is asked
for (4010), with a change of status in between; a steer to a turn that has just
ended is taken here, and refused in `CodexTurns`.

Within `CodexTurns`: what a turn prints, images that fail, and the notification
`thread/started` (4193), which repeats the answer of `thread/start`. A refused
opening is never asked for again; a restart of the agent by the user is
`DaemonSessions`'.

Within `ReminderScheduler`: `NearOnesFire` speaks of reminders within reach of
one timer. A longer one is woken early, finds nothing due and is not scheduled
again (reminder-scheduler.js:309) until another reminder's timer or a restart
comes; a delivery that throws forgets the rest of its list, and so does a save that is
rejected (273), which is not a case of its own here. The message to the
owner is handed over once, and lost with a crash before the router has it.

Within `TeamSharingSync`: one session per cursor file; `PostedOnce` and
`CursorIsHonest` are about events, not their summaries, whose later processing
is not resumed after a restart (team-sharing-routes.js:6687) and may be
overwritten by an older one. A late answer moves the cursor back, which costs a
repeated batch and nothing else. An event keeps its hash: one that is sent again with
another text would be posted again (team-sharing.js:1615). A forced full upload and
the time reporting was switched on are not there. "On" said without an "off" drops
what came before it; that is what the code means.

Within `NotifyOwner`: one requester and group, their names resolved; the
confirmations of groups and of people, the grants every call writes back, the
cloud's side of a request and the audit log are left out, and so is a report
that does not arrive. That every call writes the grants back as it read them (352)
is left out, too. One decision and one card per confirmation are under way at a time,
while the plugin host runs: a decision of the command line during a recovery, a second
card for the same confirmation (1368), and a post whose later steps fail after it was
recorded as done (1660) are not there.

Within `StateSaves`: one process; two that share a database are left out, and so are
the rows of accounts. The reload a notification causes is, for each workspace, one of
the readers. A save names the workspace of its change; `persistState()` without one
writes the workspace of the connection only (state-core.js:895, as in
project-routes.js:166), and a workspace the database does not know is not
written and not reported (postgres-store.js:2708).

The relay's side of upgrades and of remote close was read and not modelled.
Several of its properties would be about statuses that three handlers overwrite:
a late `restarting` frame of the worker's repeat timer after `ready` has reported
success; an upgrade queued while the computer is away, which nothing sends; a
`succeeded` handoff that `ready` reports over a newer pending upgrade;
`rollback_succeeded` after `ready`; a refused upgrade whose agents keep waiting
for it; a daemon that dies while it waits to be idle. Each leaves a computer
whose deliveries are held until somebody upgrades again. They belong together in
a model of their own.

Not modelled at all, and not planned: routing of messages (scores and a
language model), the conversions of the Feishu integration, knowledge space and
project files (reading and indexing), mail, release notes, the speech demos,
packaging and deployment, rendering in the browser. The local runtimes of the
server (`server/agent-runtime`) are an older copy of the daemon's sessions.

## Plan

Done: `DeliveryRelay` with `DeliveryPromise`, `MarkdownOplog`, `DaemonSessions`
and `CodexTurns`, `RealtimeJournal`, `ReminderScheduler`, `TeamSharingSync`,
`StateSaves`, `NotifyOwner`. In this order:

1. **ComputerLifecycle**: connection, grace, upgrade, close and ready as
   writers of one status, `handleUpgrade` in its steps, the worker and the
   handoff of the daemon. An upgrade starts only without work; its end is known.
2. **Tasks**: claims, statuses, work items of deliveries; composed with
   DeliveryRelay for the work item of a deduplicated delivery.
3. **ProfileLock**, **Invitations**: small state machines of several processes.

The hazards in `PROJECT.json` that no property covers say which of these will.

## Working with the project

    tlasany DeliveryRelay.tla
    tlc -workers 2 -config MCDeliveryRestart.cfg MCDeliveryRelay
    tlapm DeliveryRelay_proofs.tla

The longest runs take three to four minutes. `DaemonSessions_proofs` takes ten
minutes, each of the other proof modules a few at most.
