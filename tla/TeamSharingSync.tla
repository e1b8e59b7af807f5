-------------------------- MODULE TeamSharingSync --------------------------
(***************************************************************************)
(* The transcript of a coding session is shared with a channel by hooks    *)
(* (team-sharing/src): each is a process that reads the transcript, looks  *)
(* whether the user has turned reporting off or on in it, and posts what   *)
(* follows the cursor, a file they all share.  Several run at once.        *)
(*                                                                         *)
(* The server (server/team-sharing.js) adds the events it does not have to *)
(* a thread, saves, and answers.  Requests and answers are lost, and the   *)
(* server restarts from its last save.                                     *)
(*                                                                         *)
(* An event is its place in the transcript.                                *)
(***************************************************************************)
EXTENDS Naturals, Sequences, FiniteSets

CONSTANTS
  Hooks,          \* syncs that may be under way at a time
  MaxEvents,      \* bound: events of the transcript
  MaxCommands,    \* bound: commands that set reporting for the session
  MaxLosses       \* bound: lost requests and answers, restarts of the server

VARIABLES
  transcript,     \* the session: "text", or a user's "off" or "on" for reporting
  cursor,         \* the cursor file: the last event dealt with
  reporting,      \* the overrides file: is the session reported
  commands,       \* commands given so far
  hook,           \* what each sync does, and the part of the transcript it is about
  received, ledger, replies,  \* the server: events, batches, messages of the thread
  persisted,         \* the server's last save
  losses

client == <<transcript, cursor, reporting, commands>>
server == <<received, ledger, replies, persisted>>
vars == <<client, hook, server, losses>>

Ordinals == 1 .. MaxEvents
Idle == [at |-> "idle", from |-> 0, to |-> 0]

Init ==
  /\ transcript = <<>> /\ cursor = 0 /\ reporting = TRUE /\ commands = 0
  /\ hook = [h \in Hooks |-> Idle]
  /\ received = {} /\ ledger = {} /\ replies = [e \in Ordinals |-> 0]
  /\ persisted = [received |-> {}, ledger |-> {}, replies |-> [e \in Ordinals |-> 0]]
  /\ losses = 0

-----------------------------------------------------------------------------
(* The user.                                                               *)

Say(kind) ==
  /\ Len(transcript) < MaxEvents
  /\ transcript' = Append(transcript, kind)
  /\ UNCHANGED <<cursor, reporting, commands, hook, server, losses>>

\* team-sharing session-reporting off, on.
SetReporting(report) ==
  /\ commands < MaxCommands
  /\ commands' = commands + 1
  /\ reporting' = report
  /\ UNCHANGED <<transcript, cursor, hook, server, losses>>

-----------------------------------------------------------------------------
(* A sync.                                                                 *)

Intents(n) == {e \in 1 .. n : transcript[e] # "text"}

\* latestTeamSharingSessionReportingIntent: the place of the last of them, or 0.
LatestIntent(n) == IF Intents(n) = {} THEN 0 ELSE CHOOSE e \in Intents(n) : \A f \in Intents(n) : f <= e

Step(h, at) == hook' = [hook EXCEPT ![h].at = at]

CursorDecides(n) == 0            \* mutant: a resumed session goes on from the cursor

\* Where a resumed session starts: at the message that resumes it; 0 if none does.
ResumesAt(n) ==
  IF LatestIntent(n) # 0 /\ transcript[LatestIntent(n)] = "on" THEN LatestIntent(n) ELSE 0

\* The transcript is read, and decides, if there is a word about reporting in it.
StartSync(h) ==
  /\ hook[h] = Idle /\ transcript # <<>>
  /\ LET n == Len(transcript) IN
     hook' = [hook EXCEPT ![h] =
       [at |-> IF LatestIntent(n) = 0 THEN "undecided" ELSE transcript[LatestIntent(n)],
        from |-> ResumesAt(n), to |-> n]]
  /\ UNCHANGED <<client, server, losses>>

\* The override of the session is written; one that is on goes on to the cursor.
WriteOverride(h) ==
  /\ hook[h].at \in {"off", "on"}
  /\ reporting' = (hook[h].at = "on")
  /\ Step(h, IF hook[h].at = "on" THEN "package" ELSE "skip")
  /\ UNCHANGED <<transcript, cursor, commands, server, losses>>

ReadOverride(h) ==
  /\ hook[h].at = "undecided"
  /\ Step(h, IF reporting THEN "package" ELSE "skip")
  /\ UNCHANGED <<client, server, losses>>

\* What is not to be reported is passed over for good.
SkipTo(h) ==
  /\ hook[h].at = "skip"
  /\ cursor' = hook[h].to
  /\ hook' = [hook EXCEPT ![h] = Idle]
  /\ UNCHANGED <<transcript, reporting, commands, server, losses>>

\* The events after the cursor, or from the resuming message on, are posted.
Package(h) ==
  /\ hook[h].at = "package"
  /\ LET from == IF hook[h].from # 0 THEN hook[h].from ELSE cursor + 1 IN
     hook' = [hook EXCEPT ![h] =
       IF from > hook[h].to THEN Idle ELSE [at |-> "posted", from |-> from, to |-> @.to]]
  /\ UNCHANGED <<client, server, losses>>

\* writeTeamSharingCursor, when the answer is ok.
WriteCursor(h) ==
  /\ hook[h].at = "answered"
  /\ cursor' = hook[h].to
  /\ hook' = [hook EXCEPT ![h] = Idle]
  /\ UNCHANGED <<transcript, reporting, commands, server, losses>>

\* The request or its answer is lost, at once or when the client no longer waits.
Lose(h) ==
  /\ hook[h].at \in {"posted", "accepted", "answered"} /\ losses < MaxLosses
  /\ losses' = losses + 1
  /\ hook' = [hook EXCEPT ![h] = Idle]
  /\ UNCHANGED <<client, server>>

-----------------------------------------------------------------------------
(* The server.                                                             *)

Batch(h) == <<hook[h].from, hook[h].to>>

AllOfThem(h) == hook[h].from .. hook[h].to     \* mutant: only whole batches are compared
FromTheCursor(h) == (hook[h].from - 1) .. hook[h].to     \* mutant: the cursor's event too

\* Events the thread does not have; none of a batch it has had.
NewEvents(h) ==
  IF Batch(h) \in ledger THEN {} ELSE (hook[h].from .. hook[h].to) \ received

Accept(h) ==
  /\ hook[h].at = "posted"
  /\ received' = received \cup NewEvents(h)
  /\ ledger' = ledger \cup {Batch(h)}
  /\ replies' = [e \in Ordinals |-> IF e \in NewEvents(h) THEN replies[e] + 1 ELSE replies[e]]
  /\ Step(h, "accepted")
  /\ UNCHANGED <<client, persisted, losses>>

Unsaved == persisted                \* mutant: the answer does not wait for the save
State == [received |-> received, ledger |-> ledger, replies |-> replies]

\* persistState has saved the server, and the batch is answered.
Persist(h) ==
  /\ hook[h].at = "accepted"
  /\ persisted' = State
  /\ Step(h, "answered")
  /\ UNCHANGED <<client, received, ledger, replies, losses>>

\* A restart: requests under way fail.
Restart ==
  /\ losses < MaxLosses /\ losses' = losses + 1
  /\ received' = persisted.received /\ ledger' = persisted.ledger /\ replies' = persisted.replies
  /\ hook' = [h \in Hooks |-> IF hook[h].at \in {"posted", "accepted"} THEN Idle ELSE hook[h]]
  /\ UNCHANGED <<client, persisted>>

-----------------------------------------------------------------------------
Next ==
  \/ \E kind \in {"text", "off", "on"} : Say(kind)
  \/ \E report \in BOOLEAN : SetReporting(report)
  \/ \E h \in Hooks :
       \/ StartSync(h) \/ WriteOverride(h) \/ ReadOverride(h) \/ SkipTo(h)
       \/ Package(h) \/ WriteCursor(h) \/ Lose(h) \/ Accept(h) \/ Persist(h)
  \/ Restart

Spec == Init /\ [][Next]_vars

-----------------------------------------------------------------------------
TypeOK ==
  /\ Len(transcript) <= MaxEvents /\ \A e \in DOMAIN transcript : transcript[e] \in {"text", "off", "on"}
  /\ cursor \in 0 .. MaxEvents /\ reporting \in BOOLEAN /\ commands \in 0 .. MaxCommands
  /\ hook \in [Hooks -> [at : {"idle", "undecided", "off", "on", "skip", "package", "posted",
                               "accepted", "answered"},
                         from : 0 .. MaxEvents, to : 0 .. MaxEvents]]
  /\ received \subseteq Ordinals /\ ledger \subseteq Ordinals \X Ordinals
  /\ replies \in [Ordinals -> Nat] /\ losses \in 0 .. MaxLosses

\* What is said after the user turned reporting off in the session, and before
\* it is turned on again, never reaches the server, however many hooks run, late
\* or at once.
PrivateStaysLocal ==
  \A e \in received : LatestIntent(e) # 0 => transcript[LatestIntent(e)] = "on"

\* An event is one message of the thread: batches overlap, and are sent again.
PostedOnce == \A e \in Ordinals : replies[e] <= 1

\* The cursor passes nothing by that the user wants reported -- what follows the
\* last word on it, if that is not to stop: it is saved on the server, and stays
\* there over restarts.
Wanted(e) ==
  LET l == LatestIntent(Len(transcript))
  IN l <= e /\ (l # 0 => transcript[l] = "on")
CursorIsHonest ==
  commands = 0 =>
    \A e \in DOMAIN transcript : e <= cursor /\ Wanted(e) => e \in received /\ e \in persisted.received
=============================================================================
