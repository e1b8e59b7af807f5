----------------------------- MODULE MarkdownOplog -----------------------------
(***************************************************************************)
(* One Markdown document of an agent (MEMORY.md or a note) and the log of  *)
(* the operations applied to it: server/markdown-operations.js,            *)
(* server/markdown-oplog.js and server/markdown-maintenance.js.            *)
(*                                                                         *)
(* On disk there are the log, a manifest with the revision and the hash of *)
(* the document, and the document itself.  Operations on the document are  *)
(* queued and applied one at a time, in several writes; a write may fail   *)
(* and the process may end between any two of them.  The agent, or a user, *)
(* may edit the document without the log, and the maintenance sweep reads  *)
(* it, asks a language model for a rewrite and submits that.               *)
(*                                                                         *)
(* A document is the sequence of its bullets, newest first, and its hash   *)
(* is the document.  An idempotency key is the operation it is made from.  *)
(***************************************************************************)
EXTENDS Naturals, Sequences, SequencesExt

CONSTANTS
  Bullets,             \* the bullets an operation may insert
  NoBullet,            \* the bullet of an operation that inserts none
  MaxItems,            \* how many bullets an insertion leaves in the section
  MaxSubmissions,      \* bound: operations submitted by clients
  MaxSweeps,           \* bound: maintenance sweeps
  MaxEdits,            \* bound: edits that bypass the log
  MaxFaults            \* bound: failed writes and crashes

ASSUME BoundsAssumption ==
  /\ NoBullet \notin Bullets
  /\ MaxItems \in Nat \ {0}
  /\ MaxSubmissions \in Nat
  /\ MaxSweeps \in Nat
  /\ MaxEdits \in Nat
  /\ MaxFaults \in Nat

VARIABLES
  (* on disk *)
  log,                 \* the records of all segments, oldest first
  manifest,            \* its revision and documentHash; revision 0: no manifest
  file,                \* the document, or Missing
  (* in the process *)
  queue,               \* the promise chain of the document
  applying,            \* the operation applyNow is at work on
  sweep,               \* what the maintenance sweep has read of the document
  (* history and bounds *)
  answered,            \* operations a client was told ok of
  submissions, sweeps, edits, faults

disk == <<log, manifest, file>>
process == <<queue, applying, sweep>>
bounds == <<submissions, sweeps, edits, faults>>
vars == <<disk, process, answered, bounds>>

--------------------------------------------------------------------------------
(* Documents and operations *)

\* Documents: no bullet twice, and at most one for each.
Documents == {<<>>} \cup UNION {{s \in [1..n -> Bullets] :
               \A i, j \in 1..n : i # j => s[i] # s[j]} : n \in 1..MaxItems}
Missing == <<NoBullet>>              \* there is no file
DefaultContent == <<>>               \* defaultContentFor

\* at tells the rewrites of different sweeps apart.
Operation(type, bullet, document, at) ==
  [type |-> type, bullet |-> bullet, document |-> document, at |-> at]
Note(b) == Operation("upsert_bullet", b, <<>>, 0)
Rewrite(document, at) ==
  Operation("maintenance_rewrite", NoBullet, document, at)
Snapshot(document) == Operation("initial_snapshot", NoBullet, document, 0)
NoOperation == Operation("none", NoBullet, <<>>, 0)

\* What the filter for a bullet leaves: the document has it once at most.
Without(document, b) ==
  IF b \in Range(document)
  THEN RemoveAt(document, CHOOSE i \in DOMAIN document : document[i] = b)
  ELSE document

\* upsertMarkdownBullet: the bullet becomes the first of its section.
Upserted(document, b) ==
  LET bullets == <<b>> \o Without(document, b)
  IN  IF Len(bullets) > MaxItems THEN SubSeq(bullets, 1, MaxItems) ELSE bullets

\* applyMarkdownOperation
Applied(document, op) ==
  IF op.type = "upsert_bullet" THEN Upserted(document, op.bullet)
  ELSE op.document

\* rebuildMarkdownFromOplog.  Records are appended in the order of their
\* sequence numbers, so that sorting them changes nothing.
Rebuilt(records) ==
  LET after[n \in 0..Len(records)] ==
        IF n = 0 THEN DefaultContent
        ELSE Applied(after[n - 1], records[n].operation)
  IN  after[Len(records)]

NoManifest == [revision |-> 0, document |-> <<>>]
Idle == [step |-> "idle", operation |-> NoOperation, current |-> <<>>]

Logged(op) == \E i \in DOMAIN log : log[i].operation = op

Init ==
  /\ log = <<>>
  /\ manifest = NoManifest
  /\ file = Missing
  /\ queue = <<>>
  /\ applying = Idle
  /\ sweep = Missing
  /\ answered = {}
  /\ submissions = 0 /\ sweeps = 0 /\ edits = 0 /\ faults = 0

--------------------------------------------------------------------------------
(* Submissions *)

\* submitAgentMarkdownOperation.  A client may submit the same operation again.
Submit(op) ==
  /\ submissions < MaxSubmissions
  /\ submissions' = submissions + 1
  /\ queue' = Append(queue, op)
  /\ UNCHANGED <<disk, applying, sweep, answered, sweeps, edits, faults>>

\* The sweep reads the document; a sweep is over before the next begins.
SweepReads ==
  /\ sweeps < MaxSweeps
  /\ sweep = Missing
  /\ \A i \in DOMAIN queue : queue[i].at = 0
  /\ applying.operation.at = 0
  /\ file # Missing
  /\ sweeps' = sweeps + 1
  /\ sweep' = file
  /\ UNCHANGED <<disk, queue, applying, answered, submissions, edits, faults>>

\* Its rewrite keeps the bullets it has read.
SweepSubmits ==
  /\ sweep # Missing
  /\ queue' = Append(queue, Rewrite(sweep, sweeps))
  /\ sweep' = Missing
  /\ UNCHANGED <<disk, applying, answered, bounds>>

\* The language model fails, or its answer is refused.
SweepGivesUp ==
  /\ sweep # Missing
  /\ sweep' = Missing
  /\ UNCHANGED <<disk, queue, applying, answered, bounds>>

\* The agent or a user writes the file.
Edit(document) ==
  /\ edits < MaxEdits
  /\ edits' = edits + 1
  /\ file' = document
  /\ UNCHANGED <<log, manifest, process, answered, submissions, sweeps, faults>>

--------------------------------------------------------------------------------
(* applyNow *)

At(step) == applying.step = step

\* The next operation of the queue; the document is read first.
Begin ==
  /\ At("idle")
  /\ queue # <<>>
  /\ queue' = Tail(queue)
  /\ applying' = [step |-> "read", operation |-> Head(queue),
                  current |-> IF file = Missing THEN DefaultContent ELSE file]
  /\ UNCHANGED <<disk, sweep, answered, bounds>>

SnapshotsAgain ==          \* mutant: a log without a manifest starts afresh
  IF manifest # NoManifest
  THEN UNCHANGED <<log, manifest>> /\ applying' = [applying EXCEPT !.step = "open"]
  ELSE /\ log' = <<[sequence |-> 1, operation |-> Snapshot(applying.current)]>>
       /\ manifest' = manifest
       /\ applying' = [applying EXCEPT !.step = "created"]

\* ensureMarkdownDocumentLog: a log without a manifest gets one of what it
\* rebuilds to; a document without a log is its first record.
Opened ==
  \/ /\ manifest # NoManifest
     /\ UNCHANGED <<log, manifest>>
     /\ applying' = [applying EXCEPT !.step = "open"]
  \/ /\ manifest = NoManifest
     /\ log # <<>>
     /\ manifest' = [revision |-> log[Len(log)].sequence,
                     document |-> Rebuilt(log)]
     /\ log' = log
     /\ applying' = [applying EXCEPT !.step = "open"]
  \/ /\ manifest = NoManifest
     /\ log = <<>>
     /\ log' = <<[sequence |-> 1, operation |-> Snapshot(applying.current)]>>
     /\ manifest' = manifest
     /\ applying' = [applying EXCEPT !.step = "created"]

OpenLog ==
  /\ At("read")
  /\ Opened
  /\ UNCHANGED <<file, queue, sweep, answered, bounds>>

CreateManifest ==
  /\ At("created")
  /\ manifest' = [revision |-> 1, document |-> applying.current]
  /\ applying' = [applying EXCEPT !.step = "open"]
  /\ UNCHANGED <<log, file, queue, sweep, answered, bounds>>

Known(op) == op \in answered  \* mutant: only what was answered is a duplicate

SameText(op) ==            \* mutant: the key is made from the bullet alone
  \E i \in DOMAIN log : log[i].operation.bullet = op.bullet

\* findMarkdownOperationByIdempotencyKey
Duplicate(op) == Logged(op)

\* An operation that is in the log is answered, not applied.
Dedupe ==
  /\ At("open")
  /\ Duplicate(applying.operation)
  /\ answered' = answered \cup {applying.operation}
  /\ applying' = Idle
  /\ UNCHANGED <<disk, queue, sweep, bounds>>

NoRepair ==                \* mutant: what the file says goes
  /\ file' = file
  /\ applying' = [applying EXCEPT !.step = "ready"]

\* repairMaterializedFile: a document the manifest does not know is replaced
\* by what the log rebuilds to.
Repaired ==
  \/ /\ applying.current = manifest.document
     /\ file' = file
     /\ applying' = [applying EXCEPT !.step = "ready"]
  \/ /\ applying.current # manifest.document
     /\ file' = Rebuilt(log)
     /\ applying' = [applying EXCEPT !.step = "ready", !.current = Rebuilt(log)]

Check ==
  /\ At("open")
  /\ ~Duplicate(applying.operation)
  /\ Repaired
  /\ UNCHANGED <<log, manifest, queue, sweep, answered, bounds>>

Counted == Len(log) + 1    \* mutant: records are numbered by their place

NextSequence == manifest.revision + 1

\* appendMarkdownOperationRecord: the log first ...
AppendRecord ==
  /\ At("ready")
  /\ log' = Append(log, [sequence |-> NextSequence,
                         operation |-> applying.operation])
  /\ applying' = [applying EXCEPT !.step = "appended"]
  /\ UNCHANGED <<manifest, file, queue, sweep, answered, bounds>>

After == Applied(applying.current, applying.operation)

\* ... then the manifest ...
WriteManifest ==
  /\ At("appended")
  /\ manifest' = [revision |-> manifest.revision + 1, document |-> After]
  /\ applying' = [applying EXCEPT !.step = "saved"]
  /\ UNCHANGED <<log, file, queue, sweep, answered, bounds>>

\* ... then the document, and the answer.
WriteFile ==
  /\ At("saved")
  /\ file' = After
  /\ answered' = answered \cup {applying.operation}
  /\ applying' = Idle
  /\ UNCHANGED <<log, manifest, queue, sweep, bounds>>

--------------------------------------------------------------------------------
(* Faults *)

StuckAfterFailure ==       \* mutant: the chain does not go on
  [Idle EXCEPT !.step = "failed"]

\* What applyNow is at work on after a write failed: nothing.
AfterFailure == Idle

\* The next write fails and the operation is answered with an error.
WriteFails ==
  /\ faults < MaxFaults
  /\ ~At("idle")
  /\ faults' = faults + 1
  /\ applying' = AfterFailure
  /\ UNCHANGED <<disk, queue, sweep, answered, submissions, sweeps, edits>>

\* The process ends and a new one starts; clients may submit again.
Crash ==
  /\ faults < MaxFaults
  /\ faults' = faults + 1
  /\ queue' = <<>>
  /\ applying' = Idle
  /\ sweep' = Missing
  /\ UNCHANGED <<disk, answered, submissions, sweeps, edits>>

--------------------------------------------------------------------------------
Apply ==
  Begin \/ OpenLog \/ CreateManifest \/ Dedupe \/ Check \/ AppendRecord
    \/ WriteManifest \/ WriteFile

Next ==
  \/ \E b \in Bullets : Submit(Note(b))
  \/ \E document \in Documents : Submit(Rewrite(document, 0)) \/ Edit(document)
  \/ SweepReads \/ SweepSubmits \/ SweepGivesUp
  \/ Apply
  \/ WriteFails
  \/ Crash

Spec == Init /\ [][Next]_vars

\* A promise chain goes on as long as the process lives.
FairSpec == Spec /\ WF_vars(Apply)

--------------------------------------------------------------------------------
(* Properties *)

Steps == {"idle", "read", "created", "open", "ready", "appended", "saved"}
Operations == [type : {"upsert_bullet", "maintenance_rewrite",
                       "initial_snapshot", "none"},
               bullet : Bullets \cup {NoBullet},
               document : Documents \cup {Missing},
               at : 0..MaxSweeps]

\* Type invariant.
TypeOK ==
  /\ log \in Seq([sequence : Nat \ {0}, operation : Operations])
  /\ manifest \in [revision : Nat, document : Documents]
  /\ file \in Documents \cup {Missing}
  /\ queue \in Seq(Operations)
  /\ applying \in [step : Steps, operation : Operations, current : Documents]
  /\ sweep \in Documents \cup {Missing}
  /\ answered \subseteq Operations
  /\ submissions \in 0..MaxSubmissions
  /\ sweeps \in 0..MaxSweeps
  /\ edits \in 0..MaxEdits
  /\ faults \in 0..MaxFaults

\* An operation is in the log once at most, whatever is retried and wherever
\* a write failed or the process ended (markdown-operations.js, the search of
\* the log for the idempotency key; "exactly-once writes" in its tests).
OncePerKey ==
  \A i, j \in DOMAIN log :
    log[i].operation = log[j].operation => i = j

\* What a client was told ok of is in the log: no crash loses it, and a key
\* is never taken for that of another operation.
AnsweredIsLogged == \A op \in answered : Logged(op)

\* The manifest says what the last record is, or the one before a record that
\* was appended without it (appendMarkdownOperationRecord), and records are
\* numbered in the order they are appended, so that the sort by sequence in
\* readMarkdownOperationRecords never reorders them.
RevisionInStep ==
  /\ \A i \in 1..(Len(log) - 1) : log[i].sequence <= log[i + 1].sequence
  /\ log = <<>> => manifest = NoManifest
  /\ log # <<>> =>
       manifest.revision \in {log[Len(log)].sequence, log[Len(log)].sequence - 1}

\* A record, once written, stays where it is: a document can be replayed up to
\* any of its revisions, also after a crash between the first record and the
\* manifest (ensureMarkdownDocumentLog).
LogOnlyGrows ==
  [][Len(log') >= Len(log) /\ SubSeq(log', 1, Len(log)) = log]_log

\* When an operation is answered for the first time the document is what its
\* log rebuilds to, this operation included, whatever was done to the file
\* before.
AnsweredIsBuilt ==
  [][answered' # answered => file' = Rebuilt(log')]_vars

\* The same as long as no write has failed and no process has crashed.
BuiltUntilFault ==
  [][answered' # answered /\ faults = 0 => file' = Rebuilt(log')]_vars

\* The rewrite of a maintenance sweep keeps the bullets of the document.
SweepKeepsBullets ==
  [][applying.operation.at # 0 =>
       \A i \in DOMAIN file : \E j \in DOMAIN file' : file'[j] = file[i]]_file

\* An operation that fails does not hold up those behind it
\* (submitAgentMarkdownOperation: the chain catches the failure of the
\* previous operation).
QueueDrains == []<>(queue = <<>> /\ At("idle"))

================================================================================
