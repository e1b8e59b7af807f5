----------------------------- MODULE StateSaves -----------------------------
(***************************************************************************)
(* How the server's state gets into PostgreSQL, in a deployment that       *)
(* requires it.  Requests change the state in memory, call persistState    *)
(* (server/state-core.js) and answer when it resolves.  Its calls form a   *)
(* chain; each takes a snapshot when its turn comes and hands it to the    *)
(* store (server/cloud/postgres-store.js), whose queues order the writes   *)
(* of a workspace, of everything, and of accounts, over a few connections. *)
(* Operations on accounts (server/cloud/auth.js) write past the chain, and *)
(* when they fail load the state from the database again.  So do ordinary  *)
(* requests, for a workspace: GET /api/bootstrap for a page of messages,   *)
(* GET /api/channel-path/resolve for all its lists.                        *)
(*                                                                         *)
(* A change is a number; memory and the database are the changes in them,  *)
(* by workspace.  Accounts' own rows are only added to, and left out.      *)
(***************************************************************************)
EXTENDS Naturals, Sequences, FiniteSets

CONSTANTS
  Workspaces,
  All,            \* in place of a workspace: a save of everything
  Operations,     \* operations on accounts
  Readers,        \* requests that load rows of a workspace into the state
  Slots,          \* writes of workspaces at a time (workspacePersistConcurrency)
  MaxSaves,       \* bound: calls of persistState by requests
  MaxFailures     \* bound: writes that fail

VARIABLES
  changes,        \* changes made so far
  memory,         \* the changes in the server's state, by workspace
  saves,          \* the chain: calls of persistState
  operation,      \* what each operation on accounts does
  tasks,          \* writes, in the order they were queued
  controlTail, authTail, workspaceTails,    \* the last one of each queue, 0 for none
  persisting, waiters,                          \* connections in use, writes that wait for one
  stored,         \* the changes in the database
  reader,         \* what each of those requests has read
  lost,           \* history: the changes that rows read before have undone
  failures

queues == <<tasks, controlTail, authTail, workspaceTails>>
slots == <<persisting, waiters>>
vars == <<changes, memory, saves, operation, queues, slots, stored, reader, lost, failures>>

Nothing == [w \in Workspaces |-> {}]
Idle == [at |-> "idle", of |-> 0, in |-> All, task |-> 0, save |-> 0, read |-> Nothing]
NoPage == [at |-> "idle", in |-> All, rows |-> {}]

Init ==
  /\ changes = 0 /\ memory = Nothing /\ stored = Nothing
  /\ saves = <<>> /\ operation = [o \in Operations |-> Idle]
  /\ tasks = <<>> /\ controlTail = 0 /\ authTail = 0
  /\ workspaceTails = [w \in Workspaces |-> 0]
  /\ persisting = 0 /\ waiters = <<>>
  /\ reader = [r \in Readers |-> NoPage] /\ lost = {}
  /\ failures = 0

-----------------------------------------------------------------------------
(* The queues of the store.  A write that has settled holds nobody up, as  *)
(* well or badly as it went.                                               *)

Settled(t) == tasks[t].at \in {"written", "failed"}
Tails == {workspaceTails[w] : w \in Workspaces}

Task(kind, in, rows, after) ==
  [kind |-> kind, in |-> in, rows |-> rows, after |-> after \ {0}, at |-> "queued"]

EnqueueWorkspacePersist(w, rows) ==
  /\ tasks' = Append(tasks, Task("workspace", w, rows, {controlTail, workspaceTails[w]}))
  /\ workspaceTails' = [workspaceTails EXCEPT ![w] = Len(tasks) + 1]
  /\ UNCHANGED <<controlTail, authTail>>

\* mutant: a write of everything does not wait for those of workspaces
NoBarrier(kind, rows) ==
  /\ tasks' = Append(tasks, Task(kind, All, rows, {controlTail, authTail}))
  /\ controlTail' = Len(tasks) + 1
  /\ UNCHANGED <<authTail, workspaceTails>>

EnqueueControlPlanePersist(kind, rows) ==
  /\ tasks' = Append(tasks, Task(kind, All, rows, {controlTail, authTail} \cup Tails))
  /\ controlTail' = Len(tasks) + 1
  /\ UNCHANGED <<authTail, workspaceTails>>

EnqueueAuthPersist ==
  /\ tasks' = Append(tasks, Task("operation", All, Nothing, {controlTail, authTail}))
  /\ authTail' = Len(tasks) + 1
  /\ UNCHANGED <<controlTail, workspaceTails>>

At(t, at) == [tasks EXCEPT ![t].at = at]

\* What a write waits for has settled: it runs, or waits for a connection.
StartTask(t) ==
  /\ tasks[t].at = "queued" /\ \A a \in tasks[t].after : Settled(a)
  /\ IF tasks[t].kind # "workspace"
       THEN tasks' = At(t, "runs") /\ UNCHANGED slots
     ELSE IF persisting < Slots
       THEN tasks' = At(t, "runs") /\ persisting' = persisting + 1 /\ UNCHANGED waiters
     ELSE tasks' = At(t, "waits") /\ waiters' = Append(waiters, t) /\ UNCHANGED persisting
  /\ UNCHANGED <<changes, memory, saves, operation, controlTail, authTail, workspaceTails,
                 stored, reader, lost, failures>>

\* mutant: a connection that is free is not handed on
FreedOnly(t, at) ==
  /\ tasks' = At(t, at)
  /\ persisting' = IF tasks[t].kind = "workspace" THEN persisting - 1 ELSE persisting
  /\ UNCHANGED waiters

\* mutant: a connection that is handed on is counted as free too
FreedTwice(t, at) ==
  IF tasks[t].kind = "workspace" /\ waiters # <<>>
  THEN /\ tasks' = [At(t, at) EXCEPT ![Head(waiters)].at = "runs"]
       /\ waiters' = Tail(waiters) /\ persisting' = persisting - 1
  ELSE FreedOnly(t, at)

\* The write settles; its connection goes to the first that waits for one.
Settle(t, at) ==
  IF tasks[t].kind = "workspace" /\ waiters # <<>>
  THEN /\ tasks' = [At(t, at) EXCEPT ![Head(waiters)].at = "runs"]
       /\ waiters' = Tail(waiters) /\ UNCHANGED persisting
  ELSE FreedOnly(t, at)

\* The transaction is committed: the rows of its workspaces are those of its snapshot.
Commit(t) ==
  /\ tasks[t].at = "runs"
  /\ Settle(t, "written")
  /\ stored' = CASE tasks[t].kind = "workspace" -> [stored EXCEPT ![tasks[t].in] = tasks[t].rows[tasks[t].in]]
                 [] tasks[t].kind = "full" -> tasks[t].rows
                 [] OTHER -> stored
  /\ UNCHANGED <<changes, memory, saves, operation, controlTail, authTail, workspaceTails,
                 reader, lost, failures>>

\* It is rolled back.
Fail(t) ==
  /\ tasks[t].at = "runs" /\ failures < MaxFailures
  /\ failures' = failures + 1
  /\ Settle(t, "failed")
  /\ UNCHANGED <<changes, memory, saves, operation, controlTail, authTail, workspaceTails,
                 stored, reader, lost>>

-----------------------------------------------------------------------------
(* Requests, and the chain of saves.                                       *)

Change(w) == changes' = changes + 1 /\ memory' = [memory EXCEPT ![w] = @ \cup {changes + 1}]

Call(in, of, kind) == [in |-> in, of |-> of, kind |-> kind, at |-> "chained", task |-> 0,
                       rows |-> {}]

\* A change, and the save that names its workspace: of the workspace, of everything,
\* or of a workspace a computer of which is deleted.
Save(w, kind) ==
  /\ Cardinality({s \in DOMAIN saves : saves[s].kind # "local"}) < MaxSaves
  /\ Change(w)
  /\ saves' = Append(saves, Call(w, changes + 1, kind))
  /\ UNCHANGED <<operation, queues, slots, stored, reader, lost, failures>>

Step(s, at) == saves' = [saves EXCEPT ![s].at = at]
Passed(s) == \A e \in 1 .. s - 1 : saves[e].at = "saved"

\* mutant: a save does not wait for the write
Forgotten(s) == tasks[saves[s].task].at # "failed"
Written(s) == tasks[saves[s].task].at = "written"

\* The turn of a save: the snapshot is taken and its write queued.
RunSave(s) ==
  /\ saves[s].at = "chained" /\ Passed(s)
  /\ IF saves[s].kind = "local"     \* skipExternal
     THEN Step(s, "saved") /\ UNCHANGED queues
     ELSE /\ saves' = [saves EXCEPT ![s].task = Len(tasks) + 1,
                                    ![s].at = IF saves[s].kind = "delete" THEN "deletes" ELSE "writes"]
          /\ CASE saves[s].kind = "workspace" -> EnqueueWorkspacePersist(saves[s].in, memory)
               [] saves[s].kind = "full" -> EnqueueControlPlanePersist("full", memory)
               [] saves[s].kind = "delete" -> EnqueueControlPlanePersist("delete", Nothing)
  /\ UNCHANGED <<changes, memory, operation, slots, stored, reader, lost, failures>>

\* The computer is deleted, and the workspace is written.  The snapshot shares its
\* lists with the state: what they hold now is written, but for lists that were
\* replaced meanwhile -- a deletion replaces one, rows that are read some or all.
LaterDeletions(s) == {saves[l].of : l \in {l \in s + 1 .. Len(saves) : saves[l].kind = "delete"}}
Versions(s) == {rows[saves[s].in] : rows \in saves[s].rows \cup {memory}}
ChangesMade == {operation[o].of : o \in Operations}
DeleteDone(s) ==
  /\ saves[s].at = "deletes" /\ Written(s)
  /\ \E written \in SUBSET UNION Versions(s) :
       /\ \A c \in (UNION Versions(s)) \ written :
            c \in LaterDeletions(s) \/ \E version \in Versions(s) : c \notin version
       /\ EnqueueWorkspacePersist(saves[s].in, [Nothing EXCEPT ![saves[s].in] = written])
       /\ lost' = lost \cup ((ChangesMade \cap memory[saves[s].in]) \ written)
  /\ saves' = [saves EXCEPT ![s].at = "writes", ![s].task = Len(tasks) + 1]
  /\ UNCHANGED <<changes, memory, operation, slots, stored, reader, failures>>

SaveDone(s) ==
  /\ saves[s].at = "writes" /\ Written(s)
  /\ Step(s, "saved")
  /\ UNCHANGED <<changes, memory, operation, queues, slots, stored, reader, lost, failures>>

\* A save whose write failed is rejected, and all behind it in the chain, for good.
RejectSave(s) ==
  /\ \/ saves[s].at \in {"deletes", "writes"} /\ tasks[saves[s].task].at = "failed"
     \/ saves[s].at = "chained" /\ \E e \in 1 .. s - 1 : saves[e].at = "rejected"
  /\ Step(s, "rejected")
  /\ UNCHANGED <<changes, memory, operation, queues, slots, stored, reader, lost, failures>>

-----------------------------------------------------------------------------
(* Operations on accounts.                                                 *)

Does(o, at, task) ==
  operation' = [operation EXCEPT ![o].at = at, ![o].task = task]

\* persistAuthOperation: a login, a password.
Login(o) ==
  /\ operation[o] = Idle
  /\ EnqueueAuthPersist
  /\ Does(o, "writes", Len(tasks) + 1)
  /\ UNCHANGED <<changes, memory, saves, slots, stored, reader, lost, failures>>

\* persistCloudState: an invitation, a member; it changes a workspace too.
Administer(o, w) ==
  /\ operation[o] = Idle
  /\ Change(w)
  /\ EnqueueControlPlanePersist("accounts", Nothing)
  /\ operation' = [operation EXCEPT ![o] =
       [Idle EXCEPT !.at = "directory", !.of = changes + 1, !.in = w, !.task = Len(tasks) + 1]]
  /\ UNCHANGED <<saves, slots, stored, reader, lost, failures>>

DirectoryDone(o) ==
  /\ operation[o].at = "directory" /\ tasks[operation[o].task].at = "written"
  /\ EnqueueWorkspacePersist(operation[o].in, memory)
  /\ Does(o, "writes", Len(tasks) + 1)
  /\ UNCHANGED <<changes, memory, saves, slots, stored, reader, lost, failures>>

\* The database has it; what is left is the chain, for the local files.
OperationWritten(o) ==
  /\ operation[o].at = "writes" /\ tasks[operation[o].task].at = "written"
  /\ saves' = Append(saves, Call(All, 0, "local"))
  /\ operation' = [operation EXCEPT ![o].at = "chained", ![o].save = Len(saves) + 1]
  /\ UNCHANGED <<changes, memory, queues, slots, stored, reader, lost, failures>>

OperationDone(o) ==
  /\ operation[o].at = "chained" /\ saves[operation[o].save].at = "saved"
  /\ operation' = [operation EXCEPT ![o].at = "done"]
  /\ UNCHANGED <<changes, memory, saves, queues, slots, stored, reader, lost, failures>>

\* A write or the chain failed: loadIntoState reads the database,
OperationFails(o) ==
  /\ \/ operation[o].at \in {"directory", "writes"} /\ tasks[operation[o].task].at = "failed"
     \/ operation[o].at = "chained" /\ saves[operation[o].save].at = "rejected"
  /\ operation' = [operation EXCEPT ![o].at = "reloads", ![o].read = stored]
  /\ UNCHANGED <<changes, memory, saves, queues, slots, stored, reader, lost, failures>>

\* Lists of the state are replaced; the snapshot of a deletion keeps the old ones.
Detach ==
  saves' = [s \in DOMAIN saves |->
             IF saves[s].at = "deletes" THEN [saves[s] EXCEPT !.rows = @ \cup {memory}]
             ELSE saves[s]]

\* and puts all of it in place of the state.
LoadIntoState(o) ==
  /\ operation[o].at = "reloads"
  /\ memory' = operation[o].read
  /\ lost' = lost \cup UNION {memory[w] \ operation[o].read[w] : w \in Workspaces}
  /\ Detach
  /\ operation' = [operation EXCEPT ![o].at = "failed"]
  /\ UNCHANGED <<changes, queues, slots, stored, reader, failures>>

-----------------------------------------------------------------------------
(* Requests that load rows into the state.                                 *)

\* loadConversationWindowIntoState, loadWorkspaceIntoState: rows are read, past the
\* queues and not in a transaction,
ReadRows(r, w) ==
  /\ reader[r] = NoPage
  /\ reader' = [reader EXCEPT ![r] = [at |-> "reads", in |-> w, rows |-> stored[w]]]
  /\ UNCHANGED <<changes, memory, saves, operation, queues, slots, stored, lost, failures>>

\* the last of them perhaps later than the first, and replace those of the state: a
\* page of messages, or all lists that have rows in the database.
TakeRows(r) ==
  LET in == reader[r].in
  IN /\ reader[r].at = "reads"
     /\ \E late \in SUBSET (stored[in] \ reader[r].rows), other \in SUBSET memory[in] :
          /\ memory' = [memory EXCEPT ![in] = reader[r].rows \cup late \cup other]
          /\ lost' = lost \cup (memory[in] \ (reader[r].rows \cup late \cup other))
     /\ Detach
     /\ reader' = [reader EXCEPT ![r].at = "done"]
     /\ UNCHANGED <<changes, operation, queues, slots, stored, failures>>

-----------------------------------------------------------------------------
RequestSteps ==
  \/ \E w \in Workspaces, kind \in {"workspace", "full", "delete"} : Save(w, kind)
  \/ \E o \in Operations : Login(o) \/ \E w \in Workspaces : Administer(o, w)

Chain == \E s \in DOMAIN saves : RunSave(s) \/ DeleteDone(s) \/ SaveDone(s) \/ RejectSave(s)

Accounts ==
  \E o \in Operations : DirectoryDone(o) \/ OperationWritten(o) \/ OperationDone(o)
                        \/ OperationFails(o) \/ LoadIntoState(o)

Reads == \E r \in Readers : TakeRows(r) \/ \E w \in Workspaces : ReadRows(r, w)

Next ==
  \/ RequestSteps \/ Chain \/ Accounts \/ Reads
  \/ \E t \in DOMAIN tasks : StartTask(t) \/ Commit(t) \/ Fail(t)

Spec == Init /\ [][Next]_vars

Fairness ==
  /\ WF_vars(Chain)
  /\ WF_vars(Accounts)
  /\ WF_vars(\E t \in DOMAIN tasks : StartTask(t) \/ Commit(t))

FairSpec == Spec /\ Fairness

-----------------------------------------------------------------------------
TaskTypes ==
  [kind : {"workspace", "full", "delete", "operation", "accounts"}, in : Workspaces \cup {All},
   rows : [Workspaces -> SUBSET (1 .. changes)], after : SUBSET (DOMAIN tasks),
   at : {"queued", "waits", "runs", "written", "failed"}]

TypeOK ==
  /\ changes \in Nat /\ memory \in [Workspaces -> SUBSET (1 .. changes)]
  /\ stored \in [Workspaces -> SUBSET (1 .. changes)]
  /\ \A s \in DOMAIN saves :
       /\ saves[s].kind \in {"workspace", "full", "delete", "local"}
       /\ saves[s].at \in {"chained", "deletes", "writes", "saved", "rejected"}
       /\ saves[s].of \in 0 .. changes /\ saves[s].task \in 0 .. Len(tasks)
  /\ \A o \in Operations :
       /\ operation[o].at \in {"idle", "directory", "writes", "chained", "done", "reloads", "failed"}
       /\ operation[o].of \in 0 .. changes /\ operation[o].task \in 0 .. Len(tasks)
       /\ operation[o].save \in 0 .. Len(saves)
  /\ \A t \in DOMAIN tasks : tasks[t] \in TaskTypes
  /\ {controlTail, authTail} \cup Tails \subseteq 0 .. Len(tasks)
  /\ persisting \in 0 .. Slots /\ waiters \in Seq(DOMAIN tasks)
  /\ failures \in 0 .. MaxFailures
  /\ reader \in [Readers -> [at : {"idle", "reads", "done"}, in : Workspaces \cup {All},
                              rows : SUBSET (1 .. changes)]]
  /\ lost \subseteq 1 .. changes

\* A write of everything -- or of a computer's deletion, or of all accounts -- has
\* the database to itself, and no two writes of a workspace, nor two operations on
\* accounts, run at the same time.
Runs(t) == tasks[t].at = "runs"
Conflict(t, u) ==
  \/ {tasks[t].kind, tasks[u].kind} \cap {"full", "delete", "accounts"} # {}
  \/ tasks[t].kind = tasks[u].kind /\ tasks[t].in = tasks[u].in
FullRunsAlone ==
  \A t, u \in DOMAIN tasks : t # u /\ Conflict(t, u) => ~ (Runs(t) /\ Runs(u))

\* When the server has answered that a request's change is saved, it is in the
\* database, and stays there -- unless rows that were read before it was stored have
\* replaced it in the state, or the older rows of a deletion's snapshot, which they
\* detached from the state, have replaced it in the database.
Answered ==
  {saves[s] : s \in {s \in DOMAIN saves : saves[s].kind # "local" /\ saves[s].at = "saved"}}
  \cup {operation[o] : o \in {o \in Operations : operation[o].of # 0 /\ operation[o].at = "done"}}
StoredUnlessLost == \A a \in Answered : a.of \in stored[a.in] \cup lost

\* Every save and every operation on accounts is answered, well or badly: nobody
\* waits for a write that waits for them, or for a connection nobody uses.
SavesSettle ==
  /\ \A o \in Operations : operation[o] # Idle ~> operation[o].at \in {"idle", "done", "failed"}
  /\ \A s \in 1 .. MaxSaves :
       s \in DOMAIN saves ~> s \in DOMAIN saves /\ saves[s].at \in {"saved", "rejected"}
=============================================================================
