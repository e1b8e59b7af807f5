-------------------------- MODULE StateSaves_proofs --------------------------
(***************************************************************************)
(* Theorems about StateSaves, for any workspaces, saves, operations on     *)
(* accounts, connections and failures: writes that conflict never run at   *)
(* the same time, connections are neither lost nor given out twice, and    *)
(* what was answered as saved is in the database, unless rows that were    *)
(* read before have replaced it in the state.                              *)
(*                                                                         *)
(* A write waits only for the tails its queues had when it was queued.     *)
(* That this orders all writes that conflict is the argument: each of them *)
(* stands behind such a tail, and a write that has settled has only        *)
(* settled conflicting writes before it.                                   *)
(***************************************************************************)
EXTENDS StateSaves, FiniteSetTheorems, SequenceTheorems, TLAPS

\* A pool has a number of connections; the bound on failures is the model's own.
Bounds == Slots \in Nat /\ MaxFailures \in Nat

Control == {"full", "delete", "accounts"}
Snapshots == [Workspaces -> SUBSET (1 .. changes)]

SaveTypes ==
  [in : Workspaces \cup {All}, of : 0 .. changes, kind : {"workspace", "full", "delete", "local"},
   at : {"chained", "deletes", "writes", "saved", "rejected"}, task : 0 .. Len(tasks),
   rows : SUBSET Snapshots]

OperationTypes ==
  [at : {"idle", "directory", "writes", "chained", "done", "reloads", "failed"},
   of : 0 .. changes, in : Workspaces \cup {All}, task : 0 .. Len(tasks),
   save : 0 .. Len(saves), read : Snapshots]

ReaderTypes ==
  [at : {"idle", "reads", "done"}, in : Workspaces \cup {All}, rows : SUBSET (1 .. changes)]

Typed ==
  /\ changes \in Nat /\ memory \in Snapshots /\ stored \in Snapshots
  /\ saves \in Seq(SaveTypes) /\ operation \in [Operations -> OperationTypes]
  /\ tasks \in Seq(TaskTypes) /\ waiters \in Seq(DOMAIN tasks)
  /\ controlTail \in 0 .. Len(tasks) /\ authTail \in 0 .. Len(tasks)
  /\ workspaceTails \in [Workspaces -> 0 .. Len(tasks)]
  /\ failures \in 0 .. MaxFailures
  /\ lost \subseteq 1 .. changes /\ reader \in [Readers -> ReaderTypes]
  /\ \A r \in Readers : reader[r].at = "reads" => reader[r].in \in Workspaces
  /\ \A t \in DOMAIN tasks :
       /\ tasks[t].kind = "workspace" => tasks[t].in \in Workspaces
       /\ tasks[t].kind = "operation" => tasks[t].in = All

(***************************************************************************)
(* The queues.                                                             *)
(***************************************************************************)

\* The queue a write is in, by its last one.
TailOf(t) ==
  IF tasks[t].kind = "workspace" THEN workspaceTails[tasks[t].in]
  ELSE IF tasks[t].kind \in Control THEN controlTail ELSE authTail

\* The tail of a queue is one of its writes, and none of them is behind it.
TailsReach ==
  \A t \in DOMAIN tasks :
    TailOf(t) \in t .. Len(tasks) /\ (TailOf(t) = t \/ Conflict(t, TailOf(t)))

\* Of a write queued before that conflicts, a write waits for it or for one that
\* conflicts with it and was queued later.
AfterReaches ==
  \A u \in DOMAIN tasks :
    /\ tasks[u].after \subseteq 1 .. u - 1
    /\ \A t \in 1 .. u - 1 :
         Conflict(t, u) => \E a \in tasks[u].after : a = t \/ (t < a /\ Conflict(t, a))

\* Once a write is let go, those before it that conflict have settled.
OrderKept ==
  \A u \in DOMAIN tasks : \A t \in 1 .. u - 1 :
    tasks[u].at # "queued" /\ Conflict(t, u) => Settled(t)

\* Those that wait for a connection are writes of workspaces, each once.
WaitersWait ==
  /\ \A i \in DOMAIN waiters :
       tasks[waiters[i]].at = "waits" /\ tasks[waiters[i]].kind = "workspace"
  /\ \A i, j \in DOMAIN waiters : i # j => waiters[i] # waiters[j]

\* The connections in use are those of the writes that run.
Connected == {t \in DOMAIN tasks : tasks[t].kind = "workspace" /\ Runs(t)}
SlotsCounted == persisting = Cardinality(Connected) /\ persisting <= Slots

QueueInv == TailsReach /\ AfterReaches /\ OrderKept /\ WaitersWait /\ SlotsCounted

(***************************************************************************)
(* The chain and the operations.                                           *)
(***************************************************************************)

\* A save that has had its turn has only saved ones before it.
ChainKept ==
  \A s \in DOMAIN saves : saves[s].at \in {"deletes", "writes", "saved"} => Passed(s)

\* Where a write is awaited there is one; a call for the local files has none.
Awaited ==
  /\ \A s \in DOMAIN saves :
       /\ saves[s].at = "deletes" => saves[s].kind = "delete"
       /\ saves[s].at \in {"deletes", "writes"} => saves[s].kind # "local"
       /\ saves[s].at \in {"deletes", "writes", "saved"} /\ saves[s].kind # "local" =>
            saves[s].task # 0
       /\ saves[s].kind # "local" => saves[s].in \in Workspaces /\ saves[s].of # 0
       /\ saves[s].at = "saved" /\ saves[s].kind # "local" => tasks[saves[s].task].at = "written"
  /\ \A o \in Operations :
       /\ operation[o].at \in {"directory", "writes", "chained", "done"} => operation[o].task # 0
       /\ operation[o].at = "chained" => operation[o].save # 0
       /\ operation[o].at = "directory" => operation[o].of # 0
       /\ operation[o].of # 0 => operation[o].in \in Workspaces
       /\ operation[o].at = "idle" => operation[o] = Idle
       /\ operation[o].at \in {"chained", "done"} => tasks[operation[o].task].at = "written"

\* Every change is made by one request.
OneRequest ==
  /\ \A s, r \in DOMAIN saves :
       saves[s].kind # "local" /\ saves[r].kind # "local" /\ saves[s].of = saves[r].of => s = r
  /\ \A s \in DOMAIN saves, o \in Operations :
       saves[s].kind # "local" /\ operation[o].of # 0 => saves[s].of # operation[o].of

\* A change of a workspace is safe in a write of it: this one has it, and so has
\* every later one, and the database, once it is written.
Covers(t, w) == tasks[t].kind = "full" \/ (tasks[t].kind = "workspace" /\ tasks[t].in = w)
SafeIn(c, w, t) ==
  /\ Covers(t, w)
  /\ \A u \in t .. Len(tasks) : Covers(u, w) => c \in tasks[u].rows[w]
  /\ tasks[t].at = "written" => c \in stored[w]

\* But for what is lost, memory has every change that may be answered, and the write
\* a save or an operation waits for has its change.
ChangesKept ==
  /\ \A s \in DOMAIN saves :
       saves[s].kind # "local" /\ saves[s].of \notin lost => saves[s].of \in memory[saves[s].in]
  /\ \A o \in Operations :
       operation[o].of # 0 /\ operation[o].of \notin lost =>
         operation[o].of \in memory[operation[o].in]
  /\ \A s \in DOMAIN saves :
       saves[s].at \in {"writes", "saved"} /\ saves[s].kind # "local" /\ saves[s].of \notin lost =>
         SafeIn(saves[s].of, saves[s].in, saves[s].task)
  /\ \A o \in Operations :
       operation[o].at \in {"writes", "chained", "done"} /\ operation[o].of # 0
         /\ operation[o].of \notin lost =>
           SafeIn(operation[o].of, operation[o].in, operation[o].task)

\* Lists that a deletion's snapshot has kept have the changes saved up to it.
SnapshotsKept ==
  \A s \in DOMAIN saves : \A rows \in saves[s].rows : \A r \in 1 .. s :
    saves[r].kind # "local" /\ saves[r].of \notin lost => saves[r].of \in rows[saves[r].in]

Inv ==
  /\ Typed /\ QueueInv
  /\ ChainKept /\ Awaited /\ OneRequest /\ ChangesKept /\ SnapshotsKept

-----------------------------------------------------------------------------
(* Types.                                                                  *)

\* A sequence that is extended.
LEMMA AppendTyped ==
  ASSUME NEW S, NEW T, S \subseteq T, NEW seq \in Seq(S), NEW e \in T
  PROVE  /\ Append(seq, e) \in Seq(T) /\ Len(Append(seq, e)) = Len(seq) + 1
         /\ DOMAIN Append(seq, e) = 1 .. Len(seq) + 1 /\ DOMAIN seq = 1 .. Len(seq)
         /\ \A i \in 1 .. Len(seq) : Append(seq, e)[i] = seq[i]
         /\ Append(seq, e)[Len(seq) + 1] = e
<1>1. seq \in Seq(T)
  BY SeqMonotonic
<1>2. QED BY <1>1, AppendProperties, LenProperties

\* A sequence of which one place is replaced.
LEMMA ExceptTyped ==
  ASSUME NEW S, NEW T, S \subseteq T, NEW seq \in Seq(S), NEW i \in DOMAIN seq, NEW e \in T
  PROVE  /\ [seq EXCEPT ![i] = e] \in Seq(T) /\ Len([seq EXCEPT ![i] = e]) = Len(seq)
         /\ DOMAIN [seq EXCEPT ![i] = e] = DOMAIN seq
         /\ \A j \in DOMAIN seq : [seq EXCEPT ![i] = e][j] = IF j = i THEN e ELSE seq[j]
<1>1. seq \in Seq(T) /\ DOMAIN seq = 1 .. Len(seq)
  BY SeqMonotonic, LenProperties
<1>2. QED BY <1>1, ExceptSeq

\* Nothing is taken back: changes, writes and calls only grow in number.
Grows ==
  /\ changes \in Nat /\ changes' \in Nat /\ changes <= changes'
  /\ Len(tasks) \in Nat /\ Len(tasks') \in Nat /\ Len(tasks) <= Len(tasks')
  /\ Len(saves) \in Nat /\ Len(saves') \in Nat /\ Len(saves) <= Len(saves')
  /\ DOMAIN tasks = 1 .. Len(tasks) /\ DOMAIN tasks' = 1 .. Len(tasks')

\* What had a type keeps it in what only grows.
LEMMA TypesGrow ==
  ASSUME Grows
  PROVE  /\ Snapshots \subseteq Snapshots' /\ SaveTypes \subseteq SaveTypes'
         /\ OperationTypes \subseteq OperationTypes' /\ TaskTypes \subseteq TaskTypes'
         /\ ReaderTypes \subseteq ReaderTypes' /\ 1 .. changes \subseteq 1 .. changes'
<1>1. /\ 1 .. changes \subseteq 1 .. changes' /\ 0 .. changes \subseteq 0 .. changes'
      /\ 0 .. Len(tasks) \subseteq 0 .. Len(tasks') /\ 0 .. Len(saves) \subseteq 0 .. Len(saves')
      /\ DOMAIN tasks \subseteq DOMAIN tasks'
  BY DEF Grows
<1>2. Snapshots \subseteq Snapshots'
  BY <1>1 DEF Snapshots
<1>3. SaveTypes \subseteq SaveTypes'
  BY <1>1, <1>2 DEF SaveTypes
<1>4. OperationTypes \subseteq OperationTypes'
  BY <1>1, <1>2 DEF OperationTypes
<1>5. TaskTypes \subseteq TaskTypes'
  <2>1. SUBSET DOMAIN tasks \subseteq SUBSET DOMAIN tasks'
    BY <1>1
  <2>2. QED BY <1>2, <2>1 DEF TaskTypes, Snapshots
<1>6. ReaderTypes \subseteq ReaderTypes'
  BY <1>1 DEF ReaderTypes
<1>7. QED BY <1>1, <1>2, <1>3, <1>4, <1>5, <1>6

\* The parts of Typed, for steps that touch some of them.
TypedTasks ==
  /\ tasks \in Seq(TaskTypes)
  /\ controlTail \in 0 .. Len(tasks) /\ authTail \in 0 .. Len(tasks)
  /\ workspaceTails \in [Workspaces -> 0 .. Len(tasks)]
  /\ \A t \in DOMAIN tasks :
       /\ tasks[t].kind = "workspace" => tasks[t].in \in Workspaces
       /\ tasks[t].kind = "operation" => tasks[t].in = All

\* A queue takes a write; the writes before it stay as they are.
Queued(kind, in, rows) ==
  \E after \in SUBSET (DOMAIN tasks) :
    /\ tasks' = Append(tasks, [kind |-> kind, in |-> in, rows |-> rows, after |-> after,
                               at |-> "queued"])
    /\ controlTail' \in {controlTail, Len(tasks) + 1}
    /\ authTail' \in {authTail, Len(tasks) + 1}
    /\ \/ workspaceTails' = workspaceTails
       \/ in \in Workspaces /\ workspaceTails' = [workspaceTails EXCEPT ![in] = Len(tasks) + 1]

\* Each of the three queues takes a write.
LEMMA EnqueueIs ==
  ASSUME Typed
  PROVE  /\ \A w \in Workspaces : \A rows :
               EnqueueWorkspacePersist(w, rows) => Queued("workspace", w, rows)
         /\ \A kind, rows : EnqueueControlPlanePersist(kind, rows) => Queued(kind, All, rows)
         /\ EnqueueAuthPersist => Queued("operation", All, Nothing)
<1>1. DOMAIN tasks = 1 .. Len(tasks) /\ Len(tasks) \in Nat
  BY LenProperties DEF Typed
<1>2. /\ controlTail \in 0 .. Len(tasks) /\ authTail \in 0 .. Len(tasks)
      /\ \A w \in Workspaces : workspaceTails[w] \in 0 .. Len(tasks)
  BY DEF Typed
<1>3. Tails \subseteq 0 .. Len(tasks)
  BY <1>2 DEF Tails
<1>4. ASSUME NEW w \in Workspaces, NEW rows, EnqueueWorkspacePersist(w, rows)
      PROVE  Queued("workspace", w, rows)
  <2>1. {controlTail, workspaceTails[w]} \ {0} \in SUBSET (DOMAIN tasks)
    BY <1>1, <1>2
  <2>2. QED BY <1>4, <2>1 DEF EnqueueWorkspacePersist, Task, Queued
<1>5. ASSUME NEW kind, NEW rows, EnqueueControlPlanePersist(kind, rows)
      PROVE  Queued(kind, All, rows)
  <2>1. ({controlTail, authTail} \cup Tails) \ {0} \in SUBSET (DOMAIN tasks)
    BY <1>1, <1>2, <1>3
  <2>2. QED BY <1>5, <2>1 DEF EnqueueControlPlanePersist, Task, Queued
<1>6. ASSUME EnqueueAuthPersist
      PROVE  Queued("operation", All, Nothing)
  <2>1. {controlTail, authTail} \ {0} \in SUBSET (DOMAIN tasks)
    BY <1>1, <1>2
  <2>2. QED BY <1>6, <2>1 DEF EnqueueAuthPersist, Task, Queued
<1>7. QED BY <1>4, <1>5, <1>6

\* A write that is queued is the last one, and of the type of writes.
LEMMA QueuedTyped ==
  ASSUME TypedTasks, NEW kind \in {"workspace", "full", "delete", "operation", "accounts"},
         NEW in \in Workspaces \cup {All}, kind = "workspace" => in \in Workspaces,
         kind = "operation" => in = All, NEW rows \in Snapshots', changes \in Nat, changes' \in Nat, changes <= changes',
         Len(saves) \in Nat, Len(saves') \in Nat, Len(saves) <= Len(saves'),
         Queued(kind, in, rows)
  PROVE  /\ TypedTasks' /\ Len(tasks') = Len(tasks) + 1 /\ Grows
         /\ \A t \in DOMAIN tasks : tasks'[t] = tasks[t]
         /\ tasks'[Len(tasks) + 1].kind = kind /\ tasks'[Len(tasks) + 1].in = in
         /\ tasks'[Len(tasks) + 1].rows = rows /\ tasks'[Len(tasks) + 1].at = "queued"
<1> DEFINE L == Len(tasks)
<1>1. PICK after \in SUBSET (DOMAIN tasks) :
        /\ tasks' = Append(tasks, [kind |-> kind, in |-> in, rows |-> rows, after |-> after,
                                   at |-> "queued"])
        /\ controlTail' \in {controlTail, Len(tasks) + 1}
        /\ authTail' \in {authTail, Len(tasks) + 1}
        /\ \/ workspaceTails' = workspaceTails
           \/ in \in Workspaces /\ workspaceTails' = [workspaceTails EXCEPT ![in] = Len(tasks) + 1]
  BY DEF Queued
<1> DEFINE new == [kind |-> kind, in |-> in, rows |-> rows, after |-> after, at |-> "queued"]
<1>2. DOMAIN tasks = 1 .. L /\ L \in Nat /\ tasks \in Seq(TaskTypes)
  BY LenProperties DEF TypedTasks
<1>3. /\ Len(tasks') = L + 1 /\ DOMAIN tasks' = 1 .. L + 1
      /\ \A t \in DOMAIN tasks : tasks'[t] = tasks[t]
      /\ tasks'[L + 1] = new
  <2>1. tasks \in Seq(TaskTypes \cup {new})
    BY <1>2, SeqMonotonic
  <2>2. QED BY <2>1, <1>1, <1>2, AppendProperties, LenProperties
<1>4. Grows
  BY <1>2, <1>3 DEF Grows
<1>5. new \in TaskTypes'
  BY <1>2, <1>3 DEF TaskTypes, Snapshots
<1>6. tasks' \in Seq(TaskTypes')
  BY <1>1, <1>2, <1>4, <1>5, TypesGrow, AppendTyped
<1>7. TypedTasks'
  <2>1. /\ controlTail' \in 0 .. Len(tasks') /\ authTail' \in 0 .. Len(tasks')
        /\ workspaceTails' \in [Workspaces -> 0 .. Len(tasks')]
    BY <1>1, <1>2, <1>3 DEF TypedTasks
  <2>2. \A t \in DOMAIN tasks' : t \in DOMAIN tasks \/ t = L + 1
    BY <1>2, <1>3
  <2>3. ASSUME NEW t \in DOMAIN tasks'
        PROVE  /\ tasks'[t].kind = "workspace" => tasks'[t].in \in Workspaces
               /\ tasks'[t].kind = "operation" => tasks'[t].in = All
    BY <1>3, <2>2 DEF TypedTasks
  <2>4. QED BY <1>6, <2>1, <2>3 DEF TypedTasks
<1>8. QED BY <1>3, <1>4, <1>7

Ats == {"queued", "waits", "runs", "written", "failed"}

\* Writes move on, and stay what they are.
Moved ==
  /\ tasks' \in Seq(TaskTypes) /\ Len(tasks') = Len(tasks) /\ DOMAIN tasks' = DOMAIN tasks
  /\ \A u \in DOMAIN tasks :
       /\ tasks'[u].kind = tasks[u].kind /\ tasks'[u].in = tasks[u].in
       /\ tasks'[u].rows = tasks[u].rows /\ tasks'[u].after = tasks[u].after

\* One write of seq has moved on to at.
MovedTo(seq, new, t, at) ==
  /\ new \in Seq(TaskTypes) /\ Len(new) = Len(seq) /\ DOMAIN new = DOMAIN seq
  /\ \A u \in DOMAIN seq :
       /\ new[u].kind = seq[u].kind /\ new[u].in = seq[u].in
       /\ new[u].rows = seq[u].rows /\ new[u].after = seq[u].after
       /\ new[u].at = IF u = t THEN at ELSE seq[u].at

\* What At, of the model, does.
LEMMA AtIs ==
  ASSUME NEW seq \in Seq(TaskTypes), NEW t \in DOMAIN seq, NEW at \in Ats,
         NEW new, new = [seq EXCEPT ![t].at = at]
  PROVE  MovedTo(seq, new, t, at)
<1> DEFINE e == [seq[t] EXCEPT !.at = at]
<1>1. DOMAIN seq = 1 .. Len(seq) /\ \A u \in DOMAIN seq : seq[u] \in TaskTypes
  BY LenProperties, ElementOfSeq
<1>2. e \in TaskTypes /\ e.at = at /\ e.kind = seq[t].kind /\ e.in = seq[t].in
      /\ e.rows = seq[t].rows /\ e.after = seq[t].after
  BY <1>1 DEF TaskTypes, Ats
<1>0. new = [seq EXCEPT ![t] = e]
  OBVIOUS
<1> HIDE DEF e
<1>3. /\ new \in Seq(TaskTypes) /\ Len(new) = Len(seq)
      /\ \A j \in DOMAIN seq : new[j] = IF j = t THEN e ELSE seq[j]
  BY <1>0, <1>1, <1>2, ExceptSeq
<1>4. DOMAIN new = DOMAIN seq
  BY <1>1, <1>3, LenProperties
<1>5. QED BY <1>2, <1>3, <1>4 DEF MovedTo

\* A write that is let go runs or waits.
LEMMA StartIs ==
  ASSUME Typed, NEW t \in DOMAIN tasks, StartTask(t)
  PROVE  /\ Moved
         /\ \A u \in DOMAIN tasks : u # t => tasks'[u].at = tasks[u].at
         /\ tasks'[t].at \in {"runs", "waits"}
<1>1. tasks \in Seq(TaskTypes) /\ {"runs", "waits"} \subseteq Ats
  BY DEF Typed, Ats
<1>2. PICK at \in {"runs", "waits"} : tasks' = [tasks EXCEPT ![t].at = at]
  BY DEF StartTask, At
<1>3. PICK new : new = tasks'
  OBVIOUS
<1>4. MovedTo(tasks, new, t, at)
  BY <1>1, <1>2, <1>3, AtIs
<1>5. QED BY <1>3, <1>4 DEF Moved, MovedTo

\* A write that settles hands its connection on, if it is of a workspace and
\* somebody waits.
LEMMA SettleIs ==
  ASSUME Typed, NEW t \in DOMAIN tasks, NEW at \in {"written", "failed"}, Settle(t, at)
  PROVE  /\ Moved
         /\ tasks[t].kind = "workspace" /\ waiters # <<>> =>
              /\ Head(waiters) \in DOMAIN tasks
              /\ \A u \in DOMAIN tasks : tasks'[u].at = IF u = Head(waiters) THEN "runs"
                                                        ELSE IF u = t THEN at ELSE tasks[u].at
              /\ waiters' = Tail(waiters) /\ persisting' = persisting
         /\ ~ (tasks[t].kind = "workspace" /\ waiters # <<>>) =>
              /\ \A u \in DOMAIN tasks : tasks'[u].at = IF u = t THEN at ELSE tasks[u].at
              /\ waiters' = waiters
              /\ persisting' = IF tasks[t].kind = "workspace" THEN persisting - 1 ELSE persisting
<1>0. PICK mid : mid = [tasks EXCEPT ![t].at = at]
  OBVIOUS
<1>1. MovedTo(tasks, mid, t, at)
  <2>1. tasks \in Seq(TaskTypes) /\ at \in Ats
    BY DEF Typed, Ats
  <2>2. QED BY <1>0, <2>1, AtIs
<1>2. CASE tasks[t].kind = "workspace" /\ waiters # <<>>
  <2>1. Head(waiters) \in DOMAIN tasks
    BY <1>2, HeadTailProperties DEF Typed
  <2>2. /\ tasks' = [mid EXCEPT ![Head(waiters)].at = "runs"]
        /\ waiters' = Tail(waiters) /\ persisting' = persisting
    BY <1>0, <1>2 DEF Settle, At
  <2>3. PICK new, h : new = tasks' /\ h = Head(waiters)
    OBVIOUS
  <2>4. MovedTo(mid, new, h, "runs")
    <3>1. mid \in Seq(TaskTypes) /\ h \in DOMAIN mid /\ "runs" \in Ats
      BY <1>1, <2>1, <2>3 DEF MovedTo, Ats
    <3>2. new = [mid EXCEPT ![h].at = "runs"]
      BY <2>2, <2>3
    <3>3. QED BY <3>1, <3>2, AtIs
  <2>5. QED BY <1>1, <1>2, <2>1, <2>2, <2>3, <2>4 DEF Moved, MovedTo
<1>3. CASE ~ (tasks[t].kind = "workspace" /\ waiters # <<>>)
  <2>1. tasks' = mid /\ waiters' = waiters
        /\ persisting' = IF tasks[t].kind = "workspace" THEN persisting - 1 ELSE persisting
    BY <1>0, <1>3 DEF Settle, FreedOnly, At
  <2>2. QED BY <1>1, <1>3, <2>1 DEF Moved, MovedTo
<1>4. QED BY <1>2, <1>3

\* What every step does to the writes: nothing, one more, or one moves on.
QueueStays == UNCHANGED <<queues, slots>>
QueueTakes ==
  /\ UNCHANGED slots
  /\ \/ \E w \in Workspaces, rows \in Snapshots : EnqueueWorkspacePersist(w, rows)
     \/ \E kind \in Control, rows \in Snapshots' : EnqueueControlPlanePersist(kind, rows)
     \/ EnqueueAuthPersist
QueueMoves ==
  /\ UNCHANGED <<controlTail, authTail, workspaceTails>>
  /\ \E t \in DOMAIN tasks :
       \/ StartTask(t)
       \/ tasks[t].at = "runs" /\ Commit(t) /\ Settle(t, "written")
       \/ tasks[t].at = "runs" /\ Fail(t) /\ Settle(t, "failed")

\* What the elements of the chain and of the operations are.
LEMMA Elements ==
  ASSUME Inv
  PROVE  /\ DOMAIN saves = 1 .. Len(saves) /\ Len(saves) \in Nat
         /\ DOMAIN tasks = 1 .. Len(tasks) /\ Len(tasks) \in Nat
         /\ \A s \in DOMAIN saves :
              /\ saves[s] \in SaveTypes
              /\ saves[s].kind # "local" => saves[s].in \in Workspaces
         /\ \A o \in Operations :
              /\ operation[o] \in OperationTypes
              /\ operation[o].of # 0 => operation[o].in \in Workspaces
         /\ \A t \in DOMAIN tasks : tasks[t] \in TaskTypes
BY LenProperties, ElementOfSeq DEF Inv, Typed, Awaited

\* One of the three, whatever the step.
LEMMA QueueStep ==
  ASSUME Inv, [Next]_vars
  PROVE  QueueStays \/ QueueTakes \/ QueueMoves
<1>0. /\ Nothing \in Snapshots /\ memory \in Snapshots
      /\ {"full", "delete", "accounts"} \subseteq Control
  BY DEF Inv, Typed, Nothing, Snapshots, Control
<1>1. CASE RequestSteps
  <2>1. ASSUME NEW w \in Workspaces, NEW kind, Save(w, kind) PROVE QueueStays
    BY <2>1 DEF Save, QueueStays
  <2>2. ASSUME NEW o \in Operations, Login(o) PROVE QueueTakes
    BY <2>2 DEF Login, QueueTakes
  <2>3. ASSUME NEW o \in Operations, NEW w \in Workspaces, Administer(o, w) PROVE QueueTakes
    <3>1. Nothing \in Snapshots'
      BY <2>3 DEF Administer, Change, Inv, Typed, Nothing, Snapshots
    <3>2. QED BY <2>3, <3>1, <1>0 DEF Administer, QueueTakes
  <2>4. QED BY <1>1, <2>1, <2>2, <2>3 DEF RequestSteps
<1>2. CASE Chain
  <2>1. ASSUME NEW s \in DOMAIN saves, RunSave(s) PROVE QueueStays \/ QueueTakes
    <3>1. Snapshots' = Snapshots /\ saves[s] \in SaveTypes
          /\ (saves[s].kind # "local" => saves[s].in \in Workspaces)
      BY <2>1, Elements DEF RunSave, Snapshots
    <3>2. CASE saves[s].kind = "local"
      BY <2>1, <3>2 DEF RunSave, QueueStays
    <3>3. CASE saves[s].kind = "workspace"
      <4>1. EnqueueWorkspacePersist(saves[s].in, memory)
        BY <2>1, <3>3 DEF RunSave
      <4>2. QED BY <1>0, <2>1, <3>1, <3>3, <4>1 DEF RunSave, QueueTakes
    <3>4. CASE saves[s].kind = "full"
      <4>1. EnqueueControlPlanePersist("full", memory)
        BY <2>1, <3>4 DEF RunSave
      <4>2. QED BY <1>0, <2>1, <3>1, <4>1 DEF RunSave, QueueTakes
    <3>5. CASE saves[s].kind = "delete"
      <4>1. EnqueueControlPlanePersist("delete", Nothing)
        BY <2>1, <3>5 DEF RunSave
      <4>2. QED BY <1>0, <2>1, <3>1, <4>1 DEF RunSave, QueueTakes
    <3>6. QED BY <3>1, <3>2, <3>3, <3>4, <3>5 DEF SaveTypes
  <2>2. ASSUME NEW s \in DOMAIN saves, DeleteDone(s) PROVE QueueTakes
    <3>1. saves[s].in \in Workspaces /\ saves[s].rows \subseteq Snapshots
      BY <2>2, Elements DEF DeleteDone, Inv, Awaited, SaveTypes
    <3>2. UNION Versions(s) \subseteq 1 .. changes
      BY <1>0, <3>1 DEF Versions, Snapshots
    <3>3. \E rows \in Snapshots : EnqueueWorkspacePersist(saves[s].in, rows)
      <4>1. PICK written \in SUBSET UNION Versions(s) :
              EnqueueWorkspacePersist(saves[s].in, [Nothing EXCEPT ![saves[s].in] = written])
        BY <2>2 DEF DeleteDone
      <4>2. written \subseteq 1 .. changes
        BY <3>2
      <4>3. [Nothing EXCEPT ![saves[s].in] = written] \in Snapshots
        BY <4>2 DEF Nothing, Snapshots
      <4>4. QED BY <4>1, <4>3
    <3>4. QED BY <2>2, <3>1, <3>3 DEF DeleteDone, QueueTakes
  <2>3. ASSUME NEW s \in DOMAIN saves, SaveDone(s) \/ RejectSave(s) PROVE QueueStays
    BY <2>3 DEF SaveDone, RejectSave, QueueStays
  <2>4. QED BY <1>2, <2>1, <2>2, <2>3 DEF Chain
<1>3. CASE Accounts
  <2>1. ASSUME NEW o \in Operations, DirectoryDone(o) PROVE QueueTakes
    <3>1. operation[o].in \in Workspaces
      BY <2>1, Elements DEF DirectoryDone, Inv, Awaited
    <3>2. QED BY <1>0, <2>1, <3>1 DEF DirectoryDone, QueueTakes
  <2>2. ASSUME NEW o \in Operations,
               OperationWritten(o) \/ OperationDone(o) \/ OperationFails(o) \/ LoadIntoState(o)
        PROVE  QueueStays
    BY <2>2 DEF OperationWritten, OperationDone, OperationFails, LoadIntoState, QueueStays
  <2>3. QED BY <1>3, <2>1, <2>2 DEF Accounts
<1>4. CASE \E t \in DOMAIN tasks : StartTask(t) \/ Commit(t) \/ Fail(t)
  BY <1>4 DEF StartTask, Commit, Fail, QueueMoves
<1>5. CASE UNCHANGED vars
  BY <1>5 DEF vars, QueueStays
<1>6. CASE Reads
  BY <1>6 DEF Reads, ReadRows, TakeRows, QueueStays
<1>7. QED BY <1>1, <1>2, <1>3, <1>4, <1>5, <1>6 DEF Next

-----------------------------------------------------------------------------
(* The queues.                                                             *)

\* Writes that move on keep their places: only their own progress changes.
LEMMA MovedKeeps ==
  ASSUME Inv, Moved, UNCHANGED <<controlTail, authTail, workspaceTails>>
  PROVE  TailsReach' /\ AfterReaches'
         /\ \A t, u \in DOMAIN tasks : Conflict(t, u)' <=> Conflict(t, u)
<1>1. \A t, u \in DOMAIN tasks : Conflict(t, u)' <=> Conflict(t, u)
  BY DEF Moved, Conflict
<1>2. \A t \in DOMAIN tasks : TailOf(t)' = TailOf(t)
  BY DEF Moved, TailOf
<1>3. DOMAIN tasks' = DOMAIN tasks /\ Len(tasks') = Len(tasks) /\ DOMAIN tasks = 1 .. Len(tasks)
      /\ Len(tasks) \in Nat
  BY Elements DEF Moved
<1>4. TailsReach'
  BY <1>1, <1>2, <1>3 DEF TailsReach, Inv, QueueInv
<1>5. AfterReaches'
  <2> SUFFICES ASSUME NEW u \in DOMAIN tasks
               PROVE  /\ tasks[u].after \subseteq 1 .. u - 1
                      /\ \A t \in 1 .. u - 1 : Conflict(t, u)' =>
                           \E a \in tasks[u].after : a = t \/ (t < a /\ Conflict(t, a)')
    BY <1>3 DEF AfterReaches, Moved
  <2>1. /\ tasks[u].after \subseteq 1 .. u - 1
        /\ \A t \in 1 .. u - 1 : Conflict(t, u) =>
             \E a \in tasks[u].after : a = t \/ (t < a /\ Conflict(t, a))
    BY DEF AfterReaches, Inv, QueueInv
  <2>2. 1 .. u - 1 \subseteq DOMAIN tasks
    BY <1>3
  <2>3. QED BY <1>1, <2>1, <2>2
<1>6. QED BY <1>1, <1>4, <1>5

\* A write that is let go finds those before it that conflict settled: each stands
\* behind one that it waited for.
LEMMA LetGo ==
  ASSUME Inv, NEW u \in DOMAIN tasks, \A a \in tasks[u].after : Settled(a),
         NEW t \in 1 .. u - 1, Conflict(t, u)
  PROVE  Settled(t)
<1>1. PICK a \in tasks[u].after : a = t \/ (t < a /\ Conflict(t, a))
  BY DEF Inv, QueueInv, AfterReaches
<1>2. Settled(a) /\ a \in 1 .. u - 1
  BY <1>1 DEF Inv, QueueInv, AfterReaches
<1>3. CASE a = t
  BY <1>2, <1>3
<1>4. CASE t < a /\ Conflict(t, a)
  <2>1. a \in DOMAIN tasks /\ t \in 1 .. a - 1 /\ tasks[a].at # "queued"
    BY <1>2, <1>4, Elements DEF Settled
  <2>2. QED BY <1>4, <2>1 DEF Inv, QueueInv, OrderKept
<1>5. QED BY <1>1, <1>3, <1>4

\* StartTask, for the queues.
LEMMA StartKeeps ==
  ASSUME Bounds, Inv, NEW t \in DOMAIN tasks, StartTask(t)
  PROVE  QueueInv'
<1>0. /\ Moved /\ \A u \in DOMAIN tasks : u # t => tasks'[u].at = tasks[u].at
      /\ tasks'[t].at \in {"runs", "waits"} /\ tasks[t].at = "queued"
      /\ \A a \in tasks[t].after : Settled(a)
      /\ UNCHANGED <<controlTail, authTail, workspaceTails>>
  BY StartIs DEF StartTask, Inv
<1>1. TailsReach' /\ AfterReaches' /\ \A u, v \in DOMAIN tasks : Conflict(u, v)' <=> Conflict(u, v)
  BY <1>0, MovedKeeps
<1>2. DOMAIN tasks' = DOMAIN tasks /\ DOMAIN tasks = 1 .. Len(tasks) /\ Len(tasks) \in Nat
  BY <1>0, Elements DEF Moved
<1>3. \A u \in DOMAIN tasks : Settled(u) => Settled(u)'
  BY <1>0 DEF Settled
<1>4. OrderKept'
  <2> SUFFICES ASSUME NEW u \in DOMAIN tasks, NEW v \in 1 .. u - 1,
                      tasks'[u].at # "queued", Conflict(v, u)
               PROVE  Settled(v)'
    <3>1. \A u \in DOMAIN tasks : 1 .. u - 1 \subseteq DOMAIN tasks
      BY <1>2
    <3>2. QED BY <1>1, <1>2, <3>1 DEF OrderKept
  <2>0. v \in DOMAIN tasks
    BY <1>2
  <2>1. CASE u = t
    <3>1. Settled(v)
      BY <1>0, <2>1, LetGo
    <3>2. QED BY <1>3, <2>0, <3>1
  <2>2. CASE u # t
    BY <1>0, <1>2, <1>3, <2>2 DEF Inv, QueueInv, OrderKept
  <2>3. QED BY <2>1, <2>2
<1>5. /\ waiters \in Seq(DOMAIN tasks) /\ DOMAIN waiters = 1 .. Len(waiters)
      /\ \A i \in DOMAIN waiters : waiters[i] \in DOMAIN tasks /\ waiters[i] # t
      /\ WaitersWait
  BY <1>0, LenProperties, ElementOfSeq DEF Inv, Typed, QueueInv, WaitersWait
<1>6. IsFiniteSet(Connected) /\ t \notin Connected /\ persisting = Cardinality(Connected)
      /\ persisting <= Slots
  <2>1. IsFiniteSet(DOMAIN tasks)
    BY <1>2, FS_Interval
  <2>2. Connected \subseteq DOMAIN tasks
    BY DEF Connected
  <2>3. QED BY <1>0, <2>1, <2>2, FS_Subset DEF Connected, Runs, Inv, QueueInv, SlotsCounted
<1>7. CASE tasks[t].kind # "workspace"
  <2>1. UNCHANGED slots
    BY <1>7 DEF StartTask
  <2>2. Connected' = Connected
    BY <1>0, <1>2, <1>7 DEF Connected, Runs, Moved
  <2>3. WaitersWait' /\ SlotsCounted'
    BY <1>0, <1>5, <1>6, <2>1, <2>2 DEF WaitersWait, SlotsCounted, slots, Moved
  <2>4. QED BY <1>1, <1>4, <2>3 DEF QueueInv
<1>8. CASE tasks[t].kind = "workspace" /\ persisting < Slots
  <2>1. waiters' = waiters /\ persisting' = persisting + 1 /\ tasks' = At(t, "runs")
    BY <1>8 DEF StartTask
  <2>2. tasks'[t].at = "runs"
    BY <2>1, Elements DEF At, TaskTypes
  <2>3. Connected' = Connected \cup {t}
    BY <1>0, <1>2, <1>8, <2>2 DEF Connected, Runs, Moved
  <2>4. Cardinality(Connected') = Cardinality(Connected) + 1 /\ Cardinality(Connected) \in Nat
    BY <1>6, <2>3, FS_AddElement, FS_CardinalityType
  <2>5. SlotsCounted'
    <3>1. persisting \in Nat /\ persisting' = Cardinality(Connected') /\ persisting' <= Slots
      BY <1>6, <1>8, <2>1, <2>4 DEF Bounds
    <3>2. QED BY <3>1 DEF SlotsCounted
  <2>6. WaitersWait'
    BY <1>0, <1>5, <2>1 DEF WaitersWait, Moved
  <2>7. QED BY <1>1, <1>4, <2>5, <2>6 DEF QueueInv
<1>9. CASE tasks[t].kind = "workspace" /\ ~ (persisting < Slots)
  <2>1. waiters' = Append(waiters, t) /\ persisting' = persisting /\ tasks' = At(t, "waits")
    BY <1>9 DEF StartTask
  <2>2. tasks'[t].at = "waits"
    BY <2>1, Elements DEF At, TaskTypes
  <2>3. Connected' = Connected
    BY <1>0, <1>2, <2>2 DEF Connected, Runs, Moved
  <2>4. SlotsCounted'
    BY <1>6, <2>1, <2>3 DEF SlotsCounted
  <2>5. /\ DOMAIN waiters' = 1 .. Len(waiters) + 1 /\ waiters'[Len(waiters) + 1] = t
        /\ \A i \in DOMAIN waiters : waiters'[i] = waiters[i]
    BY <1>5, <2>1, AppendTyped
  <2>6. WaitersWait'
    <3>1. \A i \in DOMAIN waiters' : i \in DOMAIN waiters \/ i = Len(waiters) + 1
      BY <1>5, <2>5
    <3>2. \A i \in DOMAIN waiters' : tasks'[waiters'[i]].at = "waits"
                                    /\ tasks'[waiters'[i]].kind = "workspace"
      <4>1. ASSUME NEW u \in DOMAIN tasks, u = t \/ (tasks[u].at = "waits" /\ tasks[u].kind = "workspace")
            PROVE  tasks'[u].at = "waits" /\ tasks'[u].kind = "workspace"
        BY <4>1, <1>0, <1>9, <2>2 DEF Moved
      <4>2. ASSUME NEW i \in DOMAIN waiters
            PROVE  tasks'[waiters'[i]].at = "waits" /\ tasks'[waiters'[i]].kind = "workspace"
        BY <4>1, <1>5, <2>5 DEF WaitersWait
      <4>3. QED BY <3>1, <4>1, <4>2, <2>5
    <3>3. \A i, j \in DOMAIN waiters' : i # j => waiters'[i] # waiters'[j]
      BY <3>1, <1>5, <2>5 DEF WaitersWait
    <3>4. QED BY <3>2, <3>3 DEF WaitersWait
  <2>7. QED BY <1>1, <1>4, <2>4, <2>6 DEF QueueInv
<1>10. QED BY <1>7, <1>8, <1>9

\* A write that settles, for the queues.
LEMMA SettleKeeps ==
  ASSUME Bounds, Inv, NEW t \in DOMAIN tasks, tasks[t].at = "runs",
         NEW at \in {"written", "failed"}, Settle(t, at),
         UNCHANGED <<controlTail, authTail, workspaceTails>>
  PROVE  /\ QueueInv'
         /\ \A u \in DOMAIN tasks : Settled(u) => tasks'[u].at = tasks[u].at
         /\ \A u \in DOMAIN tasks : tasks'[u].at = "written" => u = t \/ tasks[u].at = "written"
<1> DEFINE h == Head(waiters)
           handed == tasks[t].kind = "workspace" /\ waiters # <<>>
<1>0. Typed
  BY DEF Inv
<1>1. /\ Moved
      /\ handed =>
           /\ h \in DOMAIN tasks
           /\ \A u \in DOMAIN tasks : tasks'[u].at = IF u = h THEN "runs"
                                                     ELSE IF u = t THEN at ELSE tasks[u].at
           /\ waiters' = Tail(waiters) /\ persisting' = persisting
      /\ ~ handed =>
           /\ \A u \in DOMAIN tasks : tasks'[u].at = IF u = t THEN at ELSE tasks[u].at
           /\ waiters' = waiters
           /\ persisting' = IF tasks[t].kind = "workspace" THEN persisting - 1 ELSE persisting
  BY <1>0, SettleIs
<1>2. /\ waiters \in Seq(DOMAIN tasks) /\ DOMAIN waiters = 1 .. Len(waiters) /\ Len(waiters) \in Nat
      /\ \A i \in DOMAIN waiters :
           waiters[i] \in DOMAIN tasks /\ tasks[waiters[i]].at = "waits"
           /\ tasks[waiters[i]].kind = "workspace"
      /\ \A i, j \in DOMAIN waiters : i # j => waiters[i] # waiters[j]
  BY <1>0, LenProperties, ElementOfSeq DEF Inv, Typed, QueueInv, WaitersWait
<1>3. handed => 1 \in DOMAIN waiters /\ h = waiters[1] /\ h # t
                /\ tasks[h].at = "waits" /\ tasks[h].kind = "workspace"
  BY <1>2, EmptySeq
<1>4. \A u \in DOMAIN tasks :
        /\ Settled(u) => tasks'[u].at = tasks[u].at
        /\ tasks'[u].at # "queued" => tasks[u].at # "queued"
        /\ tasks'[u].at = "written" => u = t \/ tasks[u].at = "written"
  <2> HIDE DEF handed, h
  <2>1. CASE handed
    BY <2>1, <1>1, <1>3 DEF Settled
  <2>2. CASE ~ handed
    BY <2>2, <1>1 DEF Settled
  <2>3. QED BY <2>1, <2>2
<1>5. TailsReach' /\ AfterReaches' /\ \A u, v \in DOMAIN tasks : Conflict(u, v)' <=> Conflict(u, v)
  BY <1>1, MovedKeeps
<1>6. DOMAIN tasks' = DOMAIN tasks /\ DOMAIN tasks = 1 .. Len(tasks) /\ Len(tasks) \in Nat
  BY <1>1, Elements DEF Moved
<1>7. OrderKept'
  <2> SUFFICES ASSUME NEW u \in DOMAIN tasks, NEW v \in 1 .. u - 1,
                      tasks'[u].at # "queued", Conflict(v, u)
               PROVE  Settled(v)'
    <3>1. \A u \in DOMAIN tasks : 1 .. u - 1 \subseteq DOMAIN tasks
      BY <1>6
    <3>2. QED BY <1>5, <1>6, <3>1 DEF OrderKept
  <2>1. v \in DOMAIN tasks /\ tasks[u].at # "queued"
    BY <1>4, <1>6
  <2>2. Settled(v)
    BY <2>1 DEF Inv, QueueInv, OrderKept
  <2>3. QED BY <1>4, <2>1, <2>2 DEF Settled
<1>8. /\ IsFiniteSet(Connected) /\ persisting = Cardinality(Connected) /\ persisting <= Slots
      /\ Cardinality(Connected) \in Nat
      /\ t \in Connected <=> tasks[t].kind = "workspace"
  <2>1. IsFiniteSet(DOMAIN tasks)
    BY <1>6, FS_Interval
  <2>2. Connected \subseteq DOMAIN tasks
    BY DEF Connected
  <2>3. IsFiniteSet(Connected)
    BY <2>1, <2>2, FS_Subset
  <2>4. QED BY <2>3, FS_CardinalityType DEF Connected, Runs, Inv, QueueInv, SlotsCounted
<1>9. CASE handed
  <2> HIDE DEF handed
  <2>1. h \notin Connected /\ h \in DOMAIN tasks
    BY <1>1, <1>3, <1>9 DEF Connected, Runs
  <2>2. Connected' = (Connected \ {t}) \cup {h}
    BY <1>1, <1>3, <1>6, <1>9 DEF Connected, Runs, Moved
  <2>3. Cardinality(Connected \ {t}) = Cardinality(Connected) - 1 /\ IsFiniteSet(Connected \ {t})
    BY <1>8, <1>9, FS_RemoveElement DEF handed
  <2>4. Cardinality(Connected') = Cardinality(Connected)
    <3>1. PICK S : S = Connected \ {t}
      OBVIOUS
    <3>2. PICK e : e = h
      OBVIOUS
    <3>3. IsFiniteSet(S) /\ e \notin S /\ Cardinality(S) = Cardinality(Connected) - 1
      BY <2>1, <2>3, <3>1, <3>2
    <3>4. Cardinality(S \cup {e}) = Cardinality(S) + 1
      BY <3>3, FS_AddElement
    <3>5. Connected' = S \cup {e}
      BY <2>2, <3>1, <3>2
    <3>6. QED BY <1>8, <3>3, <3>4, <3>5
  <2>5. SlotsCounted'
    BY <1>1, <1>8, <1>9, <2>4 DEF SlotsCounted
  <2>6. WaitersWait'
    <3>1. /\ DOMAIN Tail(waiters) = 1 .. Len(waiters) - 1
          /\ \A i \in 1 .. Len(waiters) - 1 : Tail(waiters)[i] = waiters[i + 1]
      BY <1>2, <1>9, HeadTailProperties, LenProperties DEF handed
    <3>2. ASSUME NEW u \in DOMAIN tasks, u # h, tasks[u].at = "waits", tasks[u].kind = "workspace"
          PROVE  tasks'[u].at = "waits" /\ tasks'[u].kind = "workspace"
      BY <3>2, <1>1, <1>9 DEF Moved
    <3>3. ASSUME NEW i \in 1 .. Len(waiters) - 1
          PROVE  tasks'[waiters[i + 1]].at = "waits" /\ tasks'[waiters[i + 1]].kind = "workspace"
      <4>1. i + 1 \in DOMAIN waiters /\ i + 1 # 1
        BY <1>2
      <4>2. waiters[i + 1] \in DOMAIN tasks /\ waiters[i + 1] # h
            /\ tasks[waiters[i + 1]].at = "waits" /\ tasks[waiters[i + 1]].kind = "workspace"
        BY <1>2, <1>3, <1>9, <4>1
      <4>3. QED BY <3>2, <4>2
    <3>4. \A i, j \in 1 .. Len(waiters) - 1 : i # j => waiters[i + 1] # waiters[j + 1]
      BY <1>2
    <3>5. waiters' = Tail(waiters)
      BY <1>1, <1>9
    <3>6. QED BY <3>1, <3>3, <3>4, <3>5 DEF WaitersWait
  <2>7. QED BY <1>4, <1>5, <1>7, <2>5, <2>6 DEF QueueInv
<1>10. CASE ~ handed
  <2> HIDE DEF handed
  <2>1. Connected' = Connected \ {t}
    BY <1>1, <1>6, <1>10 DEF Connected, Runs, Moved
  <2>2. Cardinality(Connected') = IF t \in Connected THEN Cardinality(Connected) - 1
                                  ELSE Cardinality(Connected)
    BY <1>8, <2>1, FS_RemoveElement
  <2>3. SlotsCounted'
    <3>1. persisting' = IF tasks[t].kind = "workspace" THEN persisting - 1 ELSE persisting
      BY <1>1, <1>10
    <3>2. persisting' = Cardinality(Connected') /\ persisting' <= Slots
      BY <3>1, <1>8, <2>2 DEF Bounds
    <3>3. QED BY <3>2 DEF SlotsCounted
  <2>4. WaitersWait'
    <3>1. ASSUME NEW u \in DOMAIN tasks, tasks[u].at = "waits", tasks[u].kind = "workspace"
          PROVE  tasks'[u].at = "waits" /\ tasks'[u].kind = "workspace"
      BY <3>1, <1>1, <1>10 DEF Moved
    <3>2. waiters' = waiters
      BY <1>1, <1>10
    <3>3. QED BY <1>2, <3>1, <3>2 DEF WaitersWait
  <2>5. QED BY <1>4, <1>5, <1>7, <2>3, <2>4 DEF QueueInv
<1>11. QED BY <1>9, <1>10

\* A write that is queued, for the queues: behind the tails of those that
\* conflict with it, and the new tail of its own.
LEMMA AddedKeeps ==
  ASSUME Inv, UNCHANGED slots, NEW new, new = Len(tasks) + 1,
         DOMAIN tasks' = 1 .. new, Len(tasks') = new,
         \A t \in DOMAIN tasks : tasks'[t] = tasks[t],
         tasks'[new].at = "queued", tasks'[new].after \subseteq DOMAIN tasks,
         \A t \in DOMAIN tasks : Conflict(t, new)' => TailOf(t) \in tasks'[new].after,
         \A t \in DOMAIN tasks : TailOf(t)' = TailOf(t) \/ (TailOf(t)' = new /\ Conflict(t, new)'),
         TailOf(new)' = new
  PROVE  QueueInv'
<1>0. /\ DOMAIN tasks = 1 .. Len(tasks) /\ Len(tasks) \in Nat /\ new \in Nat
      /\ DOMAIN tasks' = DOMAIN tasks \cup {new}
  BY Elements
<1>1. /\ \A t, u \in DOMAIN tasks : Conflict(t, u)' <=> Conflict(t, u)
      /\ \A t \in DOMAIN tasks : Settled(t)' <=> Settled(t)
  BY DEF Conflict, Settled
<1>2. /\ \A t \in DOMAIN tasks : TailOf(t) \in t .. Len(tasks)
                                 /\ (TailOf(t) = t \/ Conflict(t, TailOf(t)))
  BY DEF Inv, QueueInv, TailsReach
<1>3. TailsReach'
  <2>1. ASSUME NEW t \in DOMAIN tasks
        PROVE  TailOf(t)' \in t .. new /\ (TailOf(t)' = t \/ Conflict(t, TailOf(t))')
    <3>1. PICK b : b = TailOf(t)'
      OBVIOUS
    <3>2. Conflict(t, TailOf(t))' <=> Conflict(t, b)'
      BY <3>1 DEF Conflict
    <3>3. CASE b = TailOf(t)
      <4>1. b \in DOMAIN tasks /\ (b = t \/ Conflict(t, b))
        BY <1>0, <1>2, <3>3
      <4>2. QED BY <1>0, <1>1, <1>2, <3>1, <3>2, <3>3, <4>1
    <3>4. CASE b = new /\ Conflict(t, new)'
      BY <1>0, <3>1, <3>2, <3>4
    <3>5. QED BY <3>1, <3>3, <3>4
  <2>2. TailOf(new)' \in new .. new
    BY <1>0
  <2>3. QED BY <1>0, <2>1, <2>2 DEF TailsReach
<1>4. AfterReaches'
  <2>1. ASSUME NEW u \in DOMAIN tasks
        PROVE  /\ tasks'[u].after \subseteq 1 .. u - 1
               /\ \A t \in 1 .. u - 1 : Conflict(t, u)' =>
                    \E a \in tasks'[u].after : a = t \/ (t < a /\ Conflict(t, a)')
    <3>1. /\ tasks[u].after \subseteq 1 .. u - 1
          /\ \A t \in 1 .. u - 1 : Conflict(t, u) =>
               \E a \in tasks[u].after : a = t \/ (t < a /\ Conflict(t, a))
      BY DEF AfterReaches, Inv, QueueInv
    <3>2. 1 .. u - 1 \subseteq DOMAIN tasks /\ tasks'[u] = tasks[u]
      BY <1>0
    <3>3. QED BY <1>1, <3>1, <3>2
  <2>2. ASSUME NEW t \in DOMAIN tasks, Conflict(t, new)'
        PROVE  \E a \in tasks'[new].after : a = t \/ (t < a /\ Conflict(t, a)')
    <3>1. PICK b : b = TailOf(t)
      OBVIOUS
    <3>2. b \in tasks'[new].after /\ b \in DOMAIN tasks /\ t <= b /\ (b = t \/ Conflict(t, b))
      BY <1>0, <1>2, <2>2, <3>1
    <3>3. QED BY <1>0, <1>1, <3>2
  <2>3. 1 .. new - 1 = DOMAIN tasks
    BY <1>0
  <2>4. QED BY <1>0, <2>1, <2>2, <2>3 DEF AfterReaches
<1>5. OrderKept'
  <2> SUFFICES ASSUME NEW u \in DOMAIN tasks, NEW v \in 1 .. u - 1,
                      tasks'[u].at # "queued", Conflict(v, u)'
               PROVE  Settled(v)'
    BY <1>0 DEF OrderKept
  <2>1. v \in DOMAIN tasks /\ tasks[u].at # "queued"
    BY <1>0
  <2>2. QED BY <1>1, <2>1 DEF Inv, QueueInv, OrderKept
<1>6. WaitersWait'
  <2>1. \A i \in DOMAIN waiters : waiters[i] \in DOMAIN tasks
    BY LenProperties, ElementOfSeq DEF Inv, Typed
  <2>2. QED BY <2>1 DEF WaitersWait, slots, Inv, QueueInv
<1>7. Connected' = Connected
  BY <1>0 DEF Connected, Runs
<1>8. SlotsCounted'
  BY <1>7 DEF SlotsCounted, slots, Inv, QueueInv
<1>9. QED BY <1>3, <1>4, <1>5, <1>6, <1>8 DEF QueueInv

\* The three queues take a write as AddedKeeps wants it.
LEMMA TakeKeeps ==
  ASSUME Inv, Typed', QueueTakes
  PROVE  QueueInv'
<1>0. /\ DOMAIN tasks = 1 .. Len(tasks) /\ Len(tasks) \in Nat /\ UNCHANGED slots
      /\ \A t \in DOMAIN tasks : tasks[t] \in TaskTypes
      /\ \A t \in DOMAIN tasks :
           /\ tasks[t].kind = "workspace" => tasks[t].in \in Workspaces
           /\ tasks[t].kind = "operation" => tasks[t].in = All
      /\ controlTail \in 0 .. Len(tasks) /\ authTail \in 0 .. Len(tasks)
      /\ workspaceTails \in [Workspaces -> 0 .. Len(tasks)]
      /\ \A t \in DOMAIN tasks : TailOf(t) \in t .. Len(tasks)
  BY Elements DEF QueueTakes, Inv, Typed, QueueInv, TailsReach
<1>1. PICK new : new = Len(tasks) + 1
  OBVIOUS
<1>2. ASSUME NEW task, tasks' = Append(tasks, task)
      PROVE  /\ DOMAIN tasks' = 1 .. new /\ Len(tasks') = new /\ tasks'[new] = task
             /\ \A t \in DOMAIN tasks : tasks'[t] = tasks[t]
  <2>1. tasks \in Seq(TaskTypes \cup {task})
    BY SeqMonotonic DEF Inv, Typed
  <2>2. QED BY <1>0, <1>1, <1>2, <2>1, AppendProperties, LenProperties
<1>3. ASSUME NEW w \in Workspaces, NEW rows, EnqueueWorkspacePersist(w, rows)
      PROVE  QueueInv'
  <2> DEFINE task == Task("workspace", w, rows, {controlTail, workspaceTails[w]})
  <2>1. /\ DOMAIN tasks' = 1 .. new /\ Len(tasks') = new /\ tasks'[new] = task
        /\ \A t \in DOMAIN tasks : tasks'[t] = tasks[t]
    BY <1>2, <1>3 DEF EnqueueWorkspacePersist
  <2>2. /\ tasks'[new].kind = "workspace" /\ tasks'[new].in = w /\ tasks'[new].at = "queued"
        /\ tasks'[new].after = {controlTail, workspaceTails[w]} \ {0}
        /\ workspaceTails' = [workspaceTails EXCEPT ![w] = new]
        /\ controlTail' = controlTail /\ authTail' = authTail
    BY <1>1, <1>3, <2>1 DEF Task, EnqueueWorkspacePersist
  <2> HIDE DEF task
  <2>3. tasks'[new].after \subseteq DOMAIN tasks
    BY <1>0, <2>2
  <2>4. \A t \in DOMAIN tasks : Conflict(t, new)' => TailOf(t) \in tasks'[new].after
    BY <1>0, <2>1, <2>2 DEF Conflict, TailOf, Control
  <2>5. \A t \in DOMAIN tasks : TailOf(t)' = TailOf(t) \/ (TailOf(t)' = new /\ Conflict(t, new)')
    BY <1>0, <2>1, <2>2 DEF Conflict, TailOf
  <2>6. TailOf(new)' = new
    BY <1>0, <2>2 DEF TailOf
  <2>7. QED BY <1>0, <1>1, <2>1, <2>2, <2>3, <2>4, <2>5, <2>6, AddedKeeps
<1>4. ASSUME NEW kind \in Control, NEW rows, EnqueueControlPlanePersist(kind, rows)
      PROVE  QueueInv'
  <2> DEFINE task == Task(kind, All, rows, {controlTail, authTail} \cup Tails)
  <2>1. /\ DOMAIN tasks' = 1 .. new /\ Len(tasks') = new /\ tasks'[new] = task
        /\ \A t \in DOMAIN tasks : tasks'[t] = tasks[t]
    BY <1>2, <1>4 DEF EnqueueControlPlanePersist
  <2>2. /\ tasks'[new].kind = kind /\ tasks'[new].at = "queued"
        /\ tasks'[new].after = ({controlTail, authTail} \cup Tails) \ {0}
        /\ workspaceTails' = workspaceTails
        /\ controlTail' = new /\ authTail' = authTail
    BY <1>1, <1>4, <2>1 DEF Task, EnqueueControlPlanePersist
  <2> HIDE DEF task
  <2>3. tasks'[new].after \subseteq DOMAIN tasks
    BY <1>0, <2>2 DEF Tails
  <2>4. \A t \in DOMAIN tasks : Conflict(t, new)' => TailOf(t) \in tasks'[new].after
    <3>1. \A t \in DOMAIN tasks : TailOf(t) \in {controlTail, authTail} \cup Tails /\ TailOf(t) # 0
      BY <1>0 DEF TailOf, Tails
    <3>2. QED BY <3>1, <2>2
  <2>5. \A t \in DOMAIN tasks : TailOf(t)' = TailOf(t) \/ (TailOf(t)' = new /\ Conflict(t, new)')
    BY <1>0, <2>1, <2>2 DEF Conflict, TailOf, Control
  <2>6. TailOf(new)' = new
    BY <1>0, <2>2 DEF TailOf, Control
  <2>7. QED BY <1>0, <1>1, <2>1, <2>2, <2>3, <2>4, <2>5, <2>6, AddedKeeps
<1>5. ASSUME EnqueueAuthPersist
      PROVE  QueueInv'
  <2> DEFINE task == Task("operation", All, Nothing, {controlTail, authTail})
  <2>1. /\ DOMAIN tasks' = 1 .. new /\ Len(tasks') = new /\ tasks'[new] = task
        /\ \A t \in DOMAIN tasks : tasks'[t] = tasks[t]
    BY <1>2, <1>5 DEF EnqueueAuthPersist
  <2>2. /\ tasks'[new].kind = "operation" /\ tasks'[new].in = All /\ tasks'[new].at = "queued"
        /\ tasks'[new].after = {controlTail, authTail} \ {0}
        /\ workspaceTails' = workspaceTails
        /\ controlTail' = controlTail /\ authTail' = new
    BY <1>1, <1>5, <2>1 DEF Task, EnqueueAuthPersist
  <2> HIDE DEF task
  <2>3. tasks'[new].after \subseteq DOMAIN tasks
    BY <1>0, <2>2
  <2>4. \A t \in DOMAIN tasks : Conflict(t, new)' => TailOf(t) \in tasks'[new].after
    BY <1>0, <2>1, <2>2 DEF Conflict, TailOf, Control
  <2>5. \A t \in DOMAIN tasks : TailOf(t)' = TailOf(t) \/ (TailOf(t)' = new /\ Conflict(t, new)')
    <3>1. \A t \in DOMAIN tasks : tasks[t].kind \notin Control \cup {"workspace"} =>
            tasks[t].kind = "operation" /\ tasks[t].in = All
      BY <1>0 DEF TaskTypes, Control
    <3>2. QED BY <1>0, <2>1, <2>2, <3>1 DEF Conflict, TailOf, Control
  <2>6. TailOf(new)' = new
    BY <1>0, <2>2 DEF TailOf, Control
  <2>7. QED BY <1>0, <1>1, <2>1, <2>2, <2>3, <2>4, <2>5, <2>6, AddedKeeps
<1>6. QED BY <1>3, <1>4, <1>5 DEF QueueTakes

-----------------------------------------------------------------------------
(* What a step does to the chain and to the operations.                    *)

\* A sequence is one of what its places hold.
LEMMA SeqOf ==
  ASSUME NEW S, NEW T, NEW seq \in Seq(S), \A i \in DOMAIN seq : seq[i] \in T
  PROVE  seq \in Seq(T)
<1>1. PICK n \in Nat : seq \in [1 .. n -> S]
  BY SeqDef
<1>2. seq \in [1 .. n -> T]
  BY <1>1
<1>3. QED BY <1>2, SeqDef

\* The chain takes a call.
LEMMA CallIs ==
  ASSUME Inv, NEW call, saves' = Append(saves, call)
  PROVE  /\ Len(saves') = Len(saves) + 1 /\ DOMAIN saves' = 1 .. Len(saves) + 1
         /\ \A r \in DOMAIN saves : r \in DOMAIN saves' /\ saves'[r] = saves[r]
         /\ saves'[Len(saves) + 1] = call
         /\ saves' \in Seq(SaveTypes \cup {call})
<1>1. saves \in Seq(SaveTypes) /\ Len(saves) \in Nat /\ DOMAIN saves = 1 .. Len(saves)
  BY Elements DEF Inv, Typed
<1>2. QED BY <1>1, AppendTyped

\* A save of the chain becomes save.
LEMMA StepIs ==
  ASSUME Inv, NEW s \in DOMAIN saves, NEW save, saves' = [saves EXCEPT ![s] = save]
  PROVE  /\ Len(saves') = Len(saves) /\ DOMAIN saves' = DOMAIN saves
         /\ \A r \in DOMAIN saves : saves'[r] = IF r = s THEN save ELSE saves[r]
         /\ saves' \in Seq(SaveTypes \cup {save})
<1>1. saves \in Seq(SaveTypes)
  BY DEF Inv, Typed
<1>2. QED BY <1>1, ExceptTyped

\* The writes are typed after every step.
LEMMA TasksTyped ==
  ASSUME Inv, [Next]_vars, changes' \in Nat, changes <= changes',
         Len(saves') \in Nat, Len(saves) <= Len(saves')
  PROVE  /\ TypedTasks' /\ Grows /\ waiters' \in Seq(DOMAIN tasks')
         /\ Len(tasks') \in {Len(tasks), Len(tasks) + 1}
         /\ \A t \in DOMAIN tasks : tasks[t].at = "written" => tasks'[t].at = "written"
<1>1. /\ DOMAIN tasks = 1 .. Len(tasks) /\ Len(tasks) \in Nat /\ Len(saves) \in Nat
      /\ TypedTasks /\ waiters \in Seq(DOMAIN tasks) /\ changes \in Nat
      /\ \A t \in DOMAIN tasks : tasks[t] \in TaskTypes
  BY Elements DEF Inv, Typed, TypedTasks
<1>2. CASE QueueStays
  <2>1. Grows
    BY <1>1, <1>2 DEF Grows, QueueStays, queues
  <2>2. tasks' \in Seq(TaskTypes')
    BY <1>1, <1>2, <2>1, TypesGrow, SeqMonotonic DEF QueueStays, queues, TypedTasks
  <2>3. QED BY <1>1, <1>2, <2>1, <2>2 DEF QueueStays, queues, slots, TypedTasks
<1>3. CASE QueueTakes
  <2>1. Snapshots \subseteq Snapshots' /\ Nothing \in Snapshots
    BY <1>1 DEF Snapshots, Nothing
  <2>2. PICK kind \in {"workspace", "full", "delete", "operation", "accounts"},
             in \in Workspaces \cup {All}, rows \in Snapshots' :
          /\ kind = "workspace" => in \in Workspaces
          /\ kind = "operation" => in = All
          /\ Queued(kind, in, rows)
    BY <1>3, <2>1, EnqueueIs DEF QueueTakes, Control, Inv
  <2>3. /\ TypedTasks' /\ Len(tasks') = Len(tasks) + 1 /\ Grows
        /\ \A t \in DOMAIN tasks : tasks'[t] = tasks[t]
    BY <1>1, <2>2, QueuedTyped
  <2>4. waiters' \in Seq(DOMAIN tasks')
    <3>1. DOMAIN tasks \subseteq DOMAIN tasks' /\ waiters' = waiters
      BY <1>3, <2>3 DEF Grows, QueueTakes, slots
    <3>2. QED BY <1>1, <3>1, SeqMonotonic
  <2>5. QED BY <2>3, <2>4
<1>4. CASE QueueMoves
  <2>1. PICK t \in DOMAIN tasks :
          \/ StartTask(t)
          \/ tasks[t].at = "runs" /\ \E at \in {"written", "failed"} : Settle(t, at)
    BY <1>4 DEF QueueMoves
  <2>2. /\ Moved /\ waiters' \in Seq(DOMAIN tasks)
        /\ \A u \in DOMAIN tasks : tasks[u].at = "written" => tasks'[u].at = "written"
    <3>1. CASE StartTask(t)
      <4>1. waiters' = waiters \/ waiters' = Append(waiters, t)
        BY <3>1 DEF StartTask, slots
      <4>2. waiters' \in Seq(DOMAIN tasks)
        BY <1>1, <4>1, AppendTyped
      <4>3. tasks[t].at # "written"
        BY <3>1 DEF StartTask
      <4>4. QED BY <3>1, <4>2, <4>3, StartIs DEF Inv
    <3>2. CASE tasks[t].at = "runs" /\ \E at \in {"written", "failed"} : Settle(t, at)
      <4>1. PICK at \in {"written", "failed"} : Settle(t, at)
        BY <3>2
      <4>2. Typed
        BY DEF Inv
      <4>3. CASE tasks[t].kind = "workspace" /\ waiters # <<>>
        <5>1. tasks[Head(waiters)].at = "waits"
          <6>1. 1 \in DOMAIN waiters /\ Head(waiters) = waiters[1]
            BY <1>1, <4>3, EmptySeq, LenProperties
          <6>2. QED BY <6>1 DEF Inv, QueueInv, WaitersWait
        <5>2. Tail(waiters) \in Seq(DOMAIN tasks)
          BY <1>1, <4>3, HeadTailProperties
        <5>3. QED BY <3>2, <4>1, <4>2, <4>3, <5>1, <5>2, SettleIs
      <4>4. CASE ~ (tasks[t].kind = "workspace" /\ waiters # <<>>)
        BY <1>1, <3>2, <4>1, <4>2, <4>4, SettleIs
      <4>5. QED BY <4>3, <4>4
    <3>3. QED BY <2>1, <3>1, <3>2
  <2>3. Grows
    BY <1>1, <2>2 DEF Grows, Moved
  <2>4. tasks' \in Seq(TaskTypes')
    BY <2>2, <2>3, TypesGrow, SeqMonotonic DEF Moved
  <2>5. TypedTasks'
    <3>1. controlTail' = controlTail /\ authTail' = authTail /\ workspaceTails' = workspaceTails
      BY <1>4 DEF QueueMoves
    <3>2. /\ Len(tasks') = Len(tasks) /\ DOMAIN tasks' = DOMAIN tasks
          /\ \A u \in DOMAIN tasks : tasks'[u].kind = tasks[u].kind /\ tasks'[u].in = tasks[u].in
      BY <2>2 DEF Moved
    <3>3. \A u \in DOMAIN tasks' : /\ tasks'[u].kind = "workspace" => tasks'[u].in \in Workspaces
                                  /\ tasks'[u].kind = "operation" => tasks'[u].in = All
      BY <1>1, <3>2 DEF TypedTasks
    <3>4. QED BY <1>1, <2>4, <3>1, <3>2, <3>3 DEF TypedTasks
  <2>6. QED BY <2>2, <2>3, <2>5 DEF Moved
<1>5. QED BY <1>2, <1>3, <1>4, QueueStep

Progress == {"chained", "deletes", "writes", "saved", "rejected"}

\* A save of the chain has moved on to at, and to task.
SaveMoved(s, at, task) ==
  /\ Len(saves') = Len(saves) /\ DOMAIN saves' = DOMAIN saves
  /\ \A r \in DOMAIN saves : r # s => saves'[r] = saves[r]
  /\ saves'[s].in = saves[s].in /\ saves'[s].kind = saves[s].kind
  /\ saves'[s].of = saves[s].of /\ saves'[s].rows = saves[s].rows
  /\ saves'[s].at = at /\ saves'[s].task = task
  /\ Grows => saves' \in Seq(SaveTypes')

\* What is put in the place of a save, with other progress.
LEMMA SaveMovedIs ==
  ASSUME Inv, NEW s \in DOMAIN saves, NEW at \in Progress, NEW task, NEW save,
         saves' = [saves EXCEPT ![s] = save],
         save \in [in : {saves[s].in}, of : {saves[s].of}, kind : {saves[s].kind}, at : {at},
                   task : {task}, rows : {saves[s].rows}],
         Len(tasks') \in Nat => task \in 0 .. Len(tasks')
  PROVE  SaveMoved(s, at, task)
<1>1. /\ Len(saves') = Len(saves) /\ DOMAIN saves' = DOMAIN saves
      /\ \A r \in DOMAIN saves : saves'[r] = IF r = s THEN save ELSE saves[r]
      /\ saves' \in Seq(SaveTypes \cup {save})
  BY StepIs
<1>2. ASSUME Grows PROVE saves' \in Seq(SaveTypes')
  <2>1. /\ SaveTypes \subseteq SaveTypes' /\ Len(tasks') \in Nat
        /\ \A r \in DOMAIN saves : saves[r] \in SaveTypes
    BY <1>2, TypesGrow, Elements DEF Grows
  <2>2. saves[s] \in SaveTypes'
    BY <2>1
  <2>3. save \in SaveTypes'
    BY <2>1, <2>2 DEF SaveTypes, Progress
  <2>4. QED BY <1>1, <2>1, <2>3, SeqOf
<1>3. QED BY <1>1, <1>2 DEF SaveMoved

\* Step, of the model, and the two steps that queue a write of their own.
LEMMA SaveSteps ==
  ASSUME Inv, NEW s \in DOMAIN saves, NEW at \in Progress
  PROVE  /\ Step(s, at) /\ Len(tasks) <= Len(tasks') => SaveMoved(s, at, saves[s].task)
         /\ \A task : /\ \/ saves' = [saves EXCEPT ![s].task = task, ![s].at = at]
                         \/ saves' = [saves EXCEPT ![s].at = at, ![s].task = task]
                      /\ task = Len(tasks')
                      => SaveMoved(s, at, task)
<1>1. saves[s] \in SaveTypes /\ Len(tasks) \in Nat
  BY Elements
<1>2. ASSUME Step(s, at), Len(tasks) <= Len(tasks')
      PROVE  SaveMoved(s, at, saves[s].task)
  <2>1. PICK save : save = [saves[s] EXCEPT !.at = at]
    OBVIOUS
  <2>2. saves' = [saves EXCEPT ![s] = save]
    BY <1>2, <2>1 DEF Step
  <2>3. save \in [in : {saves[s].in}, of : {saves[s].of}, kind : {saves[s].kind}, at : {at},
                  task : {saves[s].task}, rows : {saves[s].rows}]
    BY <1>1, <2>1 DEF SaveTypes
  <2>4. Len(tasks') \in Nat => saves[s].task \in 0 .. Len(tasks')
    BY <1>1, <1>2 DEF SaveTypes
  <2>5. QED BY <2>2, <2>3, <2>4, SaveMovedIs
<1>3. ASSUME NEW task, task = Len(tasks'),
             \/ saves' = [saves EXCEPT ![s].task = task, ![s].at = at]
             \/ saves' = [saves EXCEPT ![s].at = at, ![s].task = task]
      PROVE  SaveMoved(s, at, task)
  <2>1. PICK save : save = [saves[s] EXCEPT !.at = at, !.task = task]
    OBVIOUS
  <2>2. saves' = [saves EXCEPT ![s] = save]
    <3>1. PICK one, two : /\ one = [saves[s] EXCEPT !.task = task]
                          /\ two = [saves[s] EXCEPT !.at = at]
      OBVIOUS
    <3>2. [one EXCEPT !.at = at] = save /\ [two EXCEPT !.task = task] = save
      BY <1>1, <2>1, <3>1 DEF SaveTypes
    <3>3. ASSUME NEW first, NEW mid, mid = [saves EXCEPT ![s] = first]
          PROVE  \A second : [mid EXCEPT ![s] = second] = [saves EXCEPT ![s] = second]
                 /\ mid[s] = first
      BY <3>3
    <3>4. CASE saves' = [saves EXCEPT ![s].task = task, ![s].at = at]
      <4>1. PICK mid : mid = [saves EXCEPT ![s] = one]
        OBVIOUS
      <4>2. saves' = [mid EXCEPT ![s] = [mid[s] EXCEPT !.at = at]]
        BY <3>1, <3>4, <4>1
      <4>3. QED BY <3>2, <3>3, <4>1, <4>2
    <3>5. CASE saves' = [saves EXCEPT ![s].at = at, ![s].task = task]
      <4>1. PICK mid : mid = [saves EXCEPT ![s] = two]
        OBVIOUS
      <4>2. saves' = [mid EXCEPT ![s] = [mid[s] EXCEPT !.task = task]]
        BY <3>1, <3>5, <4>1
      <4>3. QED BY <3>2, <3>3, <4>1, <4>2
    <3>6. QED BY <1>3, <3>4, <3>5
  <2>3. save \in [in : {saves[s].in}, of : {saves[s].of}, kind : {saves[s].kind}, at : {at},
                  task : {task}, rows : {saves[s].rows}]
    BY <1>1, <2>1 DEF SaveTypes
  <2>4. Len(tasks') \in Nat => task \in 0 .. Len(tasks')
    BY <1>3
  <2>5. QED BY <2>2, <2>3, <2>4, SaveMovedIs
<1>4. QED BY <1>2, <1>3

\* The write that a step has queued.
NewTask(t) == t = Len(tasks) + 1 /\ Len(tasks') = t

\* What a step may do to a save: nothing, or one of the moves of the chain.
SaveGoes(r) ==
  /\ saves'[r].in = saves[r].in /\ saves'[r].of = saves[r].of /\ saves'[r].kind = saves[r].kind
  /\ saves'[r].rows \in {saves[r].rows, saves[r].rows \cup {memory}}
  /\ \/ saves'[r].at = saves[r].at /\ saves'[r].task = saves[r].task
     \/ /\ saves[r].at = "chained" /\ Passed(r)
        /\ \/ saves[r].kind = "local" /\ saves'[r].at = "saved"
           \/ saves[r].kind = "delete" /\ saves'[r].at = "deletes" /\ NewTask(saves'[r].task)
           \/ /\ saves[r].kind \in {"workspace", "full"} /\ saves'[r].at = "writes"
              /\ NewTask(saves'[r].task) /\ RunSave(r)
     \/ /\ saves[r].at = "deletes" /\ saves'[r].at = "writes"
        /\ NewTask(saves'[r].task) /\ DeleteDone(r)
     \/ /\ saves[r].at = "writes" /\ Written(r)
        /\ saves'[r].at = "saved" /\ saves'[r].task = saves[r].task
     \/ saves[r].at # "saved" /\ saves'[r].at = "rejected" /\ saves'[r].task = saves[r].task

\* A call that a step has made: for the local files, or to save a new change.
SaveComes(r) ==
  /\ r = Len(saves) + 1 /\ saves'[r].at = "chained" /\ saves'[r].rows = {}
  /\ \/ saves'[r].kind = "local"
     \/ /\ changes' = changes + 1 /\ saves'[r].of = changes' /\ saves'[r].in \in Workspaces
        /\ changes' \in memory'[saves'[r].in] /\ operation' = operation

SavesGo ==
  /\ Len(saves') \in Nat /\ DOMAIN saves' = 1 .. Len(saves') /\ DOMAIN saves \subseteq DOMAIN saves'
  /\ \A r \in DOMAIN saves : SaveGoes(r)
  /\ \A r \in DOMAIN saves' : r \in DOMAIN saves \/ SaveComes(r)
  /\ saves' \in Seq(SaveTypes')

\* What a step may do to an operation.
OperationGoes(o) ==
  LET old == operation[o]
      new == operation'[o]
  IN \/ new = old
     \/ old = Idle /\ new.at = "writes" /\ new.of = 0 /\ NewTask(new.task)
     \/ /\ old = Idle /\ new.at = "directory" /\ NewTask(new.task)
        /\ changes' = changes + 1 /\ new.of = changes' /\ new.in \in Workspaces
        /\ changes' \in memory'[new.in] /\ saves' = saves
     \/ /\ new.of = old.of /\ new.in = old.in
        /\ \/ /\ old.at = "directory" /\ new.at = "writes" /\ NewTask(new.task)
              /\ DirectoryDone(o)
           \/ /\ old.at = "writes" /\ new.at = "chained" /\ new.task = old.task
              /\ tasks[old.task].at = "written" /\ new.save # 0
           \/ old.at = "chained" /\ new.at = "done" /\ new.task = old.task
           \/ new.at = "reloads" /\ old.at \in {"directory", "writes", "chained"}
           \/ old.at = "reloads" /\ new.at = "failed"

OperationsGo ==
  /\ \A o \in Operations : OperationGoes(o)
  /\ operation' \in [Operations -> OperationTypes']

StateGoes ==
  /\ memory' \in Snapshots' /\ stored' \in Snapshots' /\ failures' \in 0 .. MaxFailures
  /\ reader' \in [Readers -> ReaderTypes']
  /\ \A r \in Readers : reader'[r].at = "reads" => reader'[r].in \in Workspaces
  /\ lost \subseteq lost' /\ lost' \subseteq 1 .. changes'
  /\ \A w \in Workspaces : memory[w] \subseteq memory'[w] \cup lost'

\* What a step may do.
Goes == Grows /\ SavesGo /\ OperationsGo /\ StateGoes

\* What is left alone.
LEMMA SameGoes ==
  ASSUME Inv, Grows
  PROVE  /\ saves' = saves => SavesGo
         /\ operation' = operation => OperationsGo
         /\ UNCHANGED <<memory, stored, reader, failures>> /\ lost \subseteq lost'
              /\ lost' \subseteq 1 .. changes' => StateGoes
         /\ UNCHANGED <<memory, stored, reader, lost, failures>> => StateGoes
<1>1. /\ SaveTypes \subseteq SaveTypes' /\ OperationTypes \subseteq OperationTypes'
      /\ Snapshots \subseteq Snapshots' /\ ReaderTypes \subseteq ReaderTypes'
      /\ lost \subseteq 1 .. changes'
  <2>1. lost \subseteq 1 .. changes
    BY DEF Inv, Typed
  <2>2. QED BY <2>1, TypesGrow
<1>2. ASSUME saves' = saves PROVE SavesGo
  <2>1. saves' \in Seq(SaveTypes')
    BY <1>1, <1>2, SeqMonotonic DEF Inv, Typed
  <2>2. QED BY <1>2, <2>1, Elements DEF SavesGo, SaveGoes
<1>3. ASSUME operation' = operation PROVE OperationsGo
  BY <1>1, <1>3 DEF OperationsGo, OperationGoes, Inv, Typed
<1>4. ASSUME UNCHANGED <<memory, stored, reader, failures>>, lost \subseteq lost',
             lost' \subseteq 1 .. changes'
      PROVE  StateGoes
  BY <1>1, <1>4 DEF StateGoes, Inv, Typed
<1>5. QED BY <1>1, <1>2, <1>3, <1>4

\* A new change, in memory.
LEMMA ChangeGoes ==
  ASSUME Inv, Grows, NEW w \in Workspaces, Change(w),
         UNCHANGED <<stored, reader, lost, failures>>
  PROVE  /\ StateGoes /\ changes' = changes + 1 /\ changes' # 0 /\ changes' \in memory'[w]
<1>1. /\ Snapshots \subseteq Snapshots' /\ changes \in Nat /\ memory \in Snapshots
      /\ stored \in Snapshots /\ failures \in 0 .. MaxFailures
      /\ changes' = changes + 1 /\ memory' = [memory EXCEPT ![w] = @ \cup {changes + 1}]
  BY TypesGrow DEF Inv, Typed, Change
<1>2. memory' \in Snapshots'
  BY <1>1 DEF Snapshots
<1>3. changes' \in memory'[w] /\ \A v \in Workspaces : memory[v] \subseteq memory'[v]
  BY <1>1 DEF Snapshots
<1>4. /\ reader' \in [Readers -> ReaderTypes'] /\ lost' \subseteq 1 .. changes'
      /\ \A r \in Readers : reader'[r].at = "reads" => reader'[r].in \in Workspaces
  BY TypesGrow DEF Inv, Typed
<1>5. QED BY <1>1, <1>2, <1>3, <1>4 DEF StateGoes

\* What the numbers of the state do in a step that only moves a save on, or not even.
LEMMA Same ==
  ASSUME Inv, [Next]_vars, changes' = changes, Len(saves') = Len(saves)
  PROVE  Grows
<1>1. changes \in Nat /\ Len(saves) \in Nat
  BY Elements DEF Inv, Typed
<1>2. QED BY <1>1, TasksTyped

\* One save that moves on.
LEMMA MovedGoes ==
  ASSUME Inv, Grows, NEW s \in DOMAIN saves, NEW at, NEW task, SaveMoved(s, at, task),
         SaveGoes(s)
  PROVE  SavesGo
<1>1. saves' \in Seq(SaveTypes') /\ DOMAIN saves' = DOMAIN saves /\ Len(saves') = Len(saves)
      /\ \A r \in DOMAIN saves : r # s => saves'[r] = saves[r]
  BY DEF SaveMoved
<1>2. \A r \in DOMAIN saves : r # s => SaveGoes(r)
  BY <1>1 DEF SaveGoes
<1>3. QED BY <1>1, <1>2, Elements DEF SavesGo

\* The chain.
LEMMA ChainGoes ==
  ASSUME Inv, [Next]_vars, NEW s \in DOMAIN saves,
         RunSave(s) \/ DeleteDone(s) \/ SaveDone(s) \/ RejectSave(s)
  PROVE  Goes
<1>0. /\ Len(tasks) \in Nat /\ saves[s] \in SaveTypes
      /\ DOMAIN saves = 1 .. Len(saves) /\ Len(saves) \in Nat
      /\ {"saved", "rejected", "deletes", "writes"} \subseteq Progress
  BY Elements DEF Progress
<1>1. /\ UNCHANGED <<changes, memory, operation, stored, reader, failures>>
      /\ lost \subseteq lost' /\ lost' \subseteq 1 .. changes'
  <2>1. UNCHANGED <<changes, memory, operation, stored, reader, failures>>
    BY DEF RunSave, DeleteDone, SaveDone, RejectSave
  <2>2. lost \subseteq 1 .. changes /\ memory \in Snapshots
    BY DEF Inv, Typed
  <2>3. CASE DeleteDone(s)
    <3>1. PICK written : lost' = lost \cup ((ChangesMade \cap memory[saves[s].in]) \ written)
      BY <2>3 DEF DeleteDone
    <3>2. saves[s].in \in Workspaces
      BY <2>3, Elements DEF DeleteDone, Inv, Awaited
    <3>3. memory[saves[s].in] \subseteq 1 .. changes
      BY <2>2, <3>2 DEF Snapshots
    <3>4. QED BY <2>1, <2>2, <3>1, <3>3
  <2>4. CASE RunSave(s) \/ SaveDone(s) \/ RejectSave(s)
    BY <2>1, <2>2, <2>4 DEF RunSave, SaveDone, RejectSave
  <2>5. QED BY <2>1, <2>3, <2>4
<1>2. SUFFICES SavesGo /\ Len(saves') = Len(saves)
  <2>1. Grows => OperationsGo /\ StateGoes
    BY <1>1, SameGoes
  <2>2. Len(saves') = Len(saves) => Grows
    BY <1>1, Same
  <2>3. QED BY <2>1, <2>2 DEF Goes
<1>3. SUFFICES \E at, task : SaveMoved(s, at, task) /\ SaveGoes(s)
  <2>1. ASSUME NEW at, NEW task, SaveMoved(s, at, task), SaveGoes(s)
        PROVE  SavesGo /\ Len(saves') = Len(saves)
    <3>1. Len(saves') = Len(saves)
      BY <2>1 DEF SaveMoved
    <3>2. Grows
      BY <1>1, <3>1, Same
    <3>3. QED BY <2>1, <3>1, <3>2, MovedGoes
  <2>2. QED BY <2>1
<1>4. CASE UNCHANGED queues /\ \E at \in Progress : Step(s, at)
           /\ \/ saves[s].at = "chained" /\ Passed(s) /\ saves[s].kind = "local" /\ at = "saved"
              \/ saves[s].at = "writes" /\ Written(s) /\ at = "saved"
              \/ saves[s].at # "saved" /\ at = "rejected"
  <2>1. PICK at \in Progress : Step(s, at)
           /\ \/ saves[s].at = "chained" /\ Passed(s) /\ saves[s].kind = "local" /\ at = "saved"
              \/ saves[s].at = "writes" /\ Written(s) /\ at = "saved"
              \/ saves[s].at # "saved" /\ at = "rejected"
    BY <1>4
  <2>2. Len(tasks) <= Len(tasks')
    BY <1>0, <1>4 DEF queues
  <2>3. SaveMoved(s, at, saves[s].task)
    BY <2>1, <2>2, SaveSteps
  <2>4. SaveGoes(s)
    BY <2>1, <2>3 DEF SaveMoved, SaveGoes
  <2>5. QED BY <2>3, <2>4
<1>5. CASE \E at, task :
             /\ at \in Progress
             /\ \/ saves' = [saves EXCEPT ![s].task = task, ![s].at = at]
                \/ saves' = [saves EXCEPT ![s].at = at, ![s].task = task]
             /\ task = Len(tasks) + 1 /\ Len(tasks') = Len(tasks) + 1
             /\ \/ /\ saves[s].at = "chained" /\ Passed(s)
                   /\ \/ saves[s].kind = "delete" /\ at = "deletes"
                      \/ saves[s].kind \in {"workspace", "full"} /\ at = "writes" /\ RunSave(s)
                \/ saves[s].at = "deletes" /\ at = "writes" /\ DeleteDone(s)
  <2>1. PICK at, task :
             /\ at \in Progress
             /\ \/ saves' = [saves EXCEPT ![s].task = task, ![s].at = at]
                \/ saves' = [saves EXCEPT ![s].at = at, ![s].task = task]
             /\ task = Len(tasks) + 1 /\ Len(tasks') = Len(tasks) + 1
             /\ \/ /\ saves[s].at = "chained" /\ Passed(s)
                   /\ \/ saves[s].kind = "delete" /\ at = "deletes"
                      \/ saves[s].kind \in {"workspace", "full"} /\ at = "writes" /\ RunSave(s)
                \/ saves[s].at = "deletes" /\ at = "writes" /\ DeleteDone(s)
    BY <1>5
  <2>2. SaveMoved(s, at, task)
    BY <2>1, SaveSteps
  <2>3. NewTask(task)
    BY <2>1 DEF NewTask
  <2>4. SaveGoes(s)
    BY <2>1, <2>2, <2>3 DEF SaveMoved, SaveGoes
  <2>5. QED BY <2>2, <2>4
<1>6. ASSUME NEW task, tasks' = Append(tasks, task)
      PROVE  Len(tasks') = Len(tasks) + 1
  <2>1. tasks \in Seq(TaskTypes)
    BY DEF Inv, Typed
  <2>2. QED BY <1>6, <2>1, AppendTyped
<1>7. CASE RunSave(s)
  <2>1. CASE saves[s].kind = "local"
    BY <1>0, <1>4, <1>7, <2>1 DEF RunSave
  <2>2. CASE saves[s].kind # "local"
    <3>1. PICK kind, rows, w : EnqueueWorkspacePersist(w, rows) \/ EnqueueControlPlanePersist(kind, rows)
      BY <1>0, <1>7, <2>2 DEF RunSave, SaveTypes
    <3>2. Len(tasks') = Len(tasks) + 1
      BY <1>6, <3>1 DEF EnqueueWorkspacePersist, EnqueueControlPlanePersist
    <3>3. PICK at, task : /\ saves' = [saves EXCEPT ![s].task = task, ![s].at = at]
                          /\ task = Len(tasks) + 1
                          /\ at = IF saves[s].kind = "delete" THEN "deletes" ELSE "writes"
      BY <1>7, <2>2 DEF RunSave
    <3>4. at \in Progress /\ saves[s].at = "chained" /\ Passed(s)
          /\ saves[s].kind \in {"delete", "workspace", "full"}
      BY <1>0, <1>7, <2>2, <3>3 DEF RunSave, SaveTypes
    <3>5. QED BY <1>5, <1>7, <3>2, <3>3, <3>4
  <2>3. QED BY <2>1, <2>2
<1>8. CASE DeleteDone(s)
  <2>1. PICK rows : EnqueueWorkspacePersist(saves[s].in, rows)
    BY <1>8 DEF DeleteDone
  <2>2. Len(tasks') = Len(tasks) + 1
    BY <1>6, <2>1 DEF EnqueueWorkspacePersist
  <2>3. PICK at, task : /\ saves' = [saves EXCEPT ![s].at = at, ![s].task = task]
                        /\ task = Len(tasks) + 1 /\ at = "writes" /\ saves[s].at = "deletes"
    BY <1>8 DEF DeleteDone
  <2>4. QED BY <1>0, <1>5, <1>8, <2>2, <2>3
<1>9. CASE SaveDone(s)
  BY <1>0, <1>4, <1>9 DEF SaveDone
<1>10. CASE RejectSave(s)
  <2>1. saves[s].at # "saved" /\ Step(s, "rejected") /\ UNCHANGED queues
    BY <1>10 DEF RejectSave
  <2>2. QED BY <1>0, <1>4, <2>1
<1>11. QED BY <1>7, <1>8, <1>9, <1>10

\* A call that is added to the chain.
LEMMA CallGoes ==
  ASSUME Inv, Grows, NEW in \in Workspaces \cup {All}, NEW of \in 0 .. changes',
         NEW kind \in {"workspace", "full", "delete", "local"},
         saves' = Append(saves, Call(in, of, kind)),
         \/ kind = "local"
         \/ /\ changes' = changes + 1 /\ of = changes' /\ in \in Workspaces
            /\ changes' \in memory'[in] /\ operation' = operation
  PROVE  SavesGo
<1> DEFINE call == Call(in, of, kind)
<1>1. /\ Len(saves') = Len(saves) + 1 /\ DOMAIN saves' = 1 .. Len(saves) + 1
      /\ \A r \in DOMAIN saves : r \in DOMAIN saves' /\ saves'[r] = saves[r]
      /\ saves'[Len(saves) + 1] = call
      /\ saves' \in Seq(SaveTypes \cup {call})
  BY CallIs
<1>2. /\ SaveTypes \subseteq SaveTypes' /\ Len(tasks') \in Nat
      /\ Len(saves) \in Nat /\ DOMAIN saves = 1 .. Len(saves)
  BY TypesGrow, Elements DEF Grows
<1>3. call \in SaveTypes'
  BY <1>2 DEF Call, SaveTypes
<1>4. saves' \in Seq(SaveTypes')
  BY <1>1, <1>2, <1>3, SeqMonotonic
<1>5. \A r \in DOMAIN saves : SaveGoes(r)
  BY <1>1 DEF SaveGoes
<1>6. SaveComes(Len(saves) + 1)
  BY <1>1 DEF SaveComes, Call
<1>7. QED BY <1>1, <1>2, <1>4, <1>5, <1>6 DEF SavesGo

\* An operation that becomes new.
LEMMA OperationIs ==
  ASSUME Inv, Grows, NEW o \in Operations, NEW new \in OperationTypes',
         operation' = [operation EXCEPT ![o] = new], OperationGoes(o)
  PROVE  OperationsGo
<1>1. operation \in [Operations -> OperationTypes] /\ OperationTypes \subseteq OperationTypes'
  BY TypesGrow DEF Inv, Typed
<1>2. operation' \in [Operations -> OperationTypes']
  BY <1>1
<1>3. \A p \in Operations : p # o => operation'[p] = operation[p]
  BY <1>1
<1>4. QED BY <1>2, <1>3 DEF OperationsGo, OperationGoes

\* Each queue takes one write.
LEMMA OneQueued ==
  ASSUME Inv,
         \/ \E w, rows : EnqueueWorkspacePersist(w, rows)
         \/ \E kind, rows : EnqueueControlPlanePersist(kind, rows)
         \/ EnqueueAuthPersist
  PROVE  NewTask(Len(tasks) + 1)
<1>1. PICK task : tasks' = Append(tasks, task)
  BY DEF EnqueueWorkspacePersist, EnqueueControlPlanePersist, EnqueueAuthPersist
<1>2. tasks \in Seq(TaskTypes)
  BY DEF Inv, Typed
<1>3. QED BY <1>1, <1>2, AppendTyped DEF NewTask

\* The requests.
LEMMA RequestsGo ==
  ASSUME Inv, [Next]_vars, RequestSteps
  PROVE  Goes
<1>0. /\ Len(tasks) \in Nat /\ Len(saves) \in Nat /\ changes \in Nat
      /\ operation \in [Operations -> OperationTypes] /\ Nothing \in Snapshots
  BY Elements DEF Inv, Typed, Nothing, Snapshots
<1>1. ASSUME NEW w \in Workspaces, NEW kind \in {"workspace", "full", "delete"}, Save(w, kind)
      PROVE  Goes
  <2>1. /\ Change(w) /\ saves' = Append(saves, Call(w, changes + 1, kind))
        /\ UNCHANGED <<operation, queues, slots, stored, reader, lost, failures>>
    BY <1>1 DEF Save
  <2>2. changes' = changes + 1 /\ Len(saves') = Len(saves) + 1
    BY <2>1, CallIs DEF Change
  <2>3. Grows
    BY <1>0, <2>2, TasksTyped
  <2>4. StateGoes /\ changes' \in memory'[w]
    BY <2>1, <2>3, ChangeGoes
  <2>5. SavesGo
    BY <1>0, <2>1, <2>2, <2>3, <2>4, CallGoes
  <2>6. QED BY <2>1, <2>3, <2>4, <2>5, SameGoes DEF Goes
<1>2. ASSUME NEW o \in Operations, Login(o)
      PROVE  Goes
  <2>1. /\ operation[o] = Idle /\ EnqueueAuthPersist /\ Does(o, "writes", Len(tasks) + 1)
        /\ UNCHANGED <<changes, memory, saves, slots, stored, reader, lost, failures>>
    BY <1>2 DEF Login
  <2>2. Grows
    BY <2>1, Same
  <2>3. NewTask(Len(tasks) + 1)
    BY <2>1, OneQueued
  <2>4. PICK new : new = [Idle EXCEPT !.at = "writes", !.task = Len(tasks) + 1]
    OBVIOUS
  <2>5. operation' = [operation EXCEPT ![o] = new]
    BY <1>0, <2>1, <2>4 DEF Does, OperationTypes
  <2>6. new \in OperationTypes'
    <3>1. Nothing \in Snapshots' /\ Len(tasks) + 1 \in 0 .. Len(tasks') /\ Len(saves') \in Nat
          /\ changes' \in Nat
      BY <1>0, <2>2, <2>3, TypesGrow DEF NewTask, Grows
    <3>2. new = [at |-> "writes", of |-> 0, in |-> All, task |-> Len(tasks) + 1, save |-> 0,
                 read |-> Nothing]
      BY <2>4 DEF Idle
    <3>3. 0 \in 0 .. changes' /\ 0 \in 0 .. Len(saves') /\ All \in Workspaces \cup {All}
      BY <3>1
    <3>4. QED BY <3>1, <3>2, <3>3 DEF OperationTypes
  <2>7. OperationGoes(o)
    BY <1>0, <2>1, <2>3, <2>4, <2>5 DEF OperationGoes, Idle
  <2>8. OperationsGo
    BY <2>2, <2>5, <2>6, <2>7, OperationIs
  <2>9. QED BY <2>1, <2>2, <2>8, SameGoes DEF Goes
<1>3. ASSUME NEW o \in Operations, NEW w \in Workspaces, Administer(o, w)
      PROVE  Goes
  <2>1. PICK new : /\ new = [Idle EXCEPT !.at = "directory", !.of = changes + 1, !.in = w,
                                          !.task = Len(tasks) + 1]
                   /\ operation' = [operation EXCEPT ![o] = new]
                   /\ operation[o] = Idle /\ Change(w)
                   /\ EnqueueControlPlanePersist("accounts", Nothing)
                   /\ UNCHANGED <<saves, slots, stored, reader, lost, failures>>
    BY <1>3 DEF Administer
  <2>2. Grows
    BY <1>0, <2>1, TasksTyped DEF Change
  <2>3. NewTask(Len(tasks) + 1)
    BY <2>1, OneQueued
  <2>4. StateGoes /\ changes' = changes + 1 /\ changes' \in memory'[w]
    BY <2>1, <2>2, ChangeGoes
  <2>5. new \in OperationTypes'
    <3>1. Nothing \in Snapshots' /\ Len(tasks) + 1 \in 0 .. Len(tasks') /\ Len(saves') \in Nat
          /\ changes' \in Nat
      BY <1>0, <2>2, <2>3, TypesGrow DEF NewTask, Grows
    <3>2. new = [at |-> "directory", of |-> changes + 1, in |-> w, task |-> Len(tasks) + 1,
                 save |-> 0, read |-> Nothing]
      BY <2>1 DEF Idle
    <3>3. changes + 1 \in 0 .. changes' /\ 0 \in 0 .. Len(saves') /\ w \in Workspaces \cup {All}
      BY <1>0, <2>4, <3>1
    <3>4. QED BY <3>1, <3>2, <3>3 DEF OperationTypes
  <2>6. OperationGoes(o)
    <3>1. operation'[o] = new /\ new.at = "directory" /\ new.of = changes + 1 /\ new.in = w
          /\ new.task = Len(tasks) + 1
      BY <1>0, <2>1 DEF Idle
    <3>2. QED BY <2>1, <2>3, <2>4, <3>1 DEF OperationGoes
  <2>7. OperationsGo
    BY <2>1, <2>2, <2>5, <2>6, OperationIs
  <2>8. QED BY <2>1, <2>2, <2>4, <2>7, SameGoes DEF Goes
<1>4. QED BY <1>1, <1>2, <1>3 DEF RequestSteps

\* Lists of the state are replaced: the snapshots of deletions keep the old ones.
LEMMA DetachGoes ==
  ASSUME Inv, [Next]_vars, Detach, changes' = changes
  PROVE  Grows /\ SavesGo
<1>1. /\ DOMAIN saves = 1 .. Len(saves) /\ Len(saves) \in Nat /\ memory \in Snapshots
      /\ \A s \in DOMAIN saves : saves[s] \in SaveTypes
  BY Elements DEF Inv, Typed
<1>2. DOMAIN saves' = DOMAIN saves
  BY DEF Detach
<1>3. ASSUME NEW s \in DOMAIN saves
      PROVE  /\ saves'[s] \in SaveTypes
             /\ saves'[s].in = saves[s].in /\ saves'[s].of = saves[s].of
             /\ saves'[s].kind = saves[s].kind
             /\ saves'[s].at = saves[s].at /\ saves'[s].task = saves[s].task
             /\ saves'[s].rows \in {saves[s].rows, saves[s].rows \cup {memory}}
  <2>1. PICK save, rows : save = saves[s] /\ rows = save.rows \cup {memory}
    OBVIOUS
  <2>2. save \in SaveTypes
    BY <1>1, <2>1
  <2>3. rows \in SUBSET Snapshots
    BY <1>1, <2>1, <2>2 DEF SaveTypes
  <2>4. saves'[s] = save \/ saves'[s] = [save EXCEPT !.rows = rows]
    BY <2>1 DEF Detach
  <2>5. QED BY <2>1, <2>2, <2>3, <2>4 DEF SaveTypes
<1>4. saves' \in Seq(SaveTypes) /\ Len(saves') = Len(saves)
  <2>1. saves' \in [1 .. Len(saves) -> SaveTypes]
    BY <1>1, <1>2, <1>3 DEF Detach
  <2>2. QED BY <1>1, <2>1, SeqDef, LenProperties
<1>5. Grows
  BY <1>4, Same
<1>6. saves' \in Seq(SaveTypes')
  BY <1>4, <1>5, TypesGrow, SeqMonotonic
<1>7. \A s \in DOMAIN saves : SaveGoes(s)
  BY <1>3 DEF SaveGoes
<1>8. QED BY <1>1, <1>2, <1>4, <1>5, <1>6, <1>7 DEF SavesGo

\* The operations.
LEMMA AccountsGo ==
  ASSUME Inv, [Next]_vars, NEW o \in Operations,
         DirectoryDone(o) \/ OperationWritten(o) \/ OperationDone(o) \/ OperationFails(o)
         \/ LoadIntoState(o)
  PROVE  Goes
<1>0. /\ Len(tasks) \in Nat /\ Len(saves) \in Nat /\ changes \in Nat
      /\ DOMAIN saves = 1 .. Len(saves)
      /\ operation \in [Operations -> OperationTypes] /\ operation[o] \in OperationTypes
      /\ memory \in Snapshots /\ stored \in Snapshots
  BY Elements DEF Inv, Typed
<1>1. PICK old : old = operation[o]
  OBVIOUS
<1>2. CASE DirectoryDone(o)
  <2>1. PICK new : new = [old EXCEPT !.at = "writes", !.task = Len(tasks) + 1]
    OBVIOUS
  <2>2. /\ operation' = [operation EXCEPT ![o] = new] /\ old.at = "directory"
        /\ EnqueueWorkspacePersist(old.in, memory)
        /\ UNCHANGED <<changes, memory, saves, slots, stored, reader, lost, failures>>
    BY <1>0, <1>1, <1>2, <2>1 DEF DirectoryDone, Does, OperationTypes
  <2>3. Grows /\ NewTask(Len(tasks) + 1)
    BY <2>2, Same, OneQueued
  <2>4. old \in OperationTypes' /\ Len(tasks) + 1 \in 0 .. Len(tasks')
    BY <1>0, <1>1, <2>3, TypesGrow DEF NewTask
  <2>5. new \in OperationTypes'
    BY <2>1, <2>4 DEF OperationTypes
  <2>6. operation'[o] = new /\ new.at = "writes" /\ new.task = Len(tasks) + 1
        /\ new.of = old.of /\ new.in = old.in
    BY <1>0, <1>1, <2>1, <2>2 DEF OperationTypes
  <2>7. OperationGoes(o)
    BY <1>1, <1>2, <2>2, <2>3, <2>6 DEF OperationGoes
  <2>8. QED BY <2>2, <2>3, <2>5, <2>7, OperationIs, SameGoes DEF Goes
<1>3. CASE OperationWritten(o)
  <2>1. PICK new : new = [old EXCEPT !.at = "chained", !.save = Len(saves) + 1]
    OBVIOUS
  <2>2. /\ operation' = [operation EXCEPT ![o] = new] /\ old.at = "writes"
        /\ tasks[old.task].at = "written" /\ saves' = Append(saves, Call(All, 0, "local"))
        /\ UNCHANGED <<changes, memory, queues, slots, stored, reader, lost, failures>>
    BY <1>0, <1>1, <1>3, <2>1 DEF OperationWritten, OperationTypes
  <2>3. Len(saves') = Len(saves) + 1
    BY <2>2, CallIs
  <2>4. Grows
    BY <1>0, <2>2, <2>3, TasksTyped
  <2>5. old \in OperationTypes' /\ Len(saves) + 1 \in 0 .. Len(saves') /\ 0 \in 0 .. changes'
    BY <1>0, <1>1, <2>2, <2>3, <2>4, TypesGrow
  <2>6. new \in OperationTypes'
    BY <2>1, <2>5 DEF OperationTypes
  <2>7. operation'[o] = new /\ new.at = "chained" /\ new.save = Len(saves) + 1
        /\ new.of = old.of /\ new.in = old.in /\ new.task = old.task
    BY <1>0, <1>1, <2>1, <2>2 DEF OperationTypes
  <2>8. OperationGoes(o)
    <3>1. new.save # 0
      BY <1>0, <2>7
    <3>2. QED BY <1>1, <2>2, <2>7, <3>1 DEF OperationGoes
  <2>9. SavesGo
    BY <2>2, <2>4, <2>5, CallGoes
  <2>10. QED BY <2>2, <2>4, <2>6, <2>8, <2>9, OperationIs, SameGoes DEF Goes
<1>4. CASE OperationDone(o) \/ OperationFails(o)
  <2>1. PICK new : new = IF OperationDone(o) THEN [old EXCEPT !.at = "done"]
                         ELSE [old EXCEPT !.at = "reloads", !.read = stored]
    OBVIOUS
  <2>2. /\ operation' = [operation EXCEPT ![o] = new]
        /\ UNCHANGED <<changes, memory, saves, queues, slots, stored, reader, lost, failures>>
        /\ IF OperationDone(o) THEN old.at = "chained" ELSE old.at \in {"directory", "writes", "chained"}
    <3>1. CASE OperationDone(o)
      BY <1>1, <2>1, <3>1 DEF OperationDone
    <3>2. CASE ~ OperationDone(o)
      <4>1. OperationFails(o)
        BY <1>4, <3>2
      <4>2. operation' = [operation EXCEPT ![o] = new]
        BY <1>0, <1>1, <2>1, <3>2, <4>1 DEF OperationFails, OperationTypes
      <4>3. QED BY <1>1, <3>2, <4>1, <4>2 DEF OperationFails
    <3>3. QED BY <3>1, <3>2
  <2>3. Grows
    BY <2>2, Same
  <2>4. old \in OperationTypes' /\ stored \in Snapshots'
    BY <1>0, <1>1, <2>3, TypesGrow
  <2>5. new \in OperationTypes'
    BY <2>1, <2>4 DEF OperationTypes
  <2>6. /\ operation'[o] = new /\ new.of = old.of /\ new.in = old.in /\ new.task = old.task
        /\ new.at = IF OperationDone(o) THEN "done" ELSE "reloads"
    BY <1>0, <1>1, <2>1, <2>2 DEF OperationTypes
  <2>7. OperationGoes(o)
    BY <1>1, <2>2, <2>6 DEF OperationGoes
  <2>8. QED BY <2>2, <2>3, <2>5, <2>7, OperationIs, SameGoes DEF Goes
<1>5. CASE LoadIntoState(o)
  <2>1. PICK new : new = [old EXCEPT !.at = "failed"]
    OBVIOUS
  <2>2. /\ operation' = [operation EXCEPT ![o] = new] /\ old.at = "reloads"
        /\ memory' = old.read /\ Detach
        /\ lost' = lost \cup UNION {memory[w] \ old.read[w] : w \in Workspaces}
        /\ UNCHANGED <<changes, queues, slots, stored, reader, failures>>
    BY <1>1, <1>5, <2>1 DEF LoadIntoState
  <2>3. Grows /\ SavesGo
    BY <2>2, DetachGoes
  <2>4. /\ old \in OperationTypes' /\ stored \in Snapshots' /\ old.read \in Snapshots'
        /\ ReaderTypes \subseteq ReaderTypes' /\ 1 .. changes \subseteq 1 .. changes'
    BY <1>0, <1>1, <2>3, TypesGrow DEF OperationTypes
  <2>5. new \in OperationTypes' /\ operation'[o] = new
        /\ new.of = old.of /\ new.in = old.in /\ new.at = "failed"
    BY <1>0, <1>1, <2>1, <2>2, <2>4 DEF OperationTypes
  <2>6. OperationGoes(o)
    BY <1>1, <2>2, <2>5 DEF OperationGoes
  <2>7. /\ lost \subseteq lost' /\ lost' \subseteq 1 .. changes'
        /\ \A w \in Workspaces : memory[w] \subseteq memory'[w] \cup lost'
    <3>1. lost \subseteq 1 .. changes /\ \A w \in Workspaces : memory[w] \subseteq 1 .. changes
      BY <1>0 DEF Inv, Typed, Snapshots
    <3>2. PICK gone : gone = UNION {memory[w] \ old.read[w] : w \in Workspaces}
      OBVIOUS
    <3>3. gone \subseteq 1 .. changes
      BY <3>1, <3>2
    <3>4. \A w \in Workspaces : memory[w] \subseteq old.read[w] \cup gone
      <4>1. ASSUME NEW w \in Workspaces, NEW c \in memory[w], c \notin old.read[w]
            PROVE  c \in gone
        <5>1. memory[w] \ old.read[w] \in {memory[v] \ old.read[v] : v \in Workspaces}
          OBVIOUS
        <5>2. c \in memory[w] \ old.read[w]
          BY <4>1
        <5>3. QED BY <3>2, <5>1, <5>2
      <4>2. QED BY <4>1
    <3>5. lost' = lost \cup gone /\ memory' = old.read
      BY <2>2, <3>2
    <3>6. QED BY <2>4, <3>1, <3>3, <3>4, <3>5
  <2>8. StateGoes
    BY <2>2, <2>4, <2>7 DEF StateGoes, Inv, Typed
  <2>9. QED BY <2>2, <2>3, <2>5, <2>6, <2>8, OperationIs DEF Goes
<1>6. QED BY <1>2, <1>3, <1>4, <1>5

\* Rows that are read.
LEMMA ReadsGo ==
  ASSUME Inv, [Next]_vars, Reads
  PROVE  Goes
<1>0. /\ memory \in Snapshots /\ stored \in Snapshots /\ lost \subseteq 1 .. changes
      /\ reader \in [Readers -> ReaderTypes] /\ failures \in 0 .. MaxFailures
      /\ \A r \in Readers : reader[r].at = "reads" => reader[r].in \in Workspaces
  BY DEF Inv, Typed
<1>1. PICK r \in Readers : TakeRows(r) \/ \E w \in Workspaces : ReadRows(r, w)
  BY DEF Reads
<1>2. CASE \E w \in Workspaces : ReadRows(r, w)
  <2>1. PICK w \in Workspaces : ReadRows(r, w)
    BY <1>2
  <2>2. PICK page : page = [at |-> "reads", in |-> w, rows |-> stored[w]]
    OBVIOUS
  <2>3. /\ reader' = [reader EXCEPT ![r] = page]
        /\ UNCHANGED <<changes, memory, saves, operation, queues, slots, stored, lost, failures>>
    BY <2>1, <2>2 DEF ReadRows
  <2>4. Grows
    BY <2>3, Same
  <2>5. /\ ReaderTypes \subseteq ReaderTypes' /\ 1 .. changes \subseteq 1 .. changes'
        /\ Snapshots \subseteq Snapshots'
    BY <2>4, TypesGrow
  <2>6. page \in ReaderTypes /\ page.at = "reads" /\ page.in = w
    BY <1>0, <2>2 DEF ReaderTypes, Snapshots
  <2>7. \A p \in Readers : reader'[p] = IF p = r THEN page ELSE reader[p]
    BY <1>0, <2>3
  <2>8. reader' \in [Readers -> ReaderTypes']
    BY <1>0, <2>3, <2>5, <2>6
  <2>9. StateGoes
    BY <1>0, <2>3, <2>5, <2>6, <2>7, <2>8 DEF StateGoes
  <2>10. QED BY <2>3, <2>4, <2>9, SameGoes DEF Goes
<1>3. CASE TakeRows(r)
  <2>1. PICK w, page : /\ w = reader[r].in /\ page = [reader[r] EXCEPT !.at = "done"]
    OBVIOUS
  <2>2. /\ reader[r].at = "reads" /\ w \in Workspaces /\ Detach
        /\ reader' = [reader EXCEPT ![r] = page]
        /\ UNCHANGED <<changes, operation, queues, slots, stored, failures>>
    BY <1>0, <1>3, <2>1 DEF TakeRows
  <2>3. PICK late \in SUBSET (stored[w] \ reader[r].rows), other \in SUBSET memory[w] :
          /\ memory' = [memory EXCEPT ![w] = reader[r].rows \cup late \cup other]
          /\ lost' = lost \cup (memory[w] \ (reader[r].rows \cup late \cup other))
    BY <1>3, <2>1 DEF TakeRows
  <2>4. PICK rows : rows = reader[r].rows \cup late \cup other
    OBVIOUS
  <2>5. rows \subseteq 1 .. changes /\ memory[w] \subseteq 1 .. changes
    BY <1>0, <2>2, <2>3, <2>4 DEF Snapshots, ReaderTypes
  <2>6. Grows /\ SavesGo
    BY <2>2, DetachGoes
  <2>7. /\ ReaderTypes \subseteq ReaderTypes' /\ 1 .. changes \subseteq 1 .. changes'
        /\ Snapshots \subseteq Snapshots'
    BY <2>6, TypesGrow
  <2>8. page \in ReaderTypes /\ page.at = "done"
    BY <1>0, <2>1 DEF ReaderTypes
  <2>9. \A p \in Readers : reader'[p] = IF p = r THEN page ELSE reader[p]
    BY <1>0, <2>2
  <2>10. reader' \in [Readers -> ReaderTypes']
    BY <1>0, <2>2, <2>7, <2>8
  <2>11. memory' = [memory EXCEPT ![w] = rows] /\ lost' = lost \cup (memory[w] \ rows)
    BY <2>3, <2>4
  <2>12. memory' \in Snapshots'
    BY <1>0, <2>2, <2>5, <2>7, <2>11 DEF Snapshots
  <2>13. /\ lost \subseteq lost' /\ lost' \subseteq 1 .. changes'
         /\ \A v \in Workspaces : memory[v] \subseteq memory'[v] \cup lost'
    <3>1. \A v \in Workspaces : memory'[v] = IF v = w THEN rows ELSE memory[v]
      BY <1>0, <2>11 DEF Snapshots
    <3>2. QED BY <1>0, <2>5, <2>7, <2>11, <3>1
  <2>14. stored' \in Snapshots' /\ failures' \in 0 .. MaxFailures
    BY <1>0, <2>2, <2>7
  <2>15. \A p \in Readers : reader'[p].at = "reads" => reader'[p].in \in Workspaces
    BY <1>0, <2>8, <2>9
  <2>16. StateGoes
    BY <2>10, <2>12, <2>13, <2>14, <2>15 DEF StateGoes
  <2>17. QED BY <2>2, <2>6, <2>16, SameGoes DEF Goes
<1>4. QED BY <1>1, <1>2, <1>3

\* The writes: a commit makes the database what the snapshot says.
LEMMA WritesGo ==
  ASSUME Bounds, Inv, [Next]_vars, NEW t \in DOMAIN tasks, StartTask(t) \/ Commit(t) \/ Fail(t)
  PROVE  Goes
<1>0. tasks[t] \in TaskTypes /\ stored \in Snapshots /\ memory \in Snapshots
      /\ failures \in 0 .. MaxFailures
  BY Elements DEF Inv, Typed
<1>1. UNCHANGED <<changes, memory, saves, operation, reader, lost>>
  BY DEF StartTask, Commit, Fail
<1>2. Grows
  BY <1>1, Same
<1>3. SavesGo /\ OperationsGo
  BY <1>1, <1>2, SameGoes
<1>4. stored' \in Snapshots
  <2>1. CASE Commit(t)
    <3>1. tasks[t].rows \in Snapshots
      BY <1>0 DEF TaskTypes, Snapshots
    <3>2. CASE tasks[t].kind = "workspace"
      <4>1. stored' = [stored EXCEPT ![tasks[t].in] = tasks[t].rows[tasks[t].in]]
        BY <2>1, <3>2 DEF Commit
      <4>2. tasks[t].in \in Workspaces
        BY <3>2 DEF Inv, Typed
      <4>3. QED BY <1>0, <3>1, <4>1, <4>2 DEF Snapshots
    <3>3. CASE tasks[t].kind = "full"
      <4>1. stored' = tasks[t].rows
        BY <2>1, <3>3 DEF Commit
      <4>2. QED BY <3>1, <4>1
    <3>4. CASE tasks[t].kind \notin {"workspace", "full"}
      <4>1. stored' = stored
        BY <2>1, <3>4 DEF Commit
      <4>2. QED BY <1>0, <4>1
    <3>5. QED BY <3>2, <3>3, <3>4
  <2>2. CASE StartTask(t) \/ Fail(t)
    BY <1>0, <2>2 DEF StartTask, Fail
  <2>3. QED BY <2>1, <2>2
<1>5. failures' \in 0 .. MaxFailures
  BY <1>0 DEF StartTask, Commit, Fail, Bounds
<1>6. StateGoes
  BY <1>0, <1>1, <1>2, <1>4, <1>5, TypesGrow DEF StateGoes, Inv, Typed
<1>7. QED BY <1>2, <1>3, <1>6 DEF Goes

\* Every step.
LEMMA StepGoes ==
  ASSUME Bounds, Inv, [Next]_vars
  PROVE  Goes /\ Typed'
<1>1. Goes
  <2>1. CASE UNCHANGED vars
    <3>1. Grows
      BY <2>1, Same DEF vars
    <3>2. QED BY <2>1, <3>1, SameGoes DEF vars, Goes
  <2>2. CASE Next
    BY <2>2, RequestsGo, ChainGoes, AccountsGo, ReadsGo, WritesGo DEF Next, Chain, Accounts
  <2>3. QED BY <2>1, <2>2
<1>2. changes \in Nat
  BY DEF Inv, Typed
<1>3. TypedTasks' /\ waiters' \in Seq(DOMAIN tasks')
  <2>1. changes' \in Nat /\ changes <= changes' /\ Len(saves') \in Nat /\ Len(saves) <= Len(saves')
    BY <1>1 DEF Goes, Grows
  <2>2. QED BY <2>1, TasksTyped
<1>4. Typed'
  <2>1. changes' \in Nat /\ saves' \in Seq(SaveTypes') /\ operation' \in [Operations -> OperationTypes']
    BY <1>1 DEF Goes, Grows, SavesGo, OperationsGo
  <2>2. /\ memory' \in Snapshots' /\ stored' \in Snapshots'
        /\ failures' \in 0 .. MaxFailures /\ lost' \subseteq 1 .. changes'
        /\ reader' \in [Readers -> ReaderTypes']
        /\ \A r \in Readers : reader'[r].at = "reads" => reader'[r].in \in Workspaces
    BY <1>1, <1>2 DEF Goes, StateGoes
  <2>3. QED BY <1>3, <2>1, <2>2 DEF Typed, TypedTasks
<1>5. QED BY <1>1, <1>4

-----------------------------------------------------------------------------
(* The invariant is kept.                                                  *)

\* The queues.
LEMMA QueuesKept ==
  ASSUME Bounds, Inv, [Next]_vars
  PROVE  QueueInv'
<1>1. Typed'
  BY StepGoes
<1>2. CASE QueueStays
  BY <1>2 DEF Inv, QueueInv, TailsReach, AfterReaches, OrderKept, WaitersWait, SlotsCounted,
              TailOf, Conflict, Settled, Connected, Runs, QueueStays, queues, slots
<1>3. CASE QueueTakes
  BY <1>1, <1>3, TakeKeeps
<1>4. CASE QueueMoves
  <2>1. PICK t \in DOMAIN tasks :
          \/ StartTask(t)
          \/ tasks[t].at = "runs" /\ \E at \in {"written", "failed"} : Settle(t, at)
    BY <1>4 DEF QueueMoves
  <2>2. UNCHANGED <<controlTail, authTail, workspaceTails>>
    BY <1>4 DEF QueueMoves
  <2>3. QED BY <2>1, <2>2, StartKeeps, SettleKeeps
<1>5. QED BY <1>2, <1>3, <1>4, QueueStep

\* The chain: what is saved stays saved.
LEMMA ChainStays ==
  ASSUME Bounds, Inv, [Next]_vars
  PROVE  ChainKept'
<1>1. SavesGo /\ DOMAIN saves = 1 .. Len(saves) /\ Len(saves) \in Nat
  BY StepGoes, Elements DEF Goes
<1>2. \A r \in DOMAIN saves : saves[r].at = "saved" => saves'[r].at = "saved"
  BY <1>1 DEF SavesGo, SaveGoes
<1>3. ASSUME NEW s \in DOMAIN saves', saves'[s].at \in {"deletes", "writes", "saved"},
             NEW e \in 1 .. s - 1
      PROVE  saves'[e].at = "saved"
  <2>1. s \in DOMAIN saves
    BY <1>1, <1>3 DEF SavesGo, SaveComes
  <2>2. e \in DOMAIN saves
    BY <1>1, <2>1
  <2>3. Passed(s)
    BY <1>1, <1>3, <2>1 DEF SavesGo, SaveGoes, ChainKept, Inv
  <2>4. QED BY <1>2, <2>2, <2>3 DEF Passed
<1>4. QED BY <1>3 DEF ChainKept, Passed

\* Requests: a change is new, and made by one of them.
LEMMA RequestsApart ==
  ASSUME Bounds, Inv, [Next]_vars
  PROVE  OneRequest'
<1>1. /\ SavesGo /\ OperationsGo /\ changes \in Nat
      /\ \A s \in DOMAIN saves : saves[s].of \in 0 .. changes
      /\ \A o \in Operations : operation[o].of \in 0 .. changes
  BY StepGoes, Elements DEF Goes, SaveTypes, OperationTypes, Inv, Typed
<1>2. ASSUME NEW s \in DOMAIN saves', NEW r \in DOMAIN saves', saves'[s].kind # "local",
             saves'[r].kind # "local", saves'[s].of = saves'[r].of
      PROVE  s = r
  <2>1. CASE s \in DOMAIN saves /\ r \in DOMAIN saves
    BY <1>1, <1>2, <2>1 DEF SavesGo, SaveGoes, OneRequest, Inv
  <2>2. CASE s \notin DOMAIN saves /\ r \notin DOMAIN saves
    BY <1>1, <2>2 DEF SavesGo, SaveComes
  <2>3. ASSUME NEW a \in DOMAIN saves, NEW b \in DOMAIN saves', b \notin DOMAIN saves,
               saves'[b].kind # "local"
        PROVE  saves'[a].of # saves'[b].of
    BY <1>1, <2>3 DEF SavesGo, SaveGoes, SaveComes
  <2>4. QED BY <1>2, <2>1, <2>2, <2>3
<1>3. ASSUME NEW s \in DOMAIN saves', NEW o \in Operations, saves'[s].kind # "local",
             operation'[o].of # 0
      PROVE  saves'[s].of # operation'[o].of
  <2>1. OperationGoes(o)
    BY <1>1 DEF OperationsGo
  <2>2. CASE s \in DOMAIN saves
    <3>1. saves'[s].kind = saves[s].kind /\ saves'[s].of = saves[s].of
      BY <1>1, <2>2 DEF SavesGo, SaveGoes
    <3>2. operation'[o].of \in {0, operation[o].of, changes + 1}
      BY <2>1 DEF OperationGoes
    <3>3. QED BY <1>1, <1>3, <2>2, <3>1, <3>2 DEF OneRequest, Inv
  <2>3. CASE s \notin DOMAIN saves
    <3>1. changes' = changes + 1 /\ saves'[s].of = changes' /\ operation' = operation
      BY <1>1, <1>3, <2>3 DEF SavesGo, SaveComes
    <3>2. QED BY <1>1, <3>1
  <2>4. QED BY <2>2, <2>3
<1>4. QED BY <1>2, <1>3 DEF OneRequest

\* What is awaited: the writes of the saves.
LEMMA SavesAwait ==
  ASSUME Bounds, Inv, [Next]_vars, NEW s \in DOMAIN saves'
  PROVE  /\ saves'[s].at = "deletes" => saves'[s].kind = "delete"
         /\ saves'[s].at \in {"deletes", "writes"} => saves'[s].kind # "local"
         /\ saves'[s].at \in {"deletes", "writes", "saved"} /\ saves'[s].kind # "local" =>
              saves'[s].task # 0
         /\ saves'[s].kind # "local" => saves'[s].in \in Workspaces /\ saves'[s].of # 0
         /\ saves'[s].at = "saved" /\ saves'[s].kind # "local" =>
              tasks'[saves'[s].task].at = "written"
<1>1. /\ SavesGo /\ changes \in Nat
      /\ DOMAIN tasks = 1 .. Len(tasks) /\ Len(tasks) \in Nat
      /\ \A t \in DOMAIN tasks : tasks[t].at = "written" => tasks'[t].at = "written"
  <2>1. Goes
    BY StepGoes
  <2>2. changes' \in Nat /\ changes <= changes' /\ Len(saves') \in Nat /\ Len(saves) <= Len(saves')
    BY <2>1 DEF Goes, Grows
  <2>3. \A t \in DOMAIN tasks : tasks[t].at = "written" => tasks'[t].at = "written"
    BY <2>2, TasksTyped
  <2>4. QED BY <2>1, <2>3, Elements DEF Goes, StateGoes, Inv, Typed
<1>2. CASE s \notin DOMAIN saves
  BY <1>1, <1>2 DEF SavesGo, SaveComes
<1>3. CASE s \in DOMAIN saves
  <2>1. SaveGoes(s) /\ saves[s] \in SaveTypes
    BY <1>1, <1>3, Elements DEF SavesGo
  <2>2. /\ saves[s].at = "deletes" => saves[s].kind = "delete"
        /\ saves[s].at \in {"deletes", "writes"} => saves[s].kind # "local"
        /\ saves[s].at \in {"deletes", "writes", "saved"} /\ saves[s].kind # "local" =>
             saves[s].task # 0
        /\ saves[s].kind # "local" => saves[s].in \in Workspaces /\ saves[s].of # 0
        /\ saves[s].at = "saved" /\ saves[s].kind # "local" => tasks[saves[s].task].at = "written"
    BY <1>3 DEF Inv, Awaited
  <2>3. saves[s].task # 0 /\ tasks[saves[s].task].at = "written" =>
          tasks'[saves[s].task].at = "written"
    BY <1>1, <2>1 DEF SaveTypes
  <2>4. NewTask(saves'[s].task) => saves'[s].task # 0
    BY <1>1 DEF NewTask
  <2>5. QED BY <2>1, <2>2, <2>3, <2>4 DEF SaveGoes, Written
<1>4. QED BY <1>2, <1>3

\* And those of the operations.
LEMMA OperationsAwait ==
  ASSUME Bounds, Inv, [Next]_vars, NEW o \in Operations
  PROVE  /\ operation'[o].at \in {"directory", "writes", "chained", "done"} =>
              operation'[o].task # 0
         /\ operation'[o].at = "chained" => operation'[o].save # 0
         /\ operation'[o].at = "directory" => operation'[o].of # 0
         /\ operation'[o].of # 0 => operation'[o].in \in Workspaces
         /\ operation'[o].at = "idle" => operation'[o] = Idle
         /\ operation'[o].at \in {"chained", "done"} =>
              tasks'[operation'[o].task].at = "written"
<1>1. PICK old, new : old = operation[o] /\ new = operation'[o]
  OBVIOUS
<1>2. /\ OperationGoes(o) /\ changes \in Nat /\ old \in OperationTypes
      /\ DOMAIN tasks = 1 .. Len(tasks) /\ Len(tasks) \in Nat
      /\ \A t \in DOMAIN tasks : tasks[t].at = "written" => tasks'[t].at = "written"
  <2>1. Goes
    BY StepGoes
  <2>2. changes' \in Nat /\ changes <= changes' /\ Len(saves') \in Nat /\ Len(saves) <= Len(saves')
    BY <2>1 DEF Goes, Grows
  <2>3. \A t \in DOMAIN tasks : tasks[t].at = "written" => tasks'[t].at = "written"
    BY <2>2, TasksTyped
  <2>4. QED BY <1>1, <2>1, <2>3, Elements DEF Goes, OperationsGo, Inv, Typed
<1>3. /\ old.at \in {"directory", "writes", "chained", "done"} => old.task # 0
      /\ old.at = "chained" => old.save # 0
      /\ old.at = "directory" => old.of # 0
      /\ old.of # 0 => old.in \in Workspaces
      /\ old.at = "idle" => old = Idle
      /\ old.at \in {"chained", "done"} => tasks[old.task].at = "written"
  BY <1>1 DEF Inv, Awaited
<1>4. old.task # 0 /\ tasks[old.task].at = "written" => tasks'[old.task].at = "written"
  BY <1>2 DEF OperationTypes
<1>5. \A t : NewTask(t) => t # 0
  BY <1>2 DEF NewTask
<1>6. Idle.at = "idle"
  BY DEF Idle
<1>7. QED BY <1>1, <1>2, <1>3, <1>4, <1>5, <1>6 DEF OperationGoes

\* Both.
LEMMA AwaitedKept ==
  ASSUME Bounds, Inv, [Next]_vars
  PROVE  Awaited'
BY SavesAwait, OperationsAwait DEF Awaited

\* Writes stay what they are, and are written by a commit only.
LEMMA TasksGo ==
  ASSUME Bounds, Inv, [Next]_vars, NEW t \in DOMAIN tasks
  PROVE  /\ t \in DOMAIN tasks'
         /\ tasks'[t].kind = tasks[t].kind /\ tasks'[t].in = tasks[t].in
         /\ tasks'[t].rows = tasks[t].rows
         /\ tasks'[t].at = "written" => tasks[t].at = "written" \/ Commit(t)
<1>0. /\ Typed /\ DOMAIN tasks = 1 .. Len(tasks) /\ Len(tasks) \in Nat
  BY Elements DEF Inv
<1>1. CASE QueueStays
  BY <1>1 DEF QueueStays, queues
<1>2. CASE QueueTakes
  <2>1. PICK task : tasks' = Append(tasks, task)
    BY <1>2 DEF QueueTakes, EnqueueWorkspacePersist, EnqueueControlPlanePersist, EnqueueAuthPersist
  <2>2. tasks \in Seq(TaskTypes)
    BY <1>0 DEF Typed
  <2>3. t \in DOMAIN tasks' /\ tasks'[t] = tasks[t]
    BY <1>0, <2>1, <2>2, AppendTyped
  <2>4. QED BY <2>3
<1>3. CASE QueueMoves
  <2>1. PICK u \in DOMAIN tasks :
           \/ StartTask(u)
           \/ tasks[u].at = "runs" /\ Commit(u) /\ Settle(u, "written")
           \/ tasks[u].at = "runs" /\ Fail(u) /\ Settle(u, "failed")
    BY <1>3 DEF QueueMoves
  <2>2. CASE StartTask(u)
    BY <1>0, <2>2, StartIs DEF Moved
  <2>3. ASSUME NEW at \in {"written", "failed"}, Settle(u, at)
        PROVE  Moved /\ (tasks'[t].at = "written" => tasks[t].at = "written" \/ (t = u /\ at = "written"))
    BY <1>0, <2>3, SettleIs
  <2>4. CASE tasks[u].at = "runs" /\ Commit(u) /\ Settle(u, "written")
    BY <2>3, <2>4 DEF Moved
  <2>5. CASE tasks[u].at = "runs" /\ Fail(u) /\ Settle(u, "failed")
    BY <2>3, <2>5 DEF Moved
  <2>6. QED BY <2>1, <2>2, <2>4, <2>5
<1>4. QED BY <1>1, <1>2, <1>3, QueueStep

\* The database changes by a commit only, and only the workspaces it covers, to
\* what its snapshot has of them.
LEMMA StoredGoes ==
  ASSUME Bounds, Inv, [Next]_vars
  PROVE  \/ stored' = stored /\ \A u \in DOMAIN tasks : ~ Commit(u)
         \/ \E u \in DOMAIN tasks :
              /\ Commit(u)
              /\ \A w \in Workspaces : stored'[w] = IF Covers(u, w) THEN tasks[u].rows[w] ELSE stored[w]
<1>1. CASE \E u \in DOMAIN tasks : Commit(u)
  <2>1. PICK u \in DOMAIN tasks : Commit(u)
    BY <1>1
  <2>2. stored \in Snapshots /\ tasks[u] \in TaskTypes
    BY Elements DEF Inv, Typed
  <2>3. CASE tasks[u].kind = "workspace"
    <3>1. tasks[u].in \in Workspaces /\ stored' = [stored EXCEPT ![tasks[u].in] = tasks[u].rows[tasks[u].in]]
      BY <2>1, <2>3 DEF Commit, Inv, Typed
    <3>2. QED BY <2>1, <2>2, <2>3, <3>1 DEF Covers, Snapshots
  <2>4. CASE tasks[u].kind = "full"
    <3>1. stored' = tasks[u].rows
      BY <2>1, <2>4 DEF Commit
    <3>2. QED BY <2>1, <2>4, <3>1 DEF Covers
  <2>5. CASE tasks[u].kind \notin {"workspace", "full"}
    <3>1. stored' = stored
      BY <2>1, <2>5 DEF Commit
    <3>2. QED BY <2>1, <2>5, <3>1 DEF Covers
  <2>6. QED BY <2>3, <2>4, <2>5
<1>2. CASE \A u \in DOMAIN tasks : ~ Commit(u)
  <2>1. RequestSteps => stored' = stored
    BY DEF RequestSteps, Save, Login, Administer
  <2>2. Chain => stored' = stored
    BY DEF Chain, RunSave, DeleteDone, SaveDone, RejectSave
  <2>3. Accounts => stored' = stored
    BY DEF Accounts, DirectoryDone, OperationWritten, OperationDone, OperationFails, LoadIntoState
  <2>4. \A t \in DOMAIN tasks : StartTask(t) \/ Fail(t) => stored' = stored
    BY DEF StartTask, Fail
  <2>5. UNCHANGED vars => stored' = stored
    BY DEF vars
  <2>6. Reads => stored' = stored
    BY DEF Reads, ReadRows, TakeRows
  <2>7. QED BY <1>2, <2>1, <2>2, <2>3, <2>4, <2>5, <2>6 DEF Next
<1>3. QED BY <1>1, <1>2

\* The writes that a step queues have change c of workspace w.
NewHave(c, w) ==
  \A u \in DOMAIN tasks' \ DOMAIN tasks :
    tasks'[u].kind = "full" \/ (tasks'[u].kind = "workspace" /\ tasks'[u].in = w) =>
      c \in tasks'[u].rows[w]

\* A change that is safe stays so.
LEMMA SafeStays ==
  ASSUME Bounds, Inv, [Next]_vars, NEW c, NEW w \in Workspaces, NEW t \in DOMAIN tasks,
         SafeIn(c, w, t), NewHave(c, w)
  PROVE  SafeIn(c, w, t)'
<1>1. \A u \in DOMAIN tasks : Covers(u, w)' <=> Covers(u, w)
  BY TasksGo DEF Covers
<1>2. /\ DOMAIN tasks = 1 .. Len(tasks) /\ Len(tasks) \in Nat
      /\ DOMAIN tasks' = 1 .. Len(tasks') /\ Len(tasks') \in Nat
  BY StepGoes, Elements DEF Goes, Grows
<1>3. ASSUME NEW u \in t .. Len(tasks'), Covers(u, w)'
      PROVE  c \in tasks'[u].rows[w]
  <2>1. u \in DOMAIN tasks'
    BY <1>2
  <2>2. CASE u \in DOMAIN tasks
    <3>1. Covers(u, w) /\ u \in t .. Len(tasks)
      BY <1>1, <1>2, <1>3, <2>2
    <3>2. QED BY <2>2, <3>1, TasksGo DEF SafeIn
  <2>3. CASE u \notin DOMAIN tasks
    BY <1>3, <2>1, <2>3 DEF NewHave, Covers
  <2>4. QED BY <2>2, <2>3
<1>4. ASSUME tasks'[t].at = "written"
      PROVE  c \in stored'[w]
  <2>1. CASE stored' = stored /\ \A u \in DOMAIN tasks : ~ Commit(u)
    BY <1>4, <2>1, TasksGo DEF SafeIn
  <2>2. ASSUME NEW u \in DOMAIN tasks, Commit(u),
               \A v \in Workspaces : stored'[v] = IF Covers(u, v) THEN tasks[u].rows[v] ELSE stored[v]
        PROVE  c \in stored'[w]
    <3>1. tasks[u].at = "runs"
      BY <2>2 DEF Commit
    <3>2. CASE Covers(u, w) /\ u >= t
      <4>1. u \in t .. Len(tasks)
        BY <1>2, <3>2
      <4>2. c \in tasks[u].rows[w]
        BY <3>2, <4>1 DEF SafeIn
      <4>3. QED BY <2>2, <3>2, <4>2
    <3>3. CASE Covers(u, w) /\ u < t
      <4>1. Conflict(u, t) /\ u \in 1 .. t - 1
        <5>1. Covers(t, w)
          BY DEF SafeIn
        <5>2. Conflict(u, t)
          BY <3>3, <5>1 DEF Covers, Conflict
        <5>3. QED BY <1>2, <3>3, <5>2
      <4>2. tasks[t].at # "queued"
        <5>1. tasks[t].at = "written" \/ Commit(t)
          BY <1>4, TasksGo
        <5>2. QED BY <5>1 DEF Commit
      <4>3. Settled(u)
        BY <4>1, <4>2 DEF Inv, QueueInv, OrderKept
      <4>4. QED BY <3>1, <4>3 DEF Settled
    <3>4. CASE ~ Covers(u, w)
      <4>1. tasks[t].at = "written" \/ Commit(t)
        BY <1>4, TasksGo
      <4>2. CASE tasks[t].at = "written"
        BY <2>2, <3>4, <4>2 DEF SafeIn
      <4>3. CASE Commit(t)
        <5>1. u # t
          BY <3>4 DEF SafeIn
        <5>2. tasks'[t].at = "written" => t = u \/ tasks[t].at = "written"
          <6>1. Settle(u, "written") /\ UNCHANGED <<controlTail, authTail, workspaceTails>>
            BY <2>2 DEF Commit
          <6>2. QED BY <3>1, <6>1, SettleKeeps
        <5>3. tasks[t].at = "runs"
          BY <4>3 DEF Commit
        <5>4. QED BY <1>4, <5>1, <5>2, <5>3
      <4>4. QED BY <4>1, <4>2, <4>3
    <3>5. QED BY <1>2, <3>2, <3>3, <3>4
  <2>3. QED BY <2>1, <2>2, StoredGoes
<1>5. QED BY <1>1, <1>3, <1>4 DEF SafeIn

\* What a queue took is the last write.
LEMMA LastIs ==
  ASSUME Inv, NEW n, n = Len(tasks) + 1
  PROVE  /\ \A w, rows : EnqueueWorkspacePersist(w, rows) =>
              /\ DOMAIN tasks' = 1 .. n /\ Len(tasks') = n
              /\ tasks'[n].kind = "workspace" /\ tasks'[n].in = w /\ tasks'[n].rows = rows
              /\ tasks'[n].at = "queued"
         /\ \A kind, rows : EnqueueControlPlanePersist(kind, rows) =>
              /\ DOMAIN tasks' = 1 .. n /\ Len(tasks') = n
              /\ tasks'[n].kind = kind /\ tasks'[n].rows = rows /\ tasks'[n].at = "queued"
         /\ EnqueueAuthPersist =>
              DOMAIN tasks' = 1 .. n /\ Len(tasks') = n /\ tasks'[n].kind = "operation"
<1>1. ASSUME NEW task, tasks' = Append(tasks, task)
      PROVE  DOMAIN tasks' = 1 .. n /\ Len(tasks') = n /\ tasks'[n] = task
  <2>1. tasks \in Seq(TaskTypes)
    BY DEF Inv, Typed
  <2>2. QED BY <1>1, <2>1, AppendTyped
<1>2. \A w, rows : EnqueueWorkspacePersist(w, rows) =>
        \E after : LET task == Task("workspace", w, rows, after) IN tasks' = Append(tasks, task)
  BY DEF EnqueueWorkspacePersist
<1>3. \A kind, rows : EnqueueControlPlanePersist(kind, rows) =>
        \E after : LET task == Task(kind, All, rows, after) IN tasks' = Append(tasks, task)
  BY DEF EnqueueControlPlanePersist
<1>4. EnqueueAuthPersist =>
        \E after : LET task == Task("operation", All, Nothing, after) IN tasks' = Append(tasks, task)
  BY DEF EnqueueAuthPersist
<1>5. \A kind, in, rows, after :
        LET task == Task(kind, in, rows, after)
        IN  task.kind = kind /\ task.in = in /\ task.rows = rows /\ task.at = "queued"
  BY DEF Task
<1>6. QED BY <1>1, <1>2, <1>3, <1>4, <1>5

\* A change that a save has begun to write, or an operation has made.
Kept(c, w) ==
  \/ \E s \in DOMAIN saves :
       /\ saves[s].kind # "local" /\ saves[s].at \in {"deletes", "writes", "saved"}
       /\ saves[s].of = c /\ saves[s].in = w
  \/ \E o \in Operations : operation[o].of # 0 /\ operation[o].of = c /\ operation[o].in = w

\* Such a change is not that of a later deletion.
LEMMA NotDeleted ==
  ASSUME Inv, NEW c, NEW w, Kept(c, w), NEW s \in DOMAIN saves, saves[s].at = "deletes"
  PROVE  c \notin LaterDeletions(s)
<1>1. DOMAIN saves = 1 .. Len(saves) /\ Len(saves) \in Nat
  BY Elements
<1>2. SUFFICES ASSUME NEW l \in s + 1 .. Len(saves), saves[l].kind = "delete", saves[l].of = c
               PROVE  FALSE
  BY DEF LaterDeletions
<1>3. l \in DOMAIN saves /\ s \in 1 .. l - 1
  BY <1>1
<1>4. CASE \E r \in DOMAIN saves :
             /\ saves[r].kind # "local" /\ saves[r].at \in {"deletes", "writes", "saved"}
             /\ saves[r].of = c
  <2>1. PICK r \in DOMAIN saves :
             /\ saves[r].kind # "local" /\ saves[r].at \in {"deletes", "writes", "saved"}
             /\ saves[r].of = c
    BY <1>4
  <2>2. r = l
    BY <1>2, <1>3, <2>1 DEF Inv, OneRequest
  <2>3. saves[s].at = "saved"
    BY <1>3, <2>1, <2>2 DEF Inv, ChainKept, Passed
  <2>4. QED BY <2>3
<1>5. CASE \E o \in Operations : operation[o].of # 0 /\ operation[o].of = c
  BY <1>2, <1>3, <1>5 DEF Inv, OneRequest
<1>6. QED BY <1>4, <1>5 DEF Kept

\* What a deletion that is done writes of its workspace has such a change, unless the
\* change is lost by that.
LEMMA DeleteWrites ==
  ASSUME Inv, NEW s \in DOMAIN saves, DeleteDone(s), NEW c, NEW w, Kept(c, w), c \notin lost',
         lost \subseteq lost'
  PROVE  \E rows : /\ EnqueueWorkspacePersist(saves[s].in, rows)
                   /\ w = saves[s].in => c \in rows[w]
<1>1. PICK in, version : in = saves[s].in /\ version = memory[in]
  OBVIOUS
<1>2. in \in Workspaces /\ DOMAIN saves = 1 .. Len(saves) /\ Len(saves) \in Nat
      /\ saves[s].at = "deletes"
  BY <1>1, Elements DEF DeleteDone, Inv, Awaited
<1>3. PICK written \in SUBSET UNION Versions(s) :
        /\ \A d \in (UNION Versions(s)) \ written :
             d \in LaterDeletions(s) \/ \E old \in Versions(s) : d \notin old
        /\ EnqueueWorkspacePersist(in, [Nothing EXCEPT ![in] = written])
        /\ lost' = lost \cup ((ChangesMade \cap version) \ written)
  BY <1>1 DEF DeleteDone
<1>4. PICK rows : rows = [Nothing EXCEPT ![in] = written]
  OBVIOUS
<1>5. rows[in] = written
  BY <1>2, <1>4 DEF Nothing
<1>6. SUFFICES ASSUME w = in, c \notin written
               PROVE  FALSE
  BY <1>1, <1>3, <1>4, <1>5
<1>7. c \in version /\ c \notin lost
  BY <1>1, <1>6 DEF Kept, Inv, ChangesKept
<1>8. c \in UNION Versions(s)
  BY <1>1, <1>7 DEF Versions
<1>9. c \notin LaterDeletions(s)
  BY <1>2, NotDeleted
<1>10. PICK old \in Versions(s) : c \notin old
  <2>1. c \in (UNION Versions(s)) \ written
    BY <1>6, <1>8
  <2>2. PICK later : later = LaterDeletions(s)
    OBVIOUS
  <2>3. \A d \in (UNION Versions(s)) \ written : d \in later \/ \E old \in Versions(s) : d \notin old
    BY <1>3, <2>2
  <2>4. QED BY <1>9, <2>1, <2>2, <2>3
<1>11. PICK kept \in saves[s].rows : old = kept[in]
  BY <1>1, <1>7, <1>10 DEF Versions
<1>12. CASE \E o \in Operations : operation[o].of # 0 /\ operation[o].of = c
  BY <1>3, <1>6, <1>7, <1>12 DEF ChangesMade
<1>13. CASE \E r \in DOMAIN saves :
              /\ saves[r].kind # "local" /\ saves[r].at \in {"deletes", "writes", "saved"}
              /\ saves[r].of = c /\ saves[r].in = w
  <2>1. PICK r \in DOMAIN saves :
              /\ saves[r].kind # "local" /\ saves[r].at \in {"deletes", "writes", "saved"}
              /\ saves[r].of = c /\ saves[r].in = w
    BY <1>13
  <2>2. r \in 1 .. s
    <3>1. s \in 1 .. r - 1 => saves[s].at = "saved"
      BY <2>1 DEF Inv, ChainKept, Passed
    <3>2. QED BY <1>2, <3>1
  <2>3. c \in kept[w]
    BY <1>7, <1>11, <2>1, <2>2 DEF Inv, SnapshotsKept
  <2>4. QED BY <1>6, <1>10, <1>11, <2>3
<1>14. QED BY <1>12, <1>13 DEF Kept

\* Such changes, unless they are lost, are in every write that is queued.
LEMMA KeptIsWritten ==
  ASSUME Bounds, Inv, [Next]_vars, NEW c, NEW w \in Workspaces, Kept(c, w), c \notin lost'
  PROVE  NewHave(c, w)
<1>1. PICK n : n = Len(tasks) + 1
  OBVIOUS
<1>2. DOMAIN tasks = 1 .. Len(tasks) /\ Len(tasks) \in Nat
  BY Elements
<1>3. c \in memory[w] /\ lost \subseteq lost'
  <2>1. lost \subseteq lost'
    BY StepGoes DEF Goes, StateGoes
  <2>2. QED BY <2>1 DEF Kept, Inv, ChangesKept
<1>4. ASSUME DOMAIN tasks' = 1 .. n,
             \/ c \in tasks'[n].rows[w]
             \/ tasks'[n].kind \notin {"workspace", "full"}
             \/ tasks'[n].kind = "workspace" /\ tasks'[n].in # w
      PROVE  NewHave(c, w)
  <2>1. DOMAIN tasks' \ DOMAIN tasks \subseteq {n}
    BY <1>1, <1>2, <1>4
  <2>2. QED BY <1>4, <2>1 DEF NewHave
<1>5. ASSUME DOMAIN tasks' = DOMAIN tasks
      PROVE  NewHave(c, w)
  BY <1>5 DEF NewHave
<1>6. CASE RequestSteps
  <2>1. ASSUME NEW v, NEW kind, Save(v, kind) PROVE NewHave(c, w)
    BY <1>5, <2>1 DEF Save, queues
  <2>2. ASSUME NEW o, Login(o) PROVE NewHave(c, w)
    BY <1>1, <1>4, <2>2, LastIs DEF Login
  <2>3. ASSUME NEW o, NEW v, Administer(o, v) PROVE NewHave(c, w)
    BY <1>1, <1>4, <2>3, LastIs DEF Administer
  <2>4. QED BY <1>6, <2>1, <2>2, <2>3 DEF RequestSteps
<1>7. CASE Chain
  <2>1. ASSUME NEW s \in DOMAIN saves, RunSave(s) PROVE NewHave(c, w)
    <3>1. CASE saves[s].kind = "local"
      BY <1>5, <2>1, <3>1 DEF RunSave, queues
    <3>2. CASE saves[s].kind = "workspace"
      BY <1>1, <1>3, <1>4, <2>1, <3>2, LastIs DEF RunSave
    <3>3. CASE saves[s].kind = "full"
      BY <1>1, <1>3, <1>4, <2>1, <3>3, LastIs DEF RunSave
    <3>4. CASE saves[s].kind = "delete"
      BY <1>1, <1>4, <2>1, <3>4, LastIs DEF RunSave
    <3>5. QED BY <3>1, <3>2, <3>3, <3>4, Elements DEF SaveTypes
  <2>2. ASSUME NEW s \in DOMAIN saves, DeleteDone(s) PROVE NewHave(c, w)
    <3>1. PICK rows : /\ EnqueueWorkspacePersist(saves[s].in, rows)
                      /\ w = saves[s].in => c \in rows[w]
      BY <1>3, <2>2, DeleteWrites
    <3>2. QED BY <1>1, <1>4, <3>1, LastIs
  <2>3. ASSUME NEW s, SaveDone(s) \/ RejectSave(s) PROVE NewHave(c, w)
    BY <1>5, <2>3 DEF SaveDone, RejectSave, queues
  <2>4. QED BY <1>7, <2>1, <2>2, <2>3 DEF Chain
<1>8. CASE Accounts
  <2>1. ASSUME NEW o, DirectoryDone(o) PROVE NewHave(c, w)
    BY <1>1, <1>3, <1>4, <2>1, LastIs DEF DirectoryDone
  <2>2. ASSUME NEW o,
               OperationWritten(o) \/ OperationDone(o) \/ OperationFails(o) \/ LoadIntoState(o)
        PROVE  NewHave(c, w)
    BY <1>5, <2>2 DEF OperationWritten, OperationDone, OperationFails, LoadIntoState, queues
  <2>3. QED BY <1>8, <2>1, <2>2 DEF Accounts
<1>9. CASE \E t \in DOMAIN tasks : StartTask(t) \/ Commit(t) \/ Fail(t)
  <2>1. PICK t \in DOMAIN tasks : StartTask(t) \/ Commit(t) \/ Fail(t)
    BY <1>9
  <2>2. Typed
    BY DEF Inv
  <2>3. Moved
    BY <2>1, <2>2, StartIs, SettleIs DEF Commit, Fail
  <2>4. QED BY <1>5, <2>3 DEF Moved
<1>10. CASE UNCHANGED vars
  BY <1>5, <1>10 DEF vars, queues
<1>11. CASE Reads
  BY <1>5, <1>11 DEF Reads, ReadRows, TakeRows, queues
<1>12. QED BY <1>6, <1>7, <1>8, <1>9, <1>10, <1>11 DEF Next

\* The last write, if it has the change, is safe to wait for.
LEMMA SafeStarts ==
  ASSUME Inv, NEW c, NEW w, NEW n, NewTask(n), tasks'[n].at = "queued",
         tasks'[n].kind = "full" \/ (tasks'[n].kind = "workspace" /\ tasks'[n].in = w),
         c \in tasks'[n].rows[w]
  PROVE  SafeIn(c, w, n)'
<1>1. n .. Len(tasks') = {n}
  BY Elements DEF NewTask
<1>2. QED BY <1>1 DEF SafeIn, Covers

\* The write of a save that begins to wait for it has its change.
LEMMA SaveIsSafe ==
  ASSUME Bounds, Inv, [Next]_vars, NEW s \in DOMAIN saves, NEW c, NEW w, NEW t, c \notin lost',
         saves'[s].at \in {"writes", "saved"}, saves'[s].kind # "local",
         c = saves'[s].of, w = saves'[s].in, t = saves'[s].task
  PROVE  SafeIn(c, w, t)'
<1>1. /\ SaveGoes(s) /\ saves[s] \in SaveTypes /\ c \notin lost /\ w \in Workspaces
      /\ c = saves[s].of /\ w = saves[s].in /\ saves[s].kind = saves'[s].kind
      /\ DOMAIN tasks = 1 .. Len(tasks) /\ Len(tasks) \in Nat
  <2>1. SaveGoes(s) /\ saves[s] \in SaveTypes
    BY StepGoes, Elements DEF Goes, SavesGo
  <2>2. c \notin lost
    BY StepGoes DEF Goes, StateGoes
  <2>3. QED BY <2>1, <2>2, Elements DEF SaveGoes
<1>2. CASE saves[s].at \in {"writes", "saved"}
  <2>1. t = saves[s].task /\ t # 0
    BY <1>1, <1>2 DEF SaveGoes, Inv, Awaited
  <2>2. t \in DOMAIN tasks
    BY <1>1, <2>1 DEF SaveTypes
  <2>3. SafeIn(c, w, t) /\ Kept(c, w)
    BY <1>1, <1>2, <2>1 DEF Inv, ChangesKept, Kept
  <2>4. QED BY <1>1, <2>2, <2>3, KeptIsWritten, SafeStays
<1>3. CASE RunSave(s) /\ NewTask(t) /\ saves[s].kind \in {"workspace", "full"}
  <2>1. c \in memory[w]
    BY <1>1, <1>3 DEF Inv, ChangesKept
  <2>2. CASE saves[s].kind = "workspace"
    <3>1. EnqueueWorkspacePersist(w, memory)
      BY <1>1, <1>3, <2>2 DEF RunSave
    <3>2. QED BY <1>3, <2>1, <3>1, LastIs, SafeStarts DEF NewTask
  <2>3. CASE saves[s].kind = "full"
    <3>1. EnqueueControlPlanePersist("full", memory)
      BY <1>1, <1>3, <2>3 DEF RunSave
    <3>2. QED BY <1>3, <2>1, <3>1, LastIs, SafeStarts DEF NewTask
  <2>4. QED BY <1>3, <2>2, <2>3
<1>4. CASE DeleteDone(s) /\ NewTask(t) /\ saves[s].at = "deletes"
  <2>1. c \in memory[w] /\ Kept(c, w)
    BY <1>1, <1>4 DEF Inv, ChangesKept, Kept
  <2>2. lost \subseteq lost'
    BY StepGoes DEF Goes, StateGoes
  <2>3. PICK rows : /\ EnqueueWorkspacePersist(saves[s].in, rows)
                    /\ w = saves[s].in => c \in rows[w]
    BY <1>1, <1>4, <2>1, <2>2, DeleteWrites
  <2>4. QED BY <1>1, <1>4, <2>3, LastIs, SafeStarts DEF NewTask
<1>5. QED BY <1>1, <1>2, <1>3, <1>4 DEF SaveGoes

\* And that of an operation.
LEMMA OperationIsSafe ==
  ASSUME Bounds, Inv, [Next]_vars, NEW o \in Operations, NEW c, NEW w, NEW t, c \notin lost',
         operation'[o].at \in {"writes", "chained", "done"}, operation'[o].of # 0,
         c = operation'[o].of, w = operation'[o].in, t = operation'[o].task
  PROVE  SafeIn(c, w, t)'
<1>1. /\ OperationGoes(o) /\ operation[o] \in OperationTypes /\ c \notin lost
      /\ DOMAIN tasks = 1 .. Len(tasks) /\ Len(tasks) \in Nat
  <2>1. OperationGoes(o) /\ operation[o] \in OperationTypes
    BY StepGoes, Elements DEF Goes, OperationsGo
  <2>2. c \notin lost
    BY StepGoes DEF Goes, StateGoes
  <2>3. QED BY <2>1, <2>2, Elements
<1>2. PICK old, new : old = operation[o] /\ new = operation'[o]
  OBVIOUS
<1>3. /\ c = old.of /\ w = old.in
      /\ \/ old.at \in {"writes", "chained", "done"} /\ t = old.task
         \/ old.at = "directory" /\ NewTask(t) /\ DirectoryDone(o)
  BY <1>1, <1>2 DEF OperationGoes
<1>4. w \in Workspaces /\ c \in memory[w] /\ Kept(c, w)
  BY <1>1, <1>2, <1>3 DEF Inv, Awaited, ChangesKept, Kept
<1>5. CASE old.at \in {"writes", "chained", "done"} /\ t = old.task
  <2>1. t # 0 /\ SafeIn(c, w, t)
    BY <1>1, <1>2, <1>3, <1>5 DEF Inv, Awaited, ChangesKept
  <2>2. t \in DOMAIN tasks
    BY <1>1, <1>2, <1>5, <2>1 DEF OperationTypes
  <2>3. QED BY <1>1, <1>4, <2>1, <2>2, KeptIsWritten, SafeStays
<1>6. CASE NewTask(t) /\ DirectoryDone(o)
  <2>1. EnqueueWorkspacePersist(w, memory)
    BY <1>2, <1>3, <1>6 DEF DirectoryDone
  <2>2. QED BY <1>4, <1>6, <2>1, LastIs, SafeStarts DEF NewTask
<1>7. QED BY <1>3, <1>5, <1>6

\* The changes.
LEMMA ChangesStay ==
  ASSUME Bounds, Inv, [Next]_vars
  PROVE  ChangesKept'
<1>1. /\ SavesGo /\ OperationsGo /\ lost \subseteq lost'
      /\ \A w \in Workspaces : memory[w] \subseteq memory'[w] \cup lost'
  BY StepGoes DEF Goes, StateGoes
<1>2. ASSUME NEW s \in DOMAIN saves', saves'[s].kind # "local", saves'[s].of \notin lost'
      PROVE  saves'[s].of \in memory'[saves'[s].in]
  <2>1. CASE s \in DOMAIN saves
    <3>1. saves[s].kind # "local" /\ saves'[s].of = saves[s].of /\ saves'[s].in = saves[s].in
      BY <1>1, <1>2, <2>1 DEF SavesGo, SaveGoes
    <3>2. saves[s].of \in memory[saves[s].in] /\ saves[s].in \in Workspaces
      BY <1>1, <1>2, <2>1, <3>1 DEF Inv, ChangesKept, Awaited
    <3>3. QED BY <1>1, <1>2, <3>1, <3>2
  <2>2. CASE s \notin DOMAIN saves
    BY <1>1, <1>2, <2>2 DEF SavesGo, SaveComes
  <2>3. QED BY <2>1, <2>2
<1>3. ASSUME NEW o \in Operations, operation'[o].of # 0, operation'[o].of \notin lost'
      PROVE  operation'[o].of \in memory'[operation'[o].in]
  <2>1. PICK old, new : old = operation[o] /\ new = operation'[o]
    OBVIOUS
  <2>2. \/ new.of = old.of /\ new.in = old.in
        \/ new.of \in memory'[new.in]
    <3>1. OperationGoes(o) /\ operation[o] \in OperationTypes /\ Idle.of = 0
      BY <1>1, Elements DEF OperationsGo, Idle
    <3>2. QED BY <1>3, <2>1, <3>1 DEF OperationGoes
  <2>3. old.of # 0 /\ old.of \notin lost => old.of \in memory[old.in] /\ old.in \in Workspaces
    BY <2>1 DEF Inv, ChangesKept, Awaited
  <2>4. QED BY <1>1, <1>3, <2>1, <2>2, <2>3
<1>4. ASSUME NEW s \in DOMAIN saves', saves'[s].at \in {"writes", "saved"},
             saves'[s].kind # "local", saves'[s].of \notin lost'
      PROVE  SafeIn(saves[s].of, saves[s].in, saves[s].task)'
  <2>1. s \in DOMAIN saves
    BY <1>1, <1>4 DEF SavesGo, SaveComes
  <2>2. PICK c, w, t : c = saves'[s].of /\ w = saves'[s].in /\ t = saves'[s].task
    OBVIOUS
  <2>3. SafeIn(c, w, t)'
    BY <1>4, <2>1, <2>2, SaveIsSafe
  <2>4. QED BY <2>2, <2>3 DEF SafeIn, Covers
<1>5. ASSUME NEW o \in Operations, operation'[o].at \in {"writes", "chained", "done"},
             operation'[o].of # 0, operation'[o].of \notin lost'
      PROVE  SafeIn(operation[o].of, operation[o].in, operation[o].task)'
  <2>1. PICK c, w, t : c = operation'[o].of /\ w = operation'[o].in /\ t = operation'[o].task
    OBVIOUS
  <2>2. SafeIn(c, w, t)'
    BY <1>5, <2>1, OperationIsSafe
  <2>3. QED BY <2>1, <2>2 DEF SafeIn, Covers
<1>6. QED BY <1>2, <1>3, <1>4, <1>5 DEF ChangesKept

\* The lists that deletions' snapshots keep.
LEMMA SnapshotsStay ==
  ASSUME Bounds, Inv, [Next]_vars
  PROVE  SnapshotsKept'
<1>1. /\ SavesGo /\ lost \subseteq lost'
      /\ DOMAIN saves = 1 .. Len(saves) /\ Len(saves) \in Nat
  BY StepGoes, Elements DEF Goes, StateGoes
<1>2. SUFFICES ASSUME NEW s \in DOMAIN saves', NEW rows \in saves'[s].rows, NEW r \in 1 .. s,
                      saves'[r].kind # "local", saves'[r].of \notin lost'
               PROVE  saves'[r].of \in rows[saves'[r].in]
  BY DEF SnapshotsKept
<1>3. s \in DOMAIN saves
  BY <1>1, <1>2 DEF SavesGo, SaveComes
<1>4. r \in DOMAIN saves
  BY <1>1, <1>3
<1>5. saves[r].kind # "local" /\ saves'[r].of = saves[r].of /\ saves'[r].in = saves[r].in
      /\ saves[r].of \notin lost
  BY <1>1, <1>2, <1>4 DEF SavesGo, SaveGoes
<1>6. rows \in saves[s].rows \/ rows = memory
  BY <1>1, <1>3 DEF SavesGo, SaveGoes
<1>7. CASE rows \in saves[s].rows
  BY <1>3, <1>5, <1>7 DEF Inv, SnapshotsKept
<1>8. CASE rows = memory
  BY <1>4, <1>5, <1>8 DEF Inv, ChangesKept
<1>9. QED BY <1>6, <1>7, <1>8

-----------------------------------------------------------------------------
(* The theorems.                                                           *)

\* Nothing is saved, queued or counted at first.
LEMMA InvInit ==
  ASSUME Bounds, Init
  PROVE  Inv
<1>1. /\ changes = 0 /\ memory = Nothing /\ stored = Nothing /\ saves = <<>>
      /\ operation = [o \in Operations |-> Idle] /\ tasks = <<>> /\ controlTail = 0
      /\ authTail = 0 /\ workspaceTails = [w \in Workspaces |-> 0] /\ persisting = 0
      /\ waiters = <<>> /\ failures = 0 /\ lost = {}
      /\ reader = [r \in Readers |-> NoPage]
  BY DEF Init
<1>2. /\ DOMAIN tasks = {} /\ DOMAIN saves = {} /\ DOMAIN waiters = {}
      /\ Len(tasks) = 0 /\ Len(saves) = 0
  BY <1>1, EmptySeq, LenProperties
<1>3. Nothing \in Snapshots
  BY DEF Nothing, Snapshots
<1>4. Typed
  <2>1. Idle \in OperationTypes
    BY <1>1, <1>2, <1>3 DEF Idle, OperationTypes
  <2>2. /\ saves \in Seq(SaveTypes) /\ tasks \in Seq(TaskTypes) /\ waiters \in Seq(DOMAIN tasks)
    BY <1>1, EmptySeq
  <2>3. operation \in [Operations -> OperationTypes]
    BY <1>1, <2>1
  <2>4. workspaceTails \in [Workspaces -> 0 .. Len(tasks)]
    BY <1>1, <1>2
  <2>5. NoPage \in ReaderTypes /\ NoPage.at = "idle"
    BY DEF NoPage, ReaderTypes
  <2>6. reader \in [Readers -> ReaderTypes] /\ \A r \in Readers : reader[r].at # "reads"
    BY <1>1, <2>5
  <2>7. QED BY <1>1, <1>2, <1>3, <2>2, <2>3, <2>4, <2>6 DEF Typed, Bounds
<1>5. QueueInv
  <2>1. Connected = {}
    BY <1>2 DEF Connected
  <2>2. SlotsCounted
    BY <1>1, <2>1, FS_EmptySet DEF SlotsCounted, Bounds
  <2>3. QED BY <1>2, <2>2 DEF QueueInv, TailsReach, AfterReaches, OrderKept, WaitersWait
<1>6. \A o \in Operations : operation[o] = Idle /\ Idle.at = "idle" /\ Idle.of = 0
  BY <1>1 DEF Idle
<1>7. ChainKept /\ OneRequest /\ ChangesKept /\ SnapshotsKept
  BY <1>2, <1>6 DEF ChainKept, OneRequest, ChangesKept, SnapshotsKept
<1>8. Awaited
  BY <1>2, <1>6 DEF Awaited
<1>9. QED BY <1>4, <1>5, <1>7, <1>8 DEF Inv

\* The invariant of the store's queues, the chain and the operations.
THEOREM InvHolds ==
  ASSUME Bounds
  PROVE  Spec => []Inv
<1>1. Init => Inv
  BY InvInit
<1>2. Inv /\ [Next]_vars => Inv'
  <2> SUFFICES ASSUME Inv, [Next]_vars PROVE Inv'
    OBVIOUS
  <2>1. Typed' /\ QueueInv'
    BY StepGoes, QueuesKept
  <2>2. ChainKept' /\ Awaited' /\ OneRequest'
    BY ChainStays, AwaitedKept, RequestsApart
  <2>3. ChangesKept' /\ SnapshotsKept'
    BY ChangesStay, SnapshotsStay
  <2>4. QED BY <2>1, <2>2, <2>3 DEF Inv
<1>3. QED BY <1>1, <1>2, PTL DEF Spec

\* TypeOK of StateSaves: the queues' tails are writes of theirs, no more
\* connections are in use than there are.
THEOREM TypeCorrect ==
  ASSUME Bounds
  PROVE  Spec => []TypeOK
<1>1. Inv => TypeOK
  <2> SUFFICES ASSUME Inv PROVE TypeOK
    OBVIOUS
  <2>1. Typed /\ SlotsCounted
    BY DEF Inv, QueueInv
  <2>2. changes \in Nat /\ memory \in [Workspaces -> SUBSET (1 .. changes)]
        /\ stored \in [Workspaces -> SUBSET (1 .. changes)]
    BY <2>1 DEF Typed, Snapshots
  <2>3. \A s \in DOMAIN saves :
          /\ saves[s].kind \in {"workspace", "full", "delete", "local"}
          /\ saves[s].at \in {"chained", "deletes", "writes", "saved", "rejected"}
          /\ saves[s].of \in 0 .. changes /\ saves[s].task \in 0 .. Len(tasks)
    BY Elements DEF SaveTypes
  <2>4. \A o \in Operations :
          /\ operation[o].at \in {"idle", "directory", "writes", "chained", "done", "reloads", "failed"}
          /\ operation[o].of \in 0 .. changes /\ operation[o].task \in 0 .. Len(tasks)
          /\ operation[o].save \in 0 .. Len(saves)
    BY Elements DEF OperationTypes
  <2>5. \A t \in DOMAIN tasks : tasks[t] \in TaskTypes
    BY Elements
  <2>6. {controlTail, authTail} \cup Tails \subseteq 0 .. Len(tasks)
    BY <2>1 DEF Typed, Tails
  <2>7. persisting \in 0 .. Slots
    <3>1. DOMAIN tasks = 1 .. Len(tasks) /\ Len(tasks) \in Int /\ 1 \in Int
      BY Elements
    <3>2. IsFiniteSet(DOMAIN tasks)
      BY <3>1, FS_Interval
    <3>3. Connected \subseteq DOMAIN tasks
      BY DEF Connected
    <3>4. Cardinality(Connected) \in Nat
      BY <3>2, <3>3, FS_Subset, FS_CardinalityType
    <3>5. QED BY <2>1, <3>4 DEF SlotsCounted, Bounds
  <2>8. /\ lost \subseteq 1 .. changes
        /\ reader \in [Readers -> [at : {"idle", "reads", "done"}, in : Workspaces \cup {All},
                                   rows : SUBSET (1 .. changes)]]
    BY <2>1 DEF Typed, ReaderTypes
  <2>9. waiters \in Seq(DOMAIN tasks) /\ failures \in 0 .. MaxFailures
    BY <2>1 DEF Typed
  <2>10. QED BY <2>2, <2>3, <2>4, <2>5, <2>6, <2>7, <2>8, <2>9 DEF TypeOK
<1>2. QED BY <1>1, InvHolds, PTL

\* FullRunsAlone: of two writes that conflict the later one is let go only when
\* the earlier one has settled, whatever the order they end in.
THEOREM ConflictingWritesApart ==
  ASSUME Bounds
  PROVE  Spec => []FullRunsAlone
<1>1. Inv => FullRunsAlone
  <2> SUFFICES ASSUME Inv, NEW t \in DOMAIN tasks, NEW u \in DOMAIN tasks, t # u,
                      Conflict(t, u), Runs(t), Runs(u)
               PROVE  FALSE
    BY DEF FullRunsAlone
  <2>1. Conflict(u, t)
    BY DEF Conflict
  <2>2. t \in 1 .. u - 1 \/ u \in 1 .. t - 1
    BY Elements
  <2>3. Settled(t) \/ Settled(u)
    BY <2>1, <2>2 DEF Inv, QueueInv, OrderKept, Runs
  <2>4. QED BY <2>3 DEF Settled, Runs
<1>2. QED BY <1>1, InvHolds, PTL

\* StoredUnlessLost: a change whose request was answered is in the database, unless
\* rows read before it was stored have replaced it.
THEOREM AnsweredStored ==
  ASSUME Bounds
  PROVE  Spec => []StoredUnlessLost
<1>1. Inv => StoredUnlessLost
  <2> SUFFICES ASSUME Inv, NEW a \in Answered, a.of \notin lost
               PROVE  a.of \in stored[a.in]
    BY DEF StoredUnlessLost
  <2>1. ASSUME NEW s \in DOMAIN saves, saves[s].kind # "local", saves[s].at = "saved",
               saves[s].of \notin lost
        PROVE  saves[s].of \in stored[saves[s].in]
    <3>1. SafeIn(saves[s].of, saves[s].in, saves[s].task)
      BY <2>1 DEF Inv, ChangesKept
    <3>2. tasks[saves[s].task].at = "written"
      BY <2>1 DEF Inv, Awaited
    <3>3. QED BY <3>1, <3>2 DEF SafeIn
  <2>2. ASSUME NEW o \in Operations, operation[o].of # 0, operation[o].at = "done",
               operation[o].of \notin lost
        PROVE  operation[o].of \in stored[operation[o].in]
    <3>1. SafeIn(operation[o].of, operation[o].in, operation[o].task)
      BY <2>2 DEF Inv, ChangesKept
    <3>2. tasks[operation[o].task].at = "written"
      BY <2>2 DEF Inv, Awaited
    <3>3. QED BY <3>1, <3>2 DEF SafeIn
  <2>3. QED BY <2>1, <2>2 DEF Answered
<1>2. QED BY <1>1, InvHolds, PTL
=============================================================================
