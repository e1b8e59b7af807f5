------------------------- MODULE MarkdownOplog_proofs -------------------------
(***************************************************************************)
(* What a document's log keeps, for any number of bullets, submissions,    *)
(* edits and faults: an operation is in it once, answers are durable and   *)
(* records stay as they are.  Until the first fault, an operation that is  *)
(* answered is in the document; this one needs what a log rebuilds to with *)
(* a record more, an induction on the length of the log.                   *)
(* At the end, that insertions and rewrites make documents of documents.   *)
(***************************************************************************)
EXTENDS MarkdownOplog, SequenceTheorems, WellFoundedInduction, TLAPS

LastRecord == log[Len(log)]

\* The parts of the variables the argument looks at.  A step that has opened
\* the log has a manifest; a record that is appended is the last one, until the
\* operation is answered.
Shape ==
  /\ \E S : log \in Seq(S)
  /\ \A i \in 1..Len(log) : log[i].sequence \in Nat \ {0}
  /\ manifest.revision \in Nat
  /\ applying = [step |-> applying.step, operation |-> applying.operation,
                 current |-> applying.current]

Progress ==
  /\ At("created") => Len(log) = 1 /\ LastRecord.sequence = 1
  /\ At("ready") => ~Logged(applying.operation)
  /\ At("appended") =>
       /\ log # <<>>
       /\ LastRecord.operation = applying.operation
       /\ LastRecord.sequence = manifest.revision + 1
  /\ At("saved") => log # <<>> /\ LastRecord.operation = applying.operation

OplogInvariant ==
  Shape /\ Progress /\ OncePerKey /\ AnsweredIsLogged /\ RevisionInStep

\* Appending a record keeps the others and adds one at the end.
LEMMA AppendKeeps ==
  ASSUME NEW S, NEW l \in Seq(S), NEW e
  PROVE  /\ Append(l, e) \in Seq(S \cup {e})
         /\ Len(l) \in Nat
         /\ DOMAIN l = 1..Len(l)
         /\ Len(Append(l, e)) = Len(l) + 1
         /\ \A i \in 1..Len(l) : Append(l, e)[i] = l[i]
         /\ Append(l, e)[Len(l) + 1] = e
         /\ SubSeq(Append(l, e), 1, Len(l)) = l
  <1>1. l \in Seq(S \cup {e}) OBVIOUS
  <1> QED BY <1>1

\* A sequence is all of itself.
LEMMA WholeSequence ==
  ASSUME NEW S, NEW l \in Seq(S)
  PROVE  Len(l) >= Len(l) /\ SubSeq(l, 1, Len(l)) = l
  OBVIOUS

\* A sequence with a record is not the empty one.
LEMMA EmptyHasNone == ASSUME NEW l, Len(l) = 1 PROVE l # <<>>
  <1>1. Len(<<>>) = 0 OBVIOUS
  <1> SUFFICES ASSUME l = <<>> PROVE 0 = 1 OBVIOUS
  <1> QED BY <1>1, Zenon

\* The empty log satisfies the invariant.
LEMMA OplogInit == Init => OplogInvariant
  <1> SUFFICES ASSUME Init PROVE OplogInvariant OBVIOUS
  <1>1. log = <<>> /\ log \in Seq({}) /\ Len(log) = 0 BY DEF Init
  <1>2. Shape BY <1>1 DEF Init, Shape, NoManifest, Idle
  <1>3. Progress BY DEF Init, Progress, Idle, At
  <1>4. OncePerKey /\ AnsweredIsLogged /\ RevisionInStep
    BY <1>1 DEF Init, OncePerKey, AnsweredIsLogged, RevisionInStep, NoManifest
  <1> QED BY <1>2, <1>3, <1>4 DEF OplogInvariant

\* A step that leaves the log, the manifest and what is answered alone keeps
\* what is said of them.
LEMMA OplogStutter ==
  ASSUME OplogInvariant, UNCHANGED <<log, manifest, answered>>
  PROVE  OncePerKey' /\ AnsweredIsLogged' /\ RevisionInStep'
  BY DEF OplogInvariant, OncePerKey, AnsweredIsLogged, RevisionInStep, Logged

\* Taking an operation off the queue touches nothing on disk.
LEMMA OplogBegin == OplogInvariant /\ Begin => OplogInvariant'
  <1> SUFFICES ASSUME OplogInvariant, Begin PROVE OplogInvariant' OBVIOUS
  <1>1. UNCHANGED <<log, manifest, answered>> BY DEF Begin, disk
  <1>2. Shape' BY <1>1 DEF Begin, OplogInvariant, Shape
  <1>3. Progress' BY <1>1 DEF Begin, Progress, At
  <1> QED BY <1>1, <1>2, <1>3, OplogStutter DEF OplogInvariant

\* Opening the log writes its first record, or a manifest for a log without one.
LEMMA OplogOpen == OplogInvariant /\ OpenLog => OplogInvariant'
  <1> SUFFICES ASSUME OplogInvariant, OpenLog PROVE OplogInvariant' OBVIOUS
  <1> USE DEF OplogInvariant
  <1>0. answered' = answered BY DEF OpenLog
  <1>1. CASE manifest # NoManifest
    <2>1. UNCHANGED <<log, manifest>> /\ applying' = [applying EXCEPT !.step = "open"]
      BY <1>1 DEF OpenLog, Opened
    <2>2. Shape' BY <2>1 DEF Shape
    <2>3. Progress' BY <2>1 DEF Progress, At, Shape
    <2> QED BY <2>1, <2>2, <2>3, <1>0, OplogStutter
  <1>2. CASE manifest = NoManifest /\ log # <<>>
    <2>1. /\ manifest'.revision = LastRecord.sequence
          /\ log' = log
          /\ applying' = [applying EXCEPT !.step = "open"]
      BY <1>2 DEF OpenLog, Opened, LastRecord
    <2>2. PICK S : log \in Seq(S) BY DEF Shape
    <2>3. Len(log) \in 1..Len(log) BY <2>2, <1>2
    <2>4. Shape' BY <2>1, <2>3 DEF Shape, LastRecord
    <2>5. Progress' BY <2>1 DEF Progress, At, Shape
    <2>6. OncePerKey' BY <2>1 DEF OncePerKey
    <2>7. AnsweredIsLogged' BY <2>1, <1>0 DEF AnsweredIsLogged, Logged
    <2>8. RevisionInStep' BY <2>1, <1>2 DEF RevisionInStep, LastRecord
    <2> QED BY <2>4, <2>5, <2>6, <2>7, <2>8
  <1>3. CASE manifest = NoManifest /\ log = <<>>
    <2> DEFINE record == [sequence |-> 1, operation |-> Snapshot(applying.current)]
    <2>1. /\ log' = <<record>>
          /\ manifest' = manifest
          /\ applying' = [applying EXCEPT !.step = "created"]
      BY <1>3 DEF OpenLog, Opened
    <2>2. record.sequence = 1 OBVIOUS
    <2> HIDE DEF record
    <2>3. log' \in Seq({record}) /\ Len(log') = 1 /\ log'[1] = record
      BY <2>1
    <2>4. DOMAIN log' = 1..1 BY <2>1
    <2>5. Shape'
      <3>1. \A i \in 1..Len(log') : log'[i].sequence \in Nat \ {0}
        BY <2>2, <2>3
      <3>2. applying' = [step |-> applying'.step,
                         operation |-> applying'.operation,
                         current |-> applying'.current]
        BY <2>1 DEF Shape
      <3> QED BY <3>1, <3>2, <2>1, <2>3 DEF Shape
    <2>6. Progress' BY <2>1, <2>2, <2>3 DEF Progress, At, LastRecord, Shape
    <2>7. OncePerKey' BY <2>4 DEF OncePerKey
    <2>8. answered = {} BY <1>3 DEF AnsweredIsLogged, Logged
    <2>9. AnsweredIsLogged' BY <2>8, <1>0 DEF AnsweredIsLogged
    <2>10. manifest'.revision = 0 BY <2>1, <1>3 DEF NoManifest
    <2>11. RevisionInStep'
      <3>1. log' # <<>> BY <2>3, EmptyHasNone
      <3>2. 1..(Len(log') - 1) = {} BY <2>3
      <3>3. log'[Len(log')].sequence = 1 BY <2>2, <2>3
      <3>4. manifest'.revision \in {log'[Len(log')].sequence,
                                    log'[Len(log')].sequence - 1}
        BY <3>3, <2>10
      <3> QED BY <3>1, <3>2, <3>4, Zenon DEF RevisionInStep
    <2> QED BY <2>5, <2>6, <2>7, <2>9, <2>11
  <1> QED BY <1>1, <1>2, <1>3

\* The manifest of a new log tells its only record.
LEMMA OplogCreate == OplogInvariant /\ CreateManifest => OplogInvariant'
  <1> SUFFICES ASSUME OplogInvariant, CreateManifest PROVE OplogInvariant'
      OBVIOUS
  <1> USE DEF OplogInvariant
  <1>1. /\ log' = log /\ answered' = answered
        /\ manifest'.revision = 1
        /\ applying' = [applying EXCEPT !.step = "open"]
        /\ Len(log) = 1 /\ LastRecord.sequence = 1
    BY DEF CreateManifest, Progress
  <1>2. Shape' BY <1>1 DEF Shape
  <1>3. Progress' BY <1>1 DEF Progress, At, Shape
  <1>4. OncePerKey' /\ AnsweredIsLogged'
    BY <1>1 DEF OncePerKey, AnsweredIsLogged, Logged
  <1>5. log # <<>> BY <1>1, EmptyHasNone
  <1>6. RevisionInStep' BY <1>1, <1>5 DEF RevisionInStep, LastRecord
  <1> QED BY <1>2, <1>3, <1>4, <1>6

\* A duplicate is answered because it is in the log.
LEMMA OplogDedupe == OplogInvariant /\ Dedupe => OplogInvariant'
  <1> SUFFICES ASSUME OplogInvariant, Dedupe PROVE OplogInvariant' OBVIOUS
  <1> USE DEF OplogInvariant
  <1>1. /\ UNCHANGED <<log, manifest>>
        /\ applying' = Idle
        /\ answered' = answered \cup {applying.operation}
        /\ Logged(applying.operation)
    BY DEF Dedupe, disk, Duplicate
  <1>2. Shape' BY <1>1 DEF Shape, Idle
  <1>3. Progress' BY <1>1 DEF Progress, At, Idle
  <1>4. OncePerKey' /\ RevisionInStep' BY <1>1 DEF OncePerKey, RevisionInStep
  <1>5. AnsweredIsLogged' BY <1>1 DEF AnsweredIsLogged, Logged
  <1> QED BY <1>2, <1>3, <1>4, <1>5

\* Only an operation that is not in the log gets past the check.
LEMMA OplogCheck == OplogInvariant /\ Check => OplogInvariant'
  <1> SUFFICES ASSUME OplogInvariant, Check PROVE OplogInvariant' OBVIOUS
  <1> USE DEF OplogInvariant
  <1>1. /\ UNCHANGED <<log, manifest, answered>>
        /\ ~Logged(applying.operation)
    BY DEF Check, Duplicate
  <1>2. /\ applying'.step = "ready"
        /\ applying'.operation = applying.operation
        /\ applying' = [step |-> applying'.step, operation |-> applying'.operation,
                        current |-> applying'.current]
    BY DEF Check, Repaired, Shape
  <1>3. Shape' BY <1>1, <1>2 DEF Shape
  <1>4. Progress' BY <1>1, <1>2 DEF Progress, At, Logged
  <1> QED BY <1>1, <1>3, <1>4, OplogStutter

\* The appended record is new and carries the next number.
LEMMA OplogAppend == OplogInvariant /\ AppendRecord => OplogInvariant'
  <1> SUFFICES ASSUME OplogInvariant, AppendRecord PROVE OplogInvariant' OBVIOUS
  <1> USE DEF OplogInvariant
  <1> DEFINE record == [sequence |-> manifest.revision + 1,
                        operation |-> applying.operation]
  <1>1. /\ log' = Append(log, record)
        /\ UNCHANGED <<manifest, answered>>
        /\ applying' = [applying EXCEPT !.step = "appended"]
        /\ ~Logged(applying.operation)
    BY DEF AppendRecord, NextSequence, Progress
  <1>2. /\ record.sequence = manifest.revision + 1
        /\ record.operation = applying.operation
        /\ record.sequence \in Nat \ {0}
    BY DEF Shape
  <1> HIDE DEF record
  <1>3. PICK S : log \in Seq(S) BY DEF Shape
  <1>4. /\ log' \in Seq(S \cup {record})
        /\ Len(log) \in Nat
        /\ DOMAIN log = 1..Len(log)
        /\ Len(log') = Len(log) + 1
        /\ \A i \in 1..Len(log) : log'[i] = log[i]
        /\ log'[Len(log')] = record
    BY <1>1, <1>3, AppendKeeps
  <1>5. DOMAIN log' = 1..Len(log') BY <1>4
  <1>6. log' # <<>> BY <1>4
  <1>7. /\ applying'.step = "appended"
        /\ applying'.operation = applying.operation
        /\ applying' = [step |-> applying'.step, operation |-> applying'.operation,
                        current |-> applying'.current]
    BY <1>1 DEF Shape
  <1>8. Shape'
    <2>1. \A i \in 1..Len(log') : log'[i].sequence \in Nat \ {0}
      BY <1>2, <1>4 DEF Shape
    <2> QED BY <2>1, <1>1, <1>4, <1>7 DEF Shape
  <1>9. Progress' BY <1>1, <1>2, <1>4, <1>6, <1>7 DEF Progress, At, LastRecord
  <1>10. OncePerKey'
    <2>1. \A i \in 1..Len(log) : log'[i].operation # record.operation
      BY <1>1, <1>2, <1>4 DEF Logged
    <2>2. SUFFICES ASSUME NEW i \in 1..Len(log'), NEW j \in 1..Len(log'),
                          log'[i].operation = log'[j].operation
                   PROVE  i = j
      BY <1>5 DEF OncePerKey
    <2>3. CASE i \in 1..Len(log) /\ j \in 1..Len(log)
      BY <2>2, <2>3, <1>4 DEF OncePerKey
    <2>4. CASE i = Len(log') /\ j \in 1..Len(log) BY <2>1, <2>2, <2>4, <1>4
    <2>5. CASE j = Len(log') /\ i \in 1..Len(log) BY <2>1, <2>2, <2>5, <1>4
    <2>6. CASE i = Len(log') /\ j = Len(log') BY <2>6
    <2> QED BY <2>3, <2>4, <2>5, <2>6, <1>4
  <1>11. AnsweredIsLogged'
    <2>1. ASSUME NEW op \in answered PROVE Logged(op)'
      <3>1. PICK i \in 1..Len(log) : log[i].operation = op
        BY <1>4 DEF AnsweredIsLogged, Logged
      <3>2. i \in 1..Len(log') /\ log'[i].operation = op BY <3>1, <1>4
      <3> QED BY <3>2, <1>5 DEF Logged
    <2> QED BY <2>1, <1>1 DEF AnsweredIsLogged
  <1>12. RevisionInStep'
    <2>1. ASSUME NEW i \in 1..(Len(log') - 1)
          PROVE  log'[i].sequence <= log'[i + 1].sequence
      <3>1. i \in 1..Len(log) BY <1>4
      <3>2. CASE i < Len(log)
        <4>1. i \in 1..(Len(log) - 1) /\ i + 1 \in 1..Len(log) BY <3>1, <3>2, <1>4
        <4>2. log'[i] = log[i] /\ log'[i + 1] = log[i + 1] BY <3>1, <4>1, <1>4
        <4> QED BY <4>1, <4>2 DEF RevisionInStep
      <3>3. CASE i = Len(log)
        <4>1. log # <<>> BY <3>1, <3>3, <1>4
        <4>2. log[i].sequence \in {manifest.revision, manifest.revision + 1}
          BY <4>1, <3>1, <3>3 DEF RevisionInStep, Shape
        <4>3. log'[i] = log[i] /\ log'[i + 1] = record BY <3>1, <3>3, <1>4
        <4> QED BY <4>2, <4>3, <1>2 DEF Shape
      <3>4. i < Len(log) \/ i = Len(log) BY <3>1, <1>4
      <3> QED BY <3>2, <3>3, <3>4
    <2>2. manifest'.revision = log'[Len(log')].sequence - 1
      BY <1>1, <1>2, <1>4 DEF Shape
    <2> QED BY <2>1, <2>2, <1>6 DEF RevisionInStep
  <1> QED BY <1>8, <1>9, <1>10, <1>11, <1>12

\* The manifest catches up with the record.
LEMMA OplogManifest == OplogInvariant /\ WriteManifest => OplogInvariant'
  <1> SUFFICES ASSUME OplogInvariant, WriteManifest PROVE OplogInvariant' OBVIOUS
  <1> USE DEF OplogInvariant
  <1>1. /\ log' = log /\ answered' = answered
        /\ manifest'.revision = manifest.revision + 1
        /\ applying' = [applying EXCEPT !.step = "saved"]
        /\ log # <<>>
        /\ LastRecord.operation = applying.operation
        /\ LastRecord.sequence = manifest.revision + 1
    BY DEF WriteManifest, Progress
  <1>2. Shape' BY <1>1 DEF Shape
  <1>3. applying'.step = "saved" /\ applying'.operation = applying.operation
    BY <1>1 DEF Shape
  <1>4. Progress' BY <1>1, <1>3 DEF Progress, At, LastRecord
  <1>5. OncePerKey' /\ AnsweredIsLogged'
    BY <1>1 DEF OncePerKey, AnsweredIsLogged, Logged
  <1>6. RevisionInStep' BY <1>1 DEF RevisionInStep, LastRecord
  <1> QED BY <1>2, <1>4, <1>5, <1>6

\* The operation that is answered is that of the last record.
LEMMA OplogFile == OplogInvariant /\ WriteFile => OplogInvariant'
  <1> SUFFICES ASSUME OplogInvariant, WriteFile PROVE OplogInvariant' OBVIOUS
  <1> USE DEF OplogInvariant
  <1>1. /\ UNCHANGED <<log, manifest>>
        /\ applying' = Idle
        /\ answered' = answered \cup {applying.operation}
        /\ log # <<>>
        /\ LastRecord.operation = applying.operation
    BY DEF WriteFile, Progress
  <1>2. PICK S : log \in Seq(S) BY DEF Shape
  <1>3. Len(log) \in DOMAIN log BY <1>1, <1>2
  <1>4. Shape' BY <1>1 DEF Shape, Idle
  <1>5. Progress' BY <1>1 DEF Progress, At, Idle
  <1>6. OncePerKey' /\ RevisionInStep' BY <1>1 DEF OncePerKey, RevisionInStep
  <1>7. AnsweredIsLogged' BY <1>1, <1>3 DEF AnsweredIsLogged, Logged, LastRecord
  <1> QED BY <1>4, <1>5, <1>6, <1>7

\* Submissions, sweeps and edits change nothing the invariant speaks of; a
\* fault ends the operation at whatever step it was.
LEMMA OplogOthers ==
  ASSUME OplogInvariant,
         UNCHANGED <<log, manifest, answered>>,
         applying' = applying \/ applying' = Idle
  PROVE  OplogInvariant'
  <1>1. Shape' BY DEF OplogInvariant, Shape, Idle
  <1>2. Progress'
    <2>1. CASE applying' = applying
      BY <2>1 DEF OplogInvariant, Progress, At, LastRecord, Logged
    <2>2. CASE applying' = Idle BY <2>2 DEF Progress, At, Idle
    <2> QED BY <2>1, <2>2
  <1> QED BY <1>1, <1>2, OplogStutter DEF OplogInvariant

\* Every step keeps the invariant.
LEMMA OplogNext == OplogInvariant /\ [Next]_vars => OplogInvariant'
  <1> SUFFICES ASSUME OplogInvariant, [Next]_vars PROVE OplogInvariant' OBVIOUS
  <1>1. ASSUME NEW op, Submit(op) PROVE OplogInvariant'
    BY <1>1, OplogOthers DEF Submit, disk
  <1>2. ASSUME NEW document, Edit(document) PROVE OplogInvariant'
    BY <1>2, OplogOthers DEF Edit, process
  <1>3. CASE SweepReads \/ SweepSubmits \/ SweepGivesUp
    BY <1>3, OplogOthers DEF SweepReads, SweepSubmits, SweepGivesUp, disk
  <1>4. CASE Apply
    BY <1>4, OplogBegin, OplogOpen, OplogCreate, OplogDedupe, OplogCheck,
       OplogAppend, OplogManifest, OplogFile DEF Apply
  <1>5. CASE WriteFails BY <1>5, OplogOthers DEF WriteFails, AfterFailure, disk
  <1>6. CASE Crash BY <1>6, OplogOthers DEF Crash, disk
  <1>7. CASE UNCHANGED vars
    BY <1>7, OplogOthers DEF vars, disk, process
  <1> QED BY <1>1, <1>2, <1>3, <1>4, <1>5, <1>6, <1>7 DEF Next

\* The invariant holds in every reachable state of a document, over failed
\* writes and crashes between any two writes of an operation.
THEOREM OplogCorrect == Spec => []OplogInvariant
  BY OplogInit, OplogNext, PTL DEF Spec

\* An operation is in the log at most once: "exactly-once writes".
THEOREM LoggedOnce == Spec => []OncePerKey
  <1>1. OplogInvariant => OncePerKey BY DEF OplogInvariant
  <1> QED BY <1>1, OplogCorrect, PTL

\* What a client was told ok of is in the log.
THEOREM AnswersAreDurable == Spec => []AnsweredIsLogged
  <1>1. OplogInvariant => AnsweredIsLogged BY DEF OplogInvariant
  <1> QED BY <1>1, OplogCorrect, PTL

\* The manifest is one record behind the log at most, and the sort of the
\* records by sequence never reorders them.
THEOREM SequencesInOrder == Spec => []RevisionInStep
  <1>1. OplogInvariant => RevisionInStep BY DEF OplogInvariant
  <1> QED BY <1>1, OplogCorrect, PTL

\* No step changes or removes a record.
THEOREM LogIsAppendOnly == Spec => LogOnlyGrows
  <1> DEFINE Grown == Len(log') >= Len(log) /\ SubSeq(log', 1, Len(log)) = log
  <1>1. ASSUME OplogInvariant, [Next]_vars PROVE [Grown]_log
    <2>1. PICK S : log \in Seq(S) BY <1>1 DEF OplogInvariant, Shape
    <2>2. CASE AppendRecord
      BY <2>1, <2>2, AppendKeeps DEF AppendRecord
    <2>3. CASE OpenLog
      <3>1. CASE log = <<>>
        <4> DEFINE record ==
              [sequence |-> 1, operation |-> Snapshot(applying.current)]
        <4>1. log' = log \/ log' = <<record>>
          BY <2>3, <3>1 DEF OpenLog, Opened
        <4> HIDE DEF record
        <4>2. CASE log' = log BY <4>2
        <4>3. CASE log' = <<record>>
          <5>1. log' = Append(log, record) /\ log \in Seq({}) BY <4>3, <3>1
          <5> QED BY <5>1, AppendKeeps
        <4> QED BY <4>1, <4>2, <4>3
      <3>2. CASE log # <<>> BY <2>3, <3>2 DEF OpenLog, Opened
      <3> QED BY <3>1, <3>2
    <2>4. CASE ~AppendRecord /\ ~OpenLog
      BY <1>1, <2>4
      DEF Next, Apply, Submit, Edit, SweepReads, SweepSubmits, SweepGivesUp,
          Begin, CreateManifest, Dedupe, Check, WriteManifest, WriteFile,
          WriteFails, Crash, disk, process, vars
    <2> QED BY <2>2, <2>3, <2>4
  <1>2. Spec => [][Grown]_log BY <1>1, OplogCorrect, PTL DEF Spec
  <1> QED BY <1>2 DEF LogOnlyGrows
--------------------------------------------------------------------------------
(* What the log rebuilds to *)

\* A set of numbers that is not empty has a least one.
LEMMA LeastOf ==
  ASSUME NEW T, T \subseteq Nat, T # {}
  PROVE  \E x \in T : \A y \in T : ~ (y < x)
  <1>1. PICK R : R = {ss \in Nat \X Nat : ss[1] < ss[2]}
    OBVIOUS
  <1>2. IsWellFoundedOn(R, Nat)
    BY <1>1, NatLessThanWellFounded DEF OpToRel
  <1>3. PICK x \in T : \A y \in T : ~ (<<y, x>> \in R)
    BY <1>2, WFMin
  <1>4. QED BY <1>1, <1>3

\* f is the document after each of the first m records of l.
Builds(f, l, m) ==
  f = [n \in 0..m |-> IF n = 0 THEN DefaultContent
                      ELSE Applied(f[n - 1], l[n].operation)]

\* There is such an f for every number of records: for the least number that
\* has none, the f of the number before could be carried on.
LEMMA BuildsExist ==
  ASSUME NEW l, NEW k \in Nat
  PROVE  \E f : Builds(f, l, k)
  <1> DEFINE T == {m \in Nat : ~ \E f : Builds(f, l, m)}
  <1>1. SUFFICES ASSUME T # {} PROVE FALSE
    OBVIOUS
  <1>2. PICK m \in T : \A y \in T : ~ (y < m)
    BY <1>1, LeastOf
  <1>3. CASE m = 0
    <2>1. PICK f : f = [n \in 0..0 |-> DefaultContent]
      OBVIOUS
    <2>2. Builds(f, l, 0)
      BY <2>1 DEF Builds
    <2>3. QED BY <1>3, <2>2
  <1>4. CASE m # 0
    <2>1. m - 1 \in Nat /\ m - 1 < m
      BY <1>4
    <2>2. PICK g : Builds(g, l, m - 1)
      BY <1>2, <2>1
    <2>3. PICK f : f = [n \in 0..m |-> IF n = m THEN Applied(g[m - 1], l[m].operation) ELSE g[n]]
      OBVIOUS
    <2>4. \A n \in 0..(m - 1) : f[n] = g[n]
      BY <2>3
    <2>5. ASSUME NEW n \in 0..m
          PROVE  f[n] = IF n = 0 THEN DefaultContent ELSE Applied(f[n - 1], l[n].operation)
      <3>1. CASE n = m
        BY <1>4, <2>1, <2>3, <2>4, <3>1
      <3>2. CASE n # m
        <4>1. n \in 0..(m - 1) /\ (n # 0 => n - 1 \in 0..(m - 1))
          BY <3>2
        <4>2. g[n] = IF n = 0 THEN DefaultContent ELSE Applied(g[n - 1], l[n].operation)
          BY <2>2, <4>1 DEF Builds
        <4>3. QED BY <2>4, <4>1, <4>2
      <3>3. QED BY <3>1, <3>2
    <2>6. Builds(f, l, m)
      BY <2>3, <2>5 DEF Builds
    <2>7. QED BY <2>6
  <1>5. QED BY <1>3, <1>4

\* Where two logs agree they build the same documents: so they do before the
\* least place where they might not.
LEMMA BuildsAlike ==
  ASSUME NEW l, NEW k, NEW f, NEW g, NEW i \in Nat, NEW j \in Nat, i <= j,
         Builds(f, l, i), Builds(g, k, j), \A n \in 1..i : l[n] = k[n]
  PROVE  \A n \in 0..i : f[n] = g[n]
  <1> DEFINE T == {n \in 0..i : f[n] # g[n]}
  <1>1. SUFFICES ASSUME T # {} PROVE FALSE
    OBVIOUS
  <1>0. T \subseteq Nat OBVIOUS
  <1>2. PICK m \in T : \A y \in T : ~ (y < m)
    <2> HIDE DEF T
    <2> QED BY <1>0, <1>1, LeastOf
  <1>3. /\ f[m] = IF m = 0 THEN DefaultContent ELSE Applied(f[m - 1], l[m].operation)
        /\ g[m] = IF m = 0 THEN DefaultContent ELSE Applied(g[m - 1], k[m].operation)
    BY DEF Builds
  <1>4. CASE m = 0
    BY <1>3, <1>4
  <1>5. CASE m # 0
    <2>1. m - 1 \in 0..i /\ m - 1 < m /\ m \in 1..i
      BY <1>5
    <2>2. f[m - 1] = g[m - 1]
      BY <1>2, <2>1
    <2>3. QED BY <1>3, <1>5, <2>1, <2>2
  <1>6. QED BY <1>4, <1>5

\* What a log rebuilds to is the last of the documents it builds.
LEMMA RebuiltIs ==
  ASSUME NEW S, NEW l \in Seq(S)
  PROVE  \E f : Builds(f, l, Len(l)) /\ Rebuilt(l) = f[Len(l)]
  <1>1. Len(l) \in Nat
    OBVIOUS
  <1>2. \E f : f = [n \in 0..Len(l) |-> IF n = 0 THEN DefaultContent ELSE Applied(f[n - 1], l[n].operation)]
    BY <1>1, BuildsExist DEF Builds
  <1>3. PICK f : f = CHOOSE after : after = [n \in 0..Len(l) |-> IF n = 0 THEN DefaultContent ELSE Applied(after[n - 1], l[n].operation)]
    OBVIOUS
  <1>4. f = [n \in 0..Len(l) |-> IF n = 0 THEN DefaultContent ELSE Applied(f[n - 1], l[n].operation)]
    BY <1>2, <1>3
  <1>5. Rebuilt(l) = f[Len(l)]
    BY <1>3 DEF Rebuilt
  <1>6. QED BY <1>4, <1>5 DEF Builds

\* A record more is applied to what the log rebuilt to without it.
LEMMA RebuiltAppend ==
  ASSUME NEW S, NEW l \in Seq(S), NEW r \in S
  PROVE  Rebuilt(Append(l, r)) = Applied(Rebuilt(l), r.operation)
  <1>1. PICK k : k = Append(l, r)
    OBVIOUS
  <1>2. /\ k \in Seq(S) /\ Len(k) = Len(l) + 1 /\ k[Len(l) + 1] = r
        /\ Len(l) \in Nat /\ \A n \in 1..Len(l) : l[n] = k[n]
    BY <1>1
  <1>3. PICK f : Builds(f, l, Len(l)) /\ Rebuilt(l) = f[Len(l)]
    BY RebuiltIs
  <1>4. PICK g : Builds(g, k, Len(k)) /\ Rebuilt(k) = g[Len(k)]
    BY <1>2, RebuiltIs
  <1>5. f[Len(l)] = g[Len(l)]
    <2>1. \A n \in 0..Len(l) : f[n] = g[n]
      <3>1. PICK i \in Nat, j \in Nat : i = Len(l) /\ j = Len(k)
        BY <1>2
      <3>2. i <= j /\ Builds(f, l, i) /\ Builds(g, k, j) /\ \A n \in 1..i : l[n] = k[n]
        BY <1>2, <1>3, <1>4, <3>1
      <3> QED BY <3>1, <3>2, BuildsAlike
    <2> QED BY <2>1, <1>2
  <1>6. g[Len(k)] = Applied(g[Len(k) - 1], k[Len(k)].operation)
    BY <1>2, <1>4 DEF Builds
  <1>7. Len(k) - 1 = Len(l) /\ k[Len(k)] = r
    BY <1>2
  <1> QED BY <1>1, <1>3, <1>4, <1>5, <1>6, <1>7

\* Operations that only applyNow itself puts in the log.
Opening(op) == op.type = "initial_snapshot"

\* What an operation finds in the log is a snapshot, or was answered.
Settled(op) == Opening(op) \/ op \in answered

\* An operation that is written but not yet answered.
Written == At("appended") \/ At("saved")

\* The queue and the operation at work are of clients and sweeps; the document
\* at each step is what the log rebuilds to.
Submitted ==
  /\ \E S : queue \in Seq(S)
  /\ \A i \in 1..Len(queue) : ~Opening(queue[i])
  /\ ~At("idle") => ~Opening(applying.operation)

Following ==
  /\ At("idle") \/ At("read") =>
       manifest = NoManifest \/ manifest.document = Rebuilt(log)
  /\ At("created") =>
       log = <<[sequence |-> 1, operation |-> Snapshot(applying.current)]>>
  /\ At("open") => manifest.document = Rebuilt(log)
  /\ At("ready") => applying.current = Rebuilt(log)
  /\ Written => After = Rebuilt(log)
  /\ At("saved") => manifest.document = Rebuilt(log)

Answering ==
  \A i \in 1..Len(log) :
    \/ Settled(log[i].operation)
    \/ Written /\ log[i].operation = applying.operation

Untroubled == faults \in Nat /\ (faults = 0 => Submitted /\ Following /\ Answering)

\* A log of one snapshot rebuilds to the document in it.
LEMMA RebuiltSnapshot ==
  ASSUME NEW d, NEW r, r.operation = Snapshot(d)
  PROVE  Rebuilt(<<r>>) = d
  <1>1. <<>> \in Seq({r}) /\ Append(<<>>, r) = <<r>> OBVIOUS
  <1>2. Rebuilt(<<r>>) = Applied(Rebuilt(<<>>), r.operation)
    BY <1>1, RebuiltAppend
  <1> QED BY <1>2 DEF Applied, Snapshot, Operation

\* All that a step needs of the other invariant.
Trusted == OplogInvariant /\ OplogInvariant' /\ Untroubled

\* Nothing is written, submitted or in doubt before the first step.
LEMMA UntroubledInit == Init => Untroubled
  <1> SUFFICES ASSUME Init PROVE Untroubled OBVIOUS
  <1>1. /\ log = <<>> /\ Len(log) = 0 /\ queue \in Seq({}) /\ Len(queue) = 0
        /\ At("idle") /\ manifest = NoManifest /\ faults \in Nat
    BY DEF Init, At, Idle
  <1>2. Submitted BY <1>1 DEF Submitted
  <1>3. Following BY <1>1 DEF Following, At, Written
  <1>4. Answering BY <1>1 DEF Answering
  <1> QED BY <1>1, <1>2, <1>3, <1>4 DEF Untroubled

\* The queue of an operation more: it is not a snapshot.
LEMMA UntroubledQueue ==
  ASSUME Untroubled, NEW op, ~Opening(op), queue' = Append(queue, op),
         UNCHANGED <<log, manifest, applying, answered, faults>>
  PROVE  Untroubled'
  <1>1. faults' \in Nat BY DEF Untroubled
  <1> SUFFICES ASSUME faults = 0 PROVE (Submitted /\ Following /\ Answering)'
    BY <1>1 DEF Untroubled
  <1>2. Submitted /\ Following /\ Answering BY DEF Untroubled
  <1>3. PICK S : queue \in Seq(S) BY <1>2 DEF Submitted
  <1>4. /\ queue' \in Seq(S \cup {op}) /\ Len(queue) \in Nat
        /\ Len(queue') = Len(queue) + 1
        /\ \A i \in 1..Len(queue) : queue'[i] = queue[i]
        /\ queue'[Len(queue) + 1] = op
    BY <1>3, AppendKeeps
  <1>5. \A i \in 1..Len(queue') : ~Opening(queue'[i])
    BY <1>2, <1>4 DEF Submitted
  <1>6. Submitted' BY <1>2, <1>4, <1>5 DEF Submitted, At
  <1>7. Following' BY <1>2 DEF Following, At, Written, After
  <1>8. Answering' BY <1>2 DEF Answering, At, Written, Settled
  <1> QED BY <1>6, <1>7, <1>8

\* Sweeps that read and edits of the file are nothing to the log.
LEMMA UntroubledOthers ==
  ASSUME Untroubled,
         UNCHANGED <<log, manifest, queue, applying, answered, faults>>
  PROVE  Untroubled'
  BY DEF Untroubled, Submitted, Following, Answering, At, Written, After, Settled

\* After the first fault nothing more is claimed.
LEMMA UntroubledFault ==
  ASSUME Untroubled, faults' = faults + 1 PROVE Untroubled'
  <1>1. faults' \in Nat /\ faults' # 0 BY DEF Untroubled
  <1> QED BY <1>1 DEF Untroubled

\* The operation taken off the queue is not a snapshot either.
LEMMA UntroubledBegin ==
  ASSUME Trusted, Begin PROVE Untroubled'
  <1> USE DEF Trusted
  <1>1. /\ UNCHANGED <<log, manifest, answered, faults>>
        /\ At("idle") /\ queue # <<>> /\ queue' = Tail(queue)
        /\ applying'.step = "read" /\ applying'.operation = Head(queue)
    BY DEF Begin, disk, bounds
  <1>2. faults' \in Nat BY <1>1 DEF Untroubled
  <1> SUFFICES ASSUME faults = 0 PROVE (Submitted /\ Following /\ Answering)'
    BY <1>1, <1>2 DEF Untroubled
  <1>3. Submitted /\ Following /\ Answering BY DEF Untroubled
  <1>4. PICK S : queue \in Seq(S) BY <1>3 DEF Submitted
  <1>5. /\ Len(queue) \in Nat \ {0} /\ Head(queue) = queue[1]
        /\ queue' \in Seq(S) /\ Len(queue') = Len(queue) - 1
        /\ \A i \in 1..Len(queue') : queue'[i] = queue[i + 1]
    BY <1>1, <1>4
  <1>6. ~Opening(Head(queue)) BY <1>3, <1>5 DEF Submitted
  <1>7. \A i \in 1..Len(queue') : ~Opening(queue'[i])
    BY <1>3, <1>5 DEF Submitted
  <1>8. Submitted' BY <1>1, <1>5, <1>6, <1>7 DEF Submitted, At
  <1>9. Following' BY <1>1, <1>3 DEF Following, At, Written
  <1>10. Answering' BY <1>1, <1>3 DEF Answering, At, Written, Settled
  <1> QED BY <1>8, <1>9, <1>10

\* The log that is opened is the one the manifest tells, or a new one.
LEMMA UntroubledOpen ==
  ASSUME Trusted, OpenLog PROVE Untroubled'
  <1> USE DEF Trusted
  <1>1. UNCHANGED <<queue, answered, faults>> /\ At("read")
    BY DEF OpenLog, bounds
  <1>2. faults' \in Nat BY <1>1 DEF Untroubled
  <1> SUFFICES ASSUME faults = 0 PROVE (Submitted /\ Following /\ Answering)'
    BY <1>1, <1>2 DEF Untroubled
  <1>3. Submitted /\ Following /\ Answering BY DEF Untroubled
  <1>4. /\ applying'.operation = applying.operation
        /\ applying'.current = applying.current
        /\ applying'.step \in {"open", "created"}
    BY DEF OpenLog, Opened, OplogInvariant, Shape
  <1>5. Submitted' BY <1>1, <1>3, <1>4 DEF Submitted, At
  <1>6. CASE log' = log /\ applying'.step = "open"
    <2>1. manifest'.document = Rebuilt(log)
      <3>1. CASE manifest # NoManifest
        BY <1>1, <1>3, <3>1 DEF OpenLog, Opened, Following
      <3>2. CASE manifest = NoManifest
        BY <1>6, <3>2, <1>4, EmptyHasNone DEF OpenLog, Opened, OplogInvariant, Shape
      <3> QED BY <3>1, <3>2
    <2>2. Following' BY <1>6, <2>1 DEF Following, At, Written
    <2>3. Answering' BY <1>1, <1>3, <1>6 DEF Answering, At, Written, Settled
    <2> QED BY <1>5, <2>2, <2>3
  <1>7. CASE /\ log' = <<[sequence |-> 1, operation |-> Snapshot(applying.current)]>>
             /\ applying'.step = "created"
    <2>1. Following' BY <1>4, <1>7 DEF Following, At, Written
    <2>2. Opening(log'[1].operation) /\ Len(log') = 1
      BY <1>7 DEF Opening, Snapshot, Operation
    <2>3. Answering' BY <2>2 DEF Answering, Settled, Opening
    <2> QED BY <1>5, <2>1, <2>3
  <1>8. \/ log' = log /\ applying'.step = "open"
        \/ /\ log' = <<[sequence |-> 1, operation |-> Snapshot(applying.current)]>>
           /\ applying'.step = "created"
    BY DEF OpenLog, Opened, OplogInvariant, Shape
  <1> QED BY <1>6, <1>7, <1>8

\* The manifest of a new log tells the document in its snapshot.
LEMMA UntroubledCreate ==
  ASSUME Trusted, CreateManifest PROVE Untroubled'
  <1> USE DEF Trusted
  <1>1. /\ UNCHANGED <<log, queue, answered, faults>> /\ At("created")
        /\ manifest'.document = applying.current
        /\ applying'.step = "open" /\ applying'.operation = applying.operation
    BY DEF CreateManifest, bounds, OplogInvariant, Shape
  <1>2. faults' \in Nat BY <1>1 DEF Untroubled
  <1> SUFFICES ASSUME faults = 0 PROVE (Submitted /\ Following /\ Answering)'
    BY <1>1, <1>2 DEF Untroubled
  <1>3. Submitted /\ Following /\ Answering BY DEF Untroubled
  <1>4. Submitted' BY <1>1, <1>3 DEF Submitted, At
  <1>5. log = <<[sequence |-> 1, operation |-> Snapshot(applying.current)]>>
    BY <1>1, <1>3 DEF Following
  <1>6. Rebuilt(log) = applying.current BY <1>5, RebuiltSnapshot
  <1>7. Following' BY <1>1, <1>6 DEF Following, At, Written
  <1>8. Answering' BY <1>1, <1>3 DEF Answering, At, Written, Settled
  <1> QED BY <1>4, <1>7, <1>8

\* A duplicate is answered again; nothing was waiting to be answered.
LEMMA UntroubledDedupe ==
  ASSUME Trusted, Dedupe PROVE Untroubled'
  <1> USE DEF Trusted
  <1>1. /\ UNCHANGED <<log, manifest, queue, faults>> /\ At("open")
        /\ answered \subseteq answered' /\ applying'.step = "idle"
    BY DEF Dedupe, disk, bounds, Idle
  <1>2. faults' \in Nat BY <1>1 DEF Untroubled
  <1> SUFFICES ASSUME faults = 0 PROVE (Submitted /\ Following /\ Answering)'
    BY <1>1, <1>2 DEF Untroubled
  <1>3. Submitted /\ Following /\ Answering BY DEF Untroubled
  <1>4. Submitted' BY <1>1, <1>3 DEF Submitted, At
  <1>5. Following' BY <1>1, <1>3 DEF Following, At, Written
  <1>6. Answering' BY <1>1, <1>3 DEF Answering, At, Written, Settled
  <1> QED BY <1>4, <1>5, <1>6

\* The document goes on as what the log rebuilds to, repaired or not.
LEMMA UntroubledCheck ==
  ASSUME Trusted, Check PROVE Untroubled'
  <1> USE DEF Trusted
  <1>1. UNCHANGED <<log, manifest, queue, answered, faults>> /\ At("open")
    BY DEF Check, bounds
  <1>2. faults' \in Nat BY <1>1 DEF Untroubled
  <1> SUFFICES ASSUME faults = 0 PROVE (Submitted /\ Following /\ Answering)'
    BY <1>1, <1>2 DEF Untroubled
  <1>3. Submitted /\ Following /\ Answering BY DEF Untroubled
  <1>4. manifest.document = Rebuilt(log) BY <1>1, <1>3 DEF Following
  <1>5. /\ applying'.step = "ready" /\ applying'.operation = applying.operation
        /\ applying'.current = Rebuilt(log)
    BY <1>4 DEF Check, Repaired, OplogInvariant, Shape
  <1>6. Submitted' BY <1>1, <1>3, <1>5 DEF Submitted, At
  <1>7. Following' BY <1>1, <1>5 DEF Following, At, Written
  <1>8. Answering' BY <1>1, <1>3, <1>5 DEF Answering, At, Written, Settled
  <1> QED BY <1>6, <1>7, <1>8

\* The record more is that of the operation, applied to the same document.
LEMMA UntroubledAppend ==
  ASSUME Trusted, AppendRecord PROVE Untroubled'
  <1> USE DEF Trusted
  <1> DEFINE record == [sequence |-> NextSequence, operation |-> applying.operation]
  <1>1. /\ UNCHANGED <<manifest, queue, answered, faults>> /\ At("ready")
        /\ log' = Append(log, record)
        /\ applying'.step = "appended" /\ applying'.operation = applying.operation
        /\ applying'.current = applying.current
    BY DEF AppendRecord, bounds, OplogInvariant, Shape
  <1>2. record.operation = applying.operation OBVIOUS
  <1> HIDE DEF record
  <1>3. faults' \in Nat BY <1>1 DEF Untroubled
  <1> SUFFICES ASSUME faults = 0 PROVE (Submitted /\ Following /\ Answering)'
    BY <1>1, <1>3 DEF Untroubled
  <1>4. Submitted /\ Following /\ Answering BY DEF Untroubled
  <1>5. PICK S : log \in Seq(S) BY DEF OplogInvariant, Shape
  <1>6. log \in Seq(S \cup {record}) /\ record \in S \cup {record} BY <1>5
  <1>7. Rebuilt(log') = Applied(applying.current, applying.operation)
    BY <1>1, <1>2, <1>4, <1>6, RebuiltAppend DEF Following
  <1>8. /\ Len(log) \in Nat /\ Len(log') = Len(log) + 1
        /\ \A i \in 1..Len(log) : log'[i] = log[i]
        /\ log'[Len(log) + 1] = record
    BY <1>1, <1>5, AppendKeeps
  <1>9. Submitted' BY <1>1, <1>4 DEF Submitted, At
  <1>10. Following' BY <1>1, <1>7 DEF Following, At, Written, After
  <1>11. Answering'
    <2>1. Written' /\ ~Written BY <1>1 DEF Written, At
    <2>2. \A i \in 1..Len(log) : Settled(log[i].operation)
      BY <1>4, <2>1 DEF Answering
    <2>3. \A i \in 1..Len(log) :
            Opening(log'[i].operation) \/ log'[i].operation \in answered'
      BY <1>1, <1>8, <2>2 DEF Settled
    <2>4. \A i \in 1..Len(log') :
            \/ Opening(log'[i].operation) \/ log'[i].operation \in answered'
            \/ Written' /\ log'[i].operation = applying'.operation
      BY <1>1, <1>2, <1>8, <2>1, <2>3
    <2> QED BY <2>4 DEF Answering, Settled, Opening
  <1> QED BY <1>9, <1>10, <1>11

\* The manifest tells the document the log has come to.
LEMMA UntroubledManifest ==
  ASSUME Trusted, WriteManifest PROVE Untroubled'
  <1> USE DEF Trusted
  <1>1. /\ UNCHANGED <<log, queue, answered, faults>> /\ At("appended")
        /\ manifest'.document = After
        /\ applying'.step = "saved" /\ applying'.operation = applying.operation
        /\ applying'.current = applying.current
    BY DEF WriteManifest, bounds, OplogInvariant, Shape
  <1>2. faults' \in Nat BY <1>1 DEF Untroubled
  <1> SUFFICES ASSUME faults = 0 PROVE (Submitted /\ Following /\ Answering)'
    BY <1>1, <1>2 DEF Untroubled
  <1>3. Submitted /\ Following /\ Answering BY DEF Untroubled
  <1>4. After = Rebuilt(log) /\ After' = After
    BY <1>1, <1>3 DEF Following, Written, After
  <1>5. Submitted' BY <1>1, <1>3 DEF Submitted, At
  <1>6. Following' BY <1>1, <1>4 DEF Following, At, Written
  <1>7. Answering' BY <1>1, <1>3 DEF Answering, At, Written, Settled
  <1> QED BY <1>5, <1>6, <1>7

\* The record that was waiting for its answer gets it.
LEMMA UntroubledFile ==
  ASSUME Trusted, WriteFile PROVE Untroubled'
  <1> USE DEF Trusted
  <1>1. /\ UNCHANGED <<log, manifest, queue, faults>> /\ At("saved")
        /\ answered' = answered \cup {applying.operation}
        /\ applying'.step = "idle"
    BY DEF WriteFile, bounds, Idle
  <1>2. faults' \in Nat BY <1>1 DEF Untroubled
  <1> SUFFICES ASSUME faults = 0 PROVE (Submitted /\ Following /\ Answering)'
    BY <1>1, <1>2 DEF Untroubled
  <1>3. Submitted /\ Following /\ Answering BY DEF Untroubled
  <1>4. Submitted' BY <1>1, <1>3 DEF Submitted, At
  <1>5. Following' BY <1>1, <1>3 DEF Following, At, Written
  <1>6. Answering' BY <1>1, <1>3 DEF Answering, At, Written, Settled
  <1> QED BY <1>4, <1>5, <1>6

\* Every step keeps what is claimed as long as there was no fault.
LEMMA UntroubledNext ==
  ASSUME OplogInvariant, Untroubled, [Next]_vars PROVE Untroubled'
  <1>1. OplogInvariant' BY OplogNext
  <1>2. Trusted BY <1>1 DEF Trusted
  <1>3. ASSUME NEW b, Submit(Note(b)) PROVE Untroubled'
    BY <1>3, UntroubledQueue
    DEF Submit, Note, Operation, Opening, disk
  <1>4. ASSUME NEW document, Submit(Rewrite(document, 0)) PROVE Untroubled'
    BY <1>4, UntroubledQueue
    DEF Submit, Rewrite, Operation, Opening, disk
  <1>5. ASSUME NEW document, Edit(document) PROVE Untroubled'
    BY <1>5, UntroubledOthers DEF Edit, process
  <1>6. CASE SweepReads \/ SweepGivesUp
    BY <1>6, UntroubledOthers DEF SweepReads, SweepGivesUp, disk, bounds
  <1>7. CASE SweepSubmits
    BY <1>7, UntroubledQueue
    DEF SweepSubmits, Rewrite, Operation, Opening, disk, bounds
  <1>8. CASE Apply
    BY <1>2, <1>8, UntroubledBegin, UntroubledOpen, UntroubledCreate,
       UntroubledDedupe, UntroubledCheck, UntroubledAppend, UntroubledManifest,
       UntroubledFile
    DEF Apply
  <1>9. CASE WriteFails \/ Crash BY <1>9, UntroubledFault DEF WriteFails, Crash
  <1>10. CASE UNCHANGED vars
    BY <1>10, UntroubledOthers DEF vars, disk, process, bounds
  <1> QED BY <1>3, <1>4, <1>5, <1>6, <1>7, <1>8, <1>9, <1>10 DEF Next

\* As long as no write has failed and no process has crashed, an operation is
\* answered for the first time when the document is what its log rebuilds to.
THEOREM BuiltWithoutFault == Spec => BuiltUntilFault
  <1> DEFINE Built == answered' # answered /\ faults = 0 => file' = Rebuilt(log')
  <1>1. ASSUME OplogInvariant, Untroubled, [Next]_vars PROVE [Built]_vars
    <2> SUFFICES ASSUME answered' # answered, faults = 0
                 PROVE  file' = Rebuilt(log')
      OBVIOUS
    <2>0. Next BY <1>1 DEF vars
    <2>1. Submitted /\ Following /\ Answering BY <1>1 DEF Untroubled
    <2>2. CASE WriteFile
      BY <2>1, <2>2 DEF WriteFile, Following, Written
    <2>3. CASE Dedupe
      <3>1. /\ At("open") /\ Logged(applying.operation)
            /\ answered' = answered \cup {applying.operation}
        BY <2>3 DEF Dedupe, Duplicate
      <3>2. ~Opening(applying.operation) BY <2>1, <3>1 DEF Submitted, At
      <3>3. DOMAIN log = 1..Len(log) BY <1>1 DEF OplogInvariant, Shape
      <3>4. Settled(applying.operation)
        BY <2>1, <3>1, <3>3 DEF Logged, Answering, Written, At
      <3> QED BY <3>1, <3>2, <3>4 DEF Settled
    <2>4. CASE ~WriteFile /\ ~Dedupe
      BY <2>0, <2>4
      DEF Next, Apply, Submit, Edit, SweepReads, SweepSubmits, SweepGivesUp,
          Begin, OpenLog, CreateManifest, Check, AppendRecord, WriteManifest,
          WriteFails, Crash, process
    <2> QED BY <2>2, <2>3, <2>4
  <1>2. Spec => []Untroubled
    BY OplogCorrect, UntroubledInit, UntroubledNext, PTL DEF Spec
  <1>3. Spec => [][Built]_vars BY <1>1, <1>2, OplogCorrect, PTL DEF Spec
  <1> QED BY <1>3 DEF BuiltUntilFault
--------------------------------------------------------------------------------
(* Types *)

\* Nothing is in the list twice.
Distinct(s) == \A i, j \in DOMAIN s : i # j => s[i] # s[j]

\* Documents are the lists of different bullets that are short enough.
LEMMA DocumentIs ==
  ASSUME NEW s
  PROVE  s \in Documents <=> s \in Seq(Bullets) /\ Len(s) <= MaxItems /\ Distinct(s)
  <1>0. MaxItems \in Nat \ {0}
    BY BoundsAssumption
  <1>1. ASSUME s \in Documents
        PROVE  s \in Seq(Bullets) /\ Len(s) <= MaxItems /\ Distinct(s)
    <2>1. CASE s = <<>>
      BY <1>0, <2>1 DEF Distinct
    <2>2. CASE s # <<>>
      <3>1. PICK n \in 1..MaxItems :
              s \in [1..n -> Bullets] /\ \A i, j \in 1..n : i # j => s[i] # s[j]
        BY <1>1, <2>2 DEF Documents
      <3>2. n \in Nat /\ DOMAIN s = 1..n /\ s \in Seq(Bullets)
        BY <1>0, <3>1
      <3>3. Len(s) = n
        BY <3>2
      <3>4. QED BY <1>0, <3>1, <3>2, <3>3 DEF Distinct
    <2>3. QED BY <2>1, <2>2
  <1>2. ASSUME s \in Seq(Bullets), Len(s) <= MaxItems, Distinct(s)
        PROVE  s \in Documents
    <2>1. Len(s) \in Nat /\ DOMAIN s = 1..Len(s) /\ s \in [1..Len(s) -> Bullets]
      BY <1>2
    <2>2. CASE Len(s) = 0
      BY <1>2, <2>1, <2>2 DEF Documents
    <2>3. CASE Len(s) # 0
      <3>1. Len(s) \in 1..MaxItems
        BY <1>0, <1>2, <2>1, <2>3
      <3>2. PICK n \in 1..MaxItems : n = Len(s)
        BY <3>1
      <3>3. s \in [1..n -> Bullets] /\ \A i, j \in 1..n : i # j => s[i] # s[j]
        BY <1>2, <2>1, <3>2 DEF Distinct
      <3>4. QED BY <3>3 DEF Documents
    <2>4. QED BY <2>2, <2>3
  <1> QED BY <1>1, <1>2

\* A filter for a bullet leaves different bullets, and not that one.
LEMMA WithoutIs ==
  ASSUME NEW s \in Documents, NEW b \in Bullets
  PROVE  /\ Without(s, b) \in Seq(Bullets) /\ Distinct(Without(s, b))
         /\ \A i \in DOMAIN Without(s, b) : Without(s, b)[i] # b
  <1>1. s \in Seq(Bullets) /\ Len(s) <= MaxItems /\ Distinct(s)
    BY DocumentIs
  <1>2. Len(s) \in Nat /\ DOMAIN s = 1..Len(s)
    BY <1>1
  <1>3. CASE b \notin Range(s)
    <2>1. Without(s, b) = s
      BY <1>3 DEF Without
    <2>2. \A i \in DOMAIN s : s[i] # b
      BY <1>3 DEF Range
    <2>3. QED BY <1>1, <2>1, <2>2
  <1>4. CASE b \in Range(s)
    <2>1. \E i \in DOMAIN s : s[i] = b
      BY <1>4 DEF Range
    <2>2. PICK k : k = CHOOSE i \in DOMAIN s : s[i] = b
      OBVIOUS
    <2>3. k \in 1..Len(s) /\ s[k] = b
      BY <1>2, <2>1, <2>2
    <2>4. PICK p, q : p = SubSeq(s, 1, k - 1) /\ q = SubSeq(s, k + 1, Len(s))
      OBVIOUS
    <2>5. /\ p \in Seq(Bullets) /\ Len(p) = k - 1
          /\ \A i \in 1..(k - 1) : p[i] = s[i]
      BY <1>1, <1>2, <2>3, <2>4, SubSeqProperties
    <2>6. /\ q \in Seq(Bullets) /\ Len(q) = Len(s) - k
          /\ \A i \in 1..(Len(s) - k) : q[i] = s[i + k]
      <3>1. k + 1 \in 1..(Len(s) + 1) /\ Len(s) \in k..Len(s) /\ Len(s) - (k + 1) + 1 = Len(s) - k
        BY <1>2, <2>3
      <3>2. q \in Seq(Bullets) /\ Len(q) = Len(s) - k
        BY <1>1, <2>4, <3>1, SubSeqProperties
      <3>3. \A i \in 1..(Len(s) - k) : q[i] = s[i + k]
        <4>1. PICK m \in Int, n \in Int : m = k + 1 /\ n = Len(s)
          <5>1. k + 1 \in Int /\ Len(s) \in Int
            BY <1>2, <2>3
          <5>2. QED BY <5>1
        <4>2. \A i \in m .. n : s[i] \in Bullets
          BY <1>1, <1>2, <2>3, <4>1
        <4>3. \A i \in 1 .. n - m + 1 : SubSeq(s, m, n)[i] = s[m + i - 1]
          BY <4>2, SubSeqProperties
        <4>4. \A i \in 1..(Len(s) - k) : i \in 1 .. n - m + 1 /\ m + i - 1 = i + k
          BY <1>2, <2>3, <4>1
        <4>5. QED BY <2>4, <4>1, <4>3, <4>4
      <3>4. QED BY <3>2, <3>3
    <2>7. PICK t : t = p \o q
      OBVIOUS
    <2>8. t \in Seq(Bullets) /\ Len(t) = Len(s) - 1 /\ DOMAIN t = 1..(Len(s) - 1)
      <3>1. t \in Seq(Bullets) /\ Len(t) = Len(p) + Len(q)
        BY <2>5, <2>6, <2>7, ConcatProperties
      <3>2. Len(p) + Len(q) = Len(s) - 1
        BY <1>2, <2>3, <2>5, <2>6
      <3>3. QED BY <3>1, <3>2
    <2>9. ASSUME NEW i \in 1..(Len(s) - 1)
          PROVE  t[i] = IF i < k THEN s[i] ELSE s[i + 1]
      <3>0. i \in 1 .. Len(p) + Len(q)
        BY <1>2, <2>3, <2>5, <2>6
      <3>1. t[i] = IF i <= Len(p) THEN p[i] ELSE q[i - Len(p)]
        BY <2>5, <2>6, <2>7, <3>0, ConcatProperties
      <3>2. CASE i < k
        BY <1>2, <2>3, <2>5, <3>1, <3>2
      <3>3. CASE ~ (i < k)
        <4>1. i - (k - 1) \in 1..(Len(s) - k) /\ i - (k - 1) + k = i + 1
          BY <1>2, <2>3, <3>3
        <4>2. t[i] = q[i - (k - 1)]
          BY <1>2, <2>3, <2>5, <3>1, <3>3
        <4>3. QED BY <2>6, <3>3, <4>1, <4>2
      <3>4. QED BY <3>2, <3>3
    <2>10. Distinct(t)
      <3>1. SUFFICES ASSUME NEW i \in 1..(Len(s) - 1), NEW j \in 1..(Len(s) - 1), i # j
                     PROVE  t[i] # t[j]
        BY <2>8 DEF Distinct
      <3>2. PICK m, n : m = (IF i < k THEN i ELSE i + 1) /\ n = (IF j < k THEN j ELSE j + 1)
        OBVIOUS
      <3>3. m \in 1..Len(s) /\ n \in 1..Len(s) /\ m # n
        BY <1>2, <2>3, <3>1, <3>2
      <3>4. s[m] # s[n]
        BY <1>1, <1>2, <3>3 DEF Distinct
      <3>5. t[i] = s[m] /\ t[j] = s[n]
        BY <2>9, <3>2
      <3>6. QED BY <3>4, <3>5
    <2>11. \A i \in DOMAIN t : t[i] # b
      BY <1>1, <1>2, <2>3, <2>8, <2>9 DEF Distinct
    <2>12. Without(s, b) = t
      BY <1>4, <2>2, <2>4, <2>7 DEF Without, RemoveAt
    <2>13. QED BY <2>8, <2>10, <2>11, <2>12
  <1>5. QED BY <1>3, <1>4

\* Inserting a bullet makes a document of a document.
LEMMA UpsertedIs ==
  ASSUME NEW s \in Documents, NEW b \in Bullets
  PROVE  Upserted(s, b) \in Documents
  <1>0. MaxItems \in Nat \ {0}
    BY BoundsAssumption
  <1>1. PICK w : w = Without(s, b)
    OBVIOUS
  <1>2. w \in Seq(Bullets) /\ Distinct(w) /\ \A i \in DOMAIN w : w[i] # b
    BY <1>1, WithoutIs
  <1>3. Len(w) \in Nat /\ DOMAIN w = 1..Len(w)
    BY <1>2
  <1>4. PICK t : t = <<b>> \o w
    OBVIOUS
  <1>5. t \in Seq(Bullets) /\ Len(t) = Len(w) + 1 /\ DOMAIN t = 1..(Len(w) + 1)
    BY <1>2, <1>3, <1>4
  <1>6. t[1] = b /\ \A i \in 2..(Len(w) + 1) : t[i] = w[i - 1] /\ i - 1 \in DOMAIN w
    BY <1>2, <1>3, <1>4
  <1>7. Distinct(t)
    <2>1. SUFFICES ASSUME NEW i \in 1..(Len(w) + 1), NEW j \in 1..(Len(w) + 1), i # j
                   PROVE  t[i] # t[j]
      BY <1>5 DEF Distinct
    <2>2. CASE i # 1 /\ j # 1
      <3>1. /\ t[i] = w[i - 1] /\ t[j] = w[j - 1]
            /\ i - 1 \in DOMAIN w /\ j - 1 \in DOMAIN w /\ i - 1 # j - 1
        BY <1>3, <1>6, <2>1, <2>2
      <3>2. QED BY <1>2, <3>1 DEF Distinct
    <2>3. CASE i = 1
      <3>1. t[i] = b /\ t[j] = w[j - 1] /\ j - 1 \in DOMAIN w
        BY <1>3, <1>6, <2>1, <2>3
      <3>2. QED BY <1>2, <3>1
    <2>4. CASE j = 1
      <3>1. t[j] = b /\ t[i] = w[i - 1] /\ i - 1 \in DOMAIN w
        BY <1>3, <1>6, <2>1, <2>4
      <3>2. QED BY <1>2, <3>1
    <2>5. QED BY <2>2, <2>3, <2>4
  <1>8. CASE Len(t) > MaxItems
    <2>1. PICK u : u = SubSeq(t, 1, MaxItems)
      OBVIOUS
    <2>2. u \in Seq(Bullets) /\ Len(u) = MaxItems /\ \A i \in 1..MaxItems : u[i] = t[i]
      <3>1. \A i \in 1 .. MaxItems : t[i] \in Bullets /\ i \in 1 .. Len(t)
        BY <1>0, <1>3, <1>5, <1>8
      <3>2. u \in Seq(Bullets) /\ Len(u) = MaxItems
        BY <1>0, <2>1, <3>1, SubSeqProperties
      <3>3. \A i \in 1 .. MaxItems - 1 + 1 : u[i] = t[1 + i - 1]
        BY <1>0, <2>1, <3>1, SubSeqProperties
      <3>4. QED BY <1>0, <3>2, <3>3
    <2>3. DOMAIN u = 1..MaxItems
      BY <2>2
    <2>4. Distinct(u)
      BY <1>0, <1>5, <1>7, <1>8, <2>2, <2>3 DEF Distinct
    <2>5. u \in Documents
      BY <1>0, <2>2, <2>4, DocumentIs
    <2>6. QED BY <1>1, <1>4, <1>8, <2>1, <2>5 DEF Upserted
  <1>9. CASE ~ (Len(t) > MaxItems)
    <2>1. t \in Documents
      BY <1>0, <1>3, <1>5, <1>7, <1>9, DocumentIs
    <2>2. QED BY <1>1, <1>4, <1>9, <2>1 DEF Upserted
  <1>10. QED BY <1>8, <1>9

\* The operations there are: what is written is a document, and what inserts a
\* bullet has one.
Genuine == {op \in Operations :
              op.document \in Documents /\ (op.type = "upsert_bullet" => op.bullet \in Bullets)}
Records == [sequence : Nat \ {0}, operation : Genuine]

\* TypeOK, of operations that are genuine.
OplogTyped ==
  /\ TypeOK
  /\ log \in Seq(Records)
  /\ queue \in Seq(Genuine)
  /\ applying.operation \in Genuine

\* The document there is when there is none is a document.
LEMMA EmptyIsDocument == <<>> \in Documents
  BY DEF Documents

\* The operations that are submitted, and that of nothing, are genuine.
LEMMA GenuineOnes ==
  /\ \A b \in Bullets : Note(b) \in Genuine
  /\ \A d \in Documents, n \in 0..MaxSweeps : Rewrite(d, n) \in Genuine
  /\ \A d \in Documents : Snapshot(d) \in Genuine
  /\ NoOperation \in Genuine
  /\ Idle \in [step : Steps, operation : Operations, current : Documents]
  <1>0. 0 \in 0..MaxSweeps
    BY BoundsAssumption
  <1>1. ASSUME NEW b \in Bullets PROVE Note(b) \in Genuine
    BY <1>0, EmptyIsDocument DEF Note, Operation, Genuine, Operations
  <1>2. ASSUME NEW d \in Documents, NEW n \in 0..MaxSweeps PROVE Rewrite(d, n) \in Genuine
    BY DEF Rewrite, Operation, Genuine, Operations
  <1>3. ASSUME NEW d \in Documents PROVE Snapshot(d) \in Genuine
    BY <1>0 DEF Snapshot, Operation, Genuine, Operations
  <1>4. NoOperation \in Genuine
    BY <1>0, EmptyIsDocument DEF NoOperation, Operation, Genuine, Operations
  <1>5. Idle \in [step : Steps, operation : Operations, current : Documents]
    BY <1>4, EmptyIsDocument DEF Idle, Steps, Genuine
  <1>6. QED BY <1>1, <1>2, <1>3, <1>4, <1>5

\* A genuine operation makes a document of a document.
LEMMA AppliedIs ==
  ASSUME NEW d \in Documents, NEW op \in Genuine
  PROVE  Applied(d, op) \in Documents
  BY UpsertedIs DEF Applied, Genuine

\* A log of genuine operations rebuilds to a document: there is no least record
\* after which it does not.
LEMMA RebuiltIsDocument ==
  ASSUME NEW l \in Seq(Records)
  PROVE  Rebuilt(l) \in Documents
  <1>1. Len(l) \in Nat /\ \A n \in 1..Len(l) : l[n].operation \in Genuine
    <2>1. Len(l) \in Nat /\ \A n \in 1..Len(l) : l[n] \in Records
      OBVIOUS
    <2>2. \A r \in Records : r.operation \in Genuine
      BY DEF Records
    <2>3. QED BY <2>1, <2>2
  <1>2. PICK f : Builds(f, l, Len(l)) /\ Rebuilt(l) = f[Len(l)]
    BY RebuiltIs
  <1> DEFINE T == {n \in 0..Len(l) : f[n] \notin Documents}
  <1>3. SUFFICES ASSUME T # {} PROVE FALSE
    BY <1>1, <1>2
  <1>4. T \subseteq Nat
    BY <1>1
  <1>5. PICK m \in T : \A y \in T : ~ (y < m)
    <2> HIDE DEF T
    <2> QED BY <1>3, <1>4, LeastOf
  <1>6. f[m] = IF m = 0 THEN DefaultContent ELSE Applied(f[m - 1], l[m].operation)
    BY <1>2 DEF Builds
  <1>7. CASE m = 0
    BY <1>5, <1>6, <1>7, EmptyIsDocument DEF DefaultContent
  <1>8. CASE m # 0
    <2>1. m - 1 \in 0..Len(l) /\ m - 1 < m /\ m \in 1..Len(l)
      BY <1>1, <1>5, <1>8
    <2>2. f[m - 1] \in Documents
      BY <1>5, <2>1
    <2>3. Applied(f[m - 1], l[m].operation) \in Documents
      BY <1>1, <2>1, <2>2, AppliedIs
    <2>4. QED BY <1>5, <1>6, <1>8, <2>3
  <1>9. QED BY <1>7, <1>8

\* It holds before anything is submitted.
LEMMA OplogTypedInit == Init => OplogTyped
  <1> SUFFICES ASSUME Init PROVE OplogTyped
    OBVIOUS
  <1>1. log \in Seq(Records) /\ queue \in Seq(Genuine)
    BY DEF Init
  <1>2. log \in Seq([sequence : Nat \ {0}, operation : Operations]) /\ queue \in Seq(Operations)
    BY DEF Init
  <1>3. applying.operation \in Genuine /\ applying \in [step : Steps, operation : Operations, current : Documents]
    BY GenuineOnes DEF Init, Idle
  <1>4. manifest \in [revision : Nat, document : Documents]
    BY EmptyIsDocument DEF Init, NoManifest
  <1>5. QED BY <1>1, <1>2, <1>3, <1>4, BoundsAssumption DEF Init, TypeOK, OplogTyped

\* Genuine operations are operations, and so are those of records.
LEMMA GenuineAre ==
  /\ Genuine \subseteq Operations
  /\ Records \subseteq [sequence : Nat \ {0}, operation : Operations]
  /\ \A q \in Seq(Genuine) : q \in Seq(Operations)
  /\ \A l \in Seq(Records) : l \in Seq([sequence : Nat \ {0}, operation : Operations])
  <1>1. Genuine \subseteq Operations
    BY DEF Genuine
  <1>2. Records \subseteq [sequence : Nat \ {0}, operation : Operations]
    BY <1>1 DEF Records
  <1>3. ASSUME NEW S, NEW U, S \subseteq U, NEW q \in Seq(S) PROVE q \in Seq(U)
    BY <1>3
  <1>4. QED BY <1>1, <1>2, <1>3

\* A submission, of a client or of a sweep, queues a genuine operation.
LEMMA TypedQueue ==
  ASSUME OplogTyped, NEW op \in Genuine, queue' = Append(queue, op),
         UNCHANGED <<log, manifest, file, applying, answered, edits, faults>>,
         sweep' \in Documents \cup {Missing},
         submissions' \in 0..MaxSubmissions, sweeps' \in 0..MaxSweeps
  PROVE  OplogTyped'
  <1>1. queue' \in Seq(Genuine)
    BY DEF OplogTyped
  <1>2. queue' \in Seq(Operations)
    BY <1>1, GenuineAre
  <1>3. QED BY <1>1, <1>2 DEF OplogTyped, TypeOK

\* What the sweep reads is a document; an edit leaves one.
LEMMA TypedFile ==
  ASSUME OplogTyped, UNCHANGED <<log, manifest, queue, applying, answered, submissions, faults>>,
         sweep' \in Documents \cup {Missing}, file' \in Documents \cup {Missing},
         sweeps' \in 0..MaxSweeps, edits' \in 0..MaxEdits
  PROVE  OplogTyped'
  BY DEF OplogTyped, TypeOK

\* A step of applyNow leaves the queue and the sweep alone.
LEMMA TypedApply ==
  ASSUME OplogTyped, UNCHANGED <<queue, sweep, bounds>>,
         log' \in Seq(Records), manifest' \in [revision : Nat, document : Documents],
         file' \in Documents \cup {Missing}, answered' \subseteq Operations,
         applying' \in [step : Steps, operation : Operations, current : Documents],
         applying'.operation \in Genuine
  PROVE  OplogTyped'
  <1>1. log' \in Seq([sequence : Nat \ {0}, operation : Operations])
    BY GenuineAre
  <1>2. QED BY <1>1 DEF OplogTyped, TypeOK, bounds

\* Clients submit notes and rewrites.
LEMMA TypedSubmit ==
  ASSUME OplogTyped, NEW op \in Genuine, Submit(op) PROVE OplogTyped'
  <1>1. submissions' \in 0..MaxSubmissions
    BY BoundsAssumption DEF Submit, OplogTyped, TypeOK
  <1>2. sweep' \in Documents \cup {Missing} /\ sweeps' \in 0..MaxSweeps
    BY DEF Submit, OplogTyped, TypeOK
  <1>3. QED BY <1>1, <1>2, TypedQueue DEF Submit, disk

\* An edit leaves a document.
LEMMA TypedEdit ==
  ASSUME OplogTyped, NEW d \in Documents, Edit(d) PROVE OplogTyped'
  <1>1. edits' \in 0..MaxEdits
    BY BoundsAssumption DEF Edit, OplogTyped, TypeOK
  <1>2. sweep' \in Documents \cup {Missing} /\ sweeps' \in 0..MaxSweeps
    BY DEF Edit, process, OplogTyped, TypeOK
  <1>3. QED BY <1>1, <1>2, TypedFile DEF Edit, process

\* A sweep reads a document and submits what it has read.
LEMMA TypedSweep ==
  ASSUME OplogTyped, SweepReads \/ SweepSubmits \/ SweepGivesUp PROVE OplogTyped'
  <1>1. CASE SweepReads
    <2>1. sweeps' \in 0..MaxSweeps
      BY <1>1, BoundsAssumption DEF SweepReads, OplogTyped, TypeOK
    <2>2. sweep' \in Documents \cup {Missing} /\ file' \in Documents \cup {Missing} /\ edits' \in 0..MaxEdits
      BY <1>1 DEF SweepReads, disk, OplogTyped, TypeOK
    <2>3. QED BY <1>1, <2>1, <2>2, TypedFile DEF SweepReads, disk
  <1>2. CASE SweepSubmits
    <2>1. sweep \in Documents /\ sweeps \in 0..MaxSweeps
      BY <1>2 DEF SweepSubmits, OplogTyped, TypeOK
    <2>2. Rewrite(sweep, sweeps) \in Genuine
      BY <2>1, GenuineOnes
    <2>3. submissions' \in 0..MaxSubmissions /\ sweeps' \in 0..MaxSweeps /\ sweep' \in Documents \cup {Missing}
      BY <1>2 DEF SweepSubmits, bounds, OplogTyped, TypeOK
    <2>4. QED BY <1>2, <2>2, <2>3, TypedQueue DEF SweepSubmits, disk, bounds
  <1>3. CASE SweepGivesUp
    <2>1. /\ sweep' \in Documents \cup {Missing} /\ file' \in Documents \cup {Missing}
          /\ edits' \in 0..MaxEdits /\ sweeps' \in 0..MaxSweeps
      BY <1>3 DEF SweepGivesUp, disk, bounds, OplogTyped, TypeOK
    <2>2. QED BY <1>3, <2>1, TypedFile DEF SweepGivesUp, disk, bounds
  <1>4. QED BY <1>1, <1>2, <1>3

\* What an operation begins with is a document, also where there was none.
LEMMA TypedBegin ==
  ASSUME OplogTyped, Begin PROVE OplogTyped'
  <1>1. queue \in Seq(Genuine) /\ queue # <<>>
    BY DEF Begin, OplogTyped
  <1>2. Head(queue) \in Genuine /\ Tail(queue) \in Seq(Genuine)
    BY <1>1
  <1>3. queue' \in Seq(Genuine) /\ queue' \in Seq(Operations)
    BY <1>2, GenuineAre DEF Begin
  <1>4. PICK d : d = IF file = Missing THEN DefaultContent ELSE file
    OBVIOUS
  <1>5. d \in Documents
    BY <1>4, EmptyIsDocument DEF DefaultContent, OplogTyped, TypeOK
  <1>6. applying' = [step |-> "read", operation |-> Head(queue), current |-> d]
    BY <1>4 DEF Begin
  <1>7. applying'.operation \in Genuine /\ applying' \in [step : Steps, operation : Operations, current : Documents]
    BY <1>2, <1>5, <1>6, GenuineAre DEF Steps
  <1>8. QED BY <1>3, <1>7 DEF Begin, disk, bounds, OplogTyped, TypeOK

\* Opening the log writes a snapshot of a document or what the log rebuilds to.
LEMMA TypedOpen ==
  ASSUME OplogTyped, OpenLog PROVE OplogTyped'
  <1>0. /\ log \in Seq(Records) /\ manifest \in [revision : Nat, document : Documents]
        /\ applying \in [step : Steps, operation : Operations, current : Documents]
        /\ applying.operation \in Genuine /\ answered \subseteq Operations
        /\ file \in Documents \cup {Missing}
    BY DEF OplogTyped, TypeOK
  <1>1. UNCHANGED <<file, queue, sweep, answered, bounds>>
    BY DEF OpenLog
  <1>2. ASSUME applying' = [applying EXCEPT !.step = "open"] \/ applying' = [applying EXCEPT !.step = "created"]
        PROVE  /\ applying' \in [step : Steps, operation : Operations, current : Documents]
               /\ applying'.operation \in Genuine
    <2>1. "open" \in Steps /\ "created" \in Steps
      BY DEF Steps
    <2>2. QED BY <1>0, <1>2, <2>1
  <1>3. CASE manifest # NoManifest
    BY <1>0, <1>1, <1>2, <1>3, TypedApply DEF OpenLog, Opened
  <1>4. CASE manifest = NoManifest /\ log # <<>>
    <2>1. Len(log) \in 1..Len(log) /\ log[Len(log)] \in Records
      BY <1>0, <1>4
    <2>2. log[Len(log)].sequence \in Nat
      BY <2>1 DEF Records
    <2>3. Rebuilt(log) \in Documents
      BY <1>0, RebuiltIsDocument
    <2>4. /\ manifest' = [revision |-> log[Len(log)].sequence, document |-> Rebuilt(log)]
          /\ log' = log /\ applying' = [applying EXCEPT !.step = "open"]
      BY <1>4 DEF OpenLog, Opened
    <2>5. manifest' \in [revision : Nat, document : Documents]
      BY <2>2, <2>3, <2>4
    <2>6. QED BY <1>0, <1>1, <1>2, <2>4, <2>5, TypedApply
  <1>5. CASE manifest = NoManifest /\ log = <<>>
    <2>1. PICK r : r = [sequence |-> 1, operation |-> Snapshot(applying.current)]
      OBVIOUS
    <2>2. applying.current \in Documents
      BY <1>0
    <2>3. r \in Records
      BY <2>1, <2>2, GenuineOnes DEF Records
    <2>4. log' = <<r>> /\ manifest' = manifest /\ applying' = [applying EXCEPT !.step = "created"]
      BY <1>5, <2>1 DEF OpenLog, Opened
    <2>5. log' \in Seq(Records)
      BY <2>3, <2>4
    <2>6. QED BY <1>0, <1>1, <1>2, <2>4, <2>5, TypedApply
  <1>6. QED BY <1>3, <1>4, <1>5

\* The other steps of applyNow keep records, manifest, document and answers
\* what they are.
LEMMA TypedSteps ==
  ASSUME OplogTyped,
         CreateManifest \/ Dedupe \/ Check \/ AppendRecord \/ WriteManifest \/ WriteFile
  PROVE  OplogTyped'
  <1>0. /\ log \in Seq(Records) /\ manifest \in [revision : Nat, document : Documents]
        /\ applying \in [step : Steps, operation : Operations, current : Documents]
        /\ applying.operation \in Genuine /\ applying.current \in Documents
        /\ answered \subseteq Operations /\ manifest.revision \in Nat
        /\ file \in Documents \cup {Missing}
    BY DEF OplogTyped, TypeOK
  <1>1. After \in Documents /\ Rebuilt(log) \in Documents
    BY <1>0, AppliedIs, RebuiltIsDocument DEF After
  <1>2. {"open", "ready", "appended", "saved"} \subseteq Steps
    BY DEF Steps
  <1>3. answered \cup {applying.operation} \subseteq Operations
    BY <1>0
  <1>4. Idle \in [step : Steps, operation : Operations, current : Documents] /\ Idle.operation \in Genuine
    BY GenuineOnes DEF Idle
  <1>5. CASE CreateManifest
    <2>1. /\ manifest' \in [revision : Nat, document : Documents]
          /\ applying' \in [step : Steps, operation : Operations, current : Documents]
          /\ applying'.operation \in Genuine
      BY <1>0, <1>2, <1>5 DEF CreateManifest
    <2>2. QED BY <1>0, <1>5, <2>1, TypedApply DEF CreateManifest
  <1>6. CASE Dedupe
    BY <1>0, <1>3, <1>4, <1>6, TypedApply DEF Dedupe, disk
  <1>7. CASE Check
    <2>1. /\ applying' \in [step : Steps, operation : Operations, current : Documents]
          /\ applying'.operation \in Genuine /\ file' \in Documents \cup {Missing}
      BY <1>0, <1>1, <1>2, <1>7 DEF Check, Repaired
    <2>2. QED BY <1>0, <1>7, <2>1, TypedApply DEF Check
  <1>8. CASE AppendRecord
    <2>1. PICK r : r = [sequence |-> NextSequence, operation |-> applying.operation]
      OBVIOUS
    <2>2. NextSequence \in Nat \ {0}
      BY <1>0 DEF NextSequence
    <2>3. r \in Records
      BY <1>0, <2>1, <2>2 DEF Records
    <2>4. log' = Append(log, r)
      BY <1>8, <2>1 DEF AppendRecord
    <2>5. log' \in Seq(Records)
      BY <1>0, <2>3, <2>4
    <2>6. /\ applying' \in [step : Steps, operation : Operations, current : Documents]
          /\ applying'.operation \in Genuine
      BY <1>0, <1>2, <1>8 DEF AppendRecord
    <2>7. QED BY <1>0, <1>8, <2>5, <2>6, TypedApply DEF AppendRecord
  <1>9. CASE WriteManifest
    <2>1. /\ manifest' \in [revision : Nat, document : Documents]
          /\ applying' \in [step : Steps, operation : Operations, current : Documents]
          /\ applying'.operation \in Genuine
      BY <1>0, <1>1, <1>2, <1>9 DEF WriteManifest
    <2>2. QED BY <1>0, <1>9, <2>1, TypedApply DEF WriteManifest
  <1>10. CASE WriteFile
    BY <1>0, <1>1, <1>3, <1>4, <1>10, TypedApply DEF WriteFile
  <1>11. QED BY <1>5, <1>6, <1>7, <1>8, <1>9, <1>10

\* After a fault nothing is at work.
LEMMA TypedFault ==
  ASSUME OplogTyped, WriteFails \/ Crash PROVE OplogTyped'
  <1>1. faults' \in 0..MaxFaults
    BY BoundsAssumption DEF WriteFails, Crash, OplogTyped, TypeOK
  <1>2. /\ applying' \in [step : Steps, operation : Operations, current : Documents]
        /\ applying'.operation \in Genuine
    BY GenuineOnes DEF WriteFails, Crash, AfterFailure, Idle
  <1>3. queue' \in Seq(Genuine)
    <2>1. queue \in Seq(Genuine) /\ <<>> \in Seq(Genuine)
      BY DEF OplogTyped
    <2>2. QED BY <2>1 DEF WriteFails, Crash
  <1>4. queue' \in Seq(Operations)
    BY <1>3, GenuineAre
  <1>5. sweep' \in Documents \cup {Missing}
    BY DEF WriteFails, Crash, OplogTyped, TypeOK
  <1>6. QED BY <1>1, <1>2, <1>3, <1>4, <1>5 DEF WriteFails, Crash, disk, OplogTyped, TypeOK

\* Every step keeps the types.
LEMMA OplogTypedNext ==
  ASSUME OplogTyped, [Next]_vars PROVE OplogTyped'
  <1>1. ASSUME NEW b \in Bullets, Submit(Note(b)) PROVE OplogTyped'
    BY <1>1, GenuineOnes, TypedSubmit
  <1>2. ASSUME NEW d \in Documents, Submit(Rewrite(d, 0)) PROVE OplogTyped'
    <2>1. 0 \in 0..MaxSweeps
      BY BoundsAssumption
    <2>2. QED BY <1>2, <2>1, GenuineOnes, TypedSubmit
  <1>3. ASSUME NEW d \in Documents, Edit(d) PROVE OplogTyped'
    BY <1>3, TypedEdit
  <1>4. CASE SweepReads \/ SweepSubmits \/ SweepGivesUp
    BY <1>4, TypedSweep
  <1>5. CASE Apply
    BY <1>5, TypedBegin, TypedOpen, TypedSteps DEF Apply
  <1>6. CASE WriteFails \/ Crash
    BY <1>6, TypedFault
  <1>7. CASE UNCHANGED vars
    BY <1>7 DEF vars, disk, process, bounds, OplogTyped, TypeOK
  <1>8. QED BY <1>1, <1>2, <1>3, <1>4, <1>5, <1>6, <1>7 DEF Next

\* A document, what the log rebuilds to and every operation in the queue and in
\* the log have their types in every reachable state.
THEOREM TypeCorrect == Spec => []TypeOK
  <1>1. OplogTyped => TypeOK
    BY DEF OplogTyped
  <1>2. QED BY <1>1, OplogTypedInit, OplogTypedNext, PTL DEF Spec
=============================================================================
