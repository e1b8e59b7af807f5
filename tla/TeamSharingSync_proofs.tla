----------------------- MODULE TeamSharingSync_proofs -----------------------
(***************************************************************************)
(* Theorems about TeamSharingSync, for any number of hooks, events,        *)
(* commands and losses: what the user keeps back never reaches the server, *)
(* an event is one message, and the cursor passes by nothing wanted.       *)
(*                                                                         *)
(* A hook decides by the transcript it read and acts on it later.  The     *)
(* argument is that what it found stays true: a transcript only grows, so  *)
(* the word that governs an event never changes, and a save only grows.    *)
(***************************************************************************)
EXTENDS TeamSharingSync, FiniteSetTheorems, SequenceTheorems, TLAPS

\* What the bounds are; the code has none of them.
Bounds == MaxEvents \in Nat /\ MaxCommands \in Nat /\ MaxLosses \in Nat

Kinds == {"text", "off", "on"}
Stages == {"idle", "undecided", "off", "on", "skip", "package", "posted", "accepted", "answered"}
Servers == [received : SUBSET Ordinals, ledger : SUBSET (Ordinals \X Ordinals),
            replies : [Ordinals -> Nat]]
Read == 0 .. Len(transcript)      \* places in what there is of the transcript
Syncs == [at : Stages, from : Read, to : Read]

Typed ==
  /\ transcript \in Seq(Kinds) /\ Len(transcript) <= MaxEvents
  /\ cursor \in Read /\ reporting \in BOOLEAN /\ commands \in 0 .. MaxCommands
  /\ hook \in [Hooks -> Syncs]
  /\ State \in Servers /\ persisted \in Servers
  /\ losses \in 0 .. MaxLosses

(***************************************************************************)
(* The inductive invariant.                                                *)
(***************************************************************************)

\* The last word on reporting up to e is not to stop.
Reportable(e) == LatestIntent(e) # 0 => transcript[LatestIntent(e)] = "on"

\* A server has one message for each event it has, and every event of its batches.
Consistent(srv) ==
  /\ \A e \in Ordinals : srv.replies[e] = IF e \in srv.received THEN 1 ELSE 0
  /\ \A b \in srv.ledger : b[1] .. b[2] \subseteq srv.received

\* Up to the event c, what the user wants reported is in the save.
Passed(c) == \A e \in 1 .. c : Wanted(e) => e \in persisted.received

\* What a hook has concluded from what it has read, when it is at this stage
\* with the events from .. to.
Concludes(at, from, to) ==
  /\ at = "undecided" => from = 0 /\ LatestIntent(to) = 0
  /\ at = "off" => ~ Reportable(to)
  /\ at = "on" => Reportable(to) /\ from = LatestIntent(to) /\ from # 0
  /\ at = "skip" =>
       \/ ~ Reportable(to)
       \/ LatestIntent(to) = 0 /\ (commands = 0 => LatestIntent(Len(transcript)) # 0)
  /\ at = "package" => Reportable(to) /\ from = LatestIntent(to)
  /\ at \in {"posted", "accepted", "answered"} =>
       /\ 1 <= from /\ from <= to /\ \A e \in from .. to : Reportable(e)
       /\ commands = 0 => Passed(from - 1)
  /\ at = "accepted" => from .. to \subseteq received
  /\ at = "answered" => from .. to \subseteq persisted.received
Concluded(h) == Concludes(hook[h].at, hook[h].from, hook[h].to)

ClientInv ==
  /\ commands = 0 => Passed(cursor) /\ (~ reporting => LatestIntent(Len(transcript)) # 0)
  /\ \A h \in Hooks : Concluded(h)

ServerInv ==
  /\ Consistent(State) /\ Consistent(persisted)
  /\ persisted.received \subseteq received
  /\ \A e \in received : e <= Len(transcript) /\ Reportable(e)

Inv == Typed /\ ClientInv /\ ServerInv
-----------------------------------------------------------------------------
(* The words on reporting.                                                 *)

\* A set of places that is not empty has a last one.
LEMMA LastExists ==
  ASSUME NEW n \in Nat, NEW S \in SUBSET (1 .. n), S # {}
  PROVE  \E m \in S : \A f \in S : f <= m
<1> DEFINE After(m) == {f \in S : f > m}
           T == {After(m) : m \in S}
<1>1. IsFiniteSet(S)
  <2>1. IsFiniteSet(1 .. n)
    BY FS_Interval
  <2>2. QED BY <2>1, FS_Subset
<1>2. IsWellFoundedOn(StrictSubsetOrdering(S), FiniteSubsetsOf(S))
  BY FS_StrictSubsetOrderingWellFounded
<1>3. T \subseteq FiniteSubsetsOf(S) /\ T # {}
  <2>1. ASSUME NEW m \in S PROVE After(m) \in SUBSET S /\ IsFiniteSet(After(m))
    BY <1>1, FS_Subset
  <2>2. QED BY <2>1 DEF FiniteSubsetsOf
<1>4. PICK x \in T : \A y \in T : ~ (<<y, x>> \in StrictSubsetOrdering(S))
  BY <1>2, <1>3, WFMin
<1>5. PICK m \in S : x = After(m)
  BY <1>4
<1>6. ASSUME NEW f \in S, f > m PROVE FALSE
  <2>0. f \in Int /\ m \in Int /\ \A g \in S : g \in Int
    OBVIOUS
  <2>1. /\ \A g \in After(f) : g \in After(m)
        /\ f \in After(m) /\ f \notin After(f)
    BY <2>0, <1>6
  <2>2. <<After(f), After(m)>> \in StrictSubsetOrdering(S)
    <3>1. After(f) \in SUBSET S /\ After(m) \in SUBSET S /\ After(f) # After(m)
      BY <2>1
    <3> HIDE DEF After
    <3>2. QED BY <2>1, <3>1 DEF StrictSubsetOrdering
  <2>3. QED BY <2>2, <1>4, <1>5
<1>7. QED BY <1>6

\* latestTeamSharingSessionReportingIntent is the last of the words, or 0.
LEMMA LatestIntentIs ==
  ASSUME transcript \in Seq(Kinds), NEW n \in Read
  PROVE  /\ LatestIntent(n) \in 0 .. n
         /\ LatestIntent(n) # 0 => LatestIntent(n) \in Intents(n)
         /\ \A f \in Intents(n) : f <= LatestIntent(n)
<1>1. n \in Nat /\ Intents(n) \in SUBSET (1 .. n)
  BY DEF Read, Intents
<1>2. CASE Intents(n) = {}
  BY <1>1, <1>2 DEF LatestIntent
<1>3. CASE Intents(n) # {}
  <2>1. \E e \in Intents(n) : \A f \in Intents(n) : f <= e
    BY <1>1, <1>3, LastExists
  <2>2. LatestIntent(n) = CHOOSE e \in Intents(n) : \A f \in Intents(n) : f <= e
    BY <1>3 DEF LatestIntent
  <2>3. LatestIntent(n) \in Intents(n) /\ \A f \in Intents(n) : f <= LatestIntent(n)
    BY <2>1, <2>2
  <2>4. QED BY <1>1, <2>3
<1>4. QED BY <1>2, <1>3

\* An event after the last word of a reading is governed by that word.
LEMMA BetweenWords ==
  ASSUME transcript \in Seq(Kinds), NEW n \in Read, NEW e \in LatestIntent(n) .. n
  PROVE  e \in Read /\ LatestIntent(e) = LatestIntent(n)
<1>1. e \in Read /\ LatestIntent(n) \in 0 .. n
  BY LatestIntentIs DEF Read
<1>2. LatestIntent(e) <= LatestIntent(n)
  BY <1>1, LatestIntentIs DEF Intents, Read
<1>3. LatestIntent(n) <= LatestIntent(e)
  BY <1>1, LatestIntentIs DEF Intents, Read
<1>4. QED BY <1>1, <1>2, <1>3, LatestIntentIs DEF Read

\* The transcript stays, or a message is added to it.
Grows == transcript' = transcript \/ \E kind \in Kinds : transcript' = Append(transcript, kind)

\* What was read stays as it was read.
LEMMA WordsStand ==
  ASSUME transcript \in Seq(Kinds), Grows
  PROVE  /\ transcript' \in Seq(Kinds) /\ Read \subseteq Read' /\ Len(transcript) <= Len(transcript')
         /\ \A n \in Read : LatestIntent(n)' = LatestIntent(n) /\ (Reportable(n)' <=> Reportable(n))
         /\ \/ LatestIntent(Len(transcript))' = LatestIntent(Len(transcript))
            \/ LatestIntent(Len(transcript))' = Len(transcript) + 1
<1>1. CASE transcript' = transcript
  BY <1>1 DEF LatestIntent, Intents, Reportable, Read
<1>2. ASSUME NEW kind \in Kinds, transcript' = Append(transcript, kind)
      PROVE  /\ transcript' \in Seq(Kinds) /\ Len(transcript') = Len(transcript) + 1
             /\ \A e \in 1 .. Len(transcript) : transcript'[e] = transcript[e]
  BY <1>2, AppendProperties
<1>3. ASSUME NEW kind \in Kinds, transcript' = Append(transcript, kind)
      PROVE  /\ transcript' \in Seq(Kinds) /\ Read \subseteq Read'
             /\ \A n \in Read : LatestIntent(n)' = LatestIntent(n)
             /\ \A n \in Read : Reportable(n)' <=> Reportable(n)
             /\ \/ LatestIntent(Len(transcript))' = LatestIntent(Len(transcript))
                \/ LatestIntent(Len(transcript))' = Len(transcript) + 1
  <2> DEFINE L == Len(transcript)
  <2>1. L \in Nat /\ transcript' \in Seq(Kinds) /\ Len(transcript') = L + 1
        /\ \A e \in 1 .. L : transcript'[e] = transcript[e]
    BY <1>2, <1>3
  <2>2. Read \subseteq Read'
    BY <2>1 DEF Read
  <2>3. ASSUME NEW n \in Read PROVE Intents(n)' = Intents(n)
    BY <2>1 DEF Intents, Read
  <2>4. ASSUME NEW n \in Read PROVE LatestIntent(n)' = LatestIntent(n)
    <3>1. Intents(n)' = Intents(n)
      BY <2>3
    <3>2. QED BY <3>1 DEF LatestIntent
  <2>5. ASSUME NEW n \in Read PROVE Reportable(n)' <=> Reportable(n)
    <3>1. LatestIntent(n) \in 0 .. n
      BY LatestIntentIs
    <3>2. CASE LatestIntent(n) = 0
      BY <3>2, <2>4 DEF Reportable
    <3>3. CASE LatestIntent(n) # 0
      <4>1. LatestIntent(n) \in 1 .. L
        BY <3>1, <3>3 DEF Read
      <4>2. transcript'[LatestIntent(n)] = transcript[LatestIntent(n)]
        BY <4>1, <2>1
      <4>3. QED BY <4>2, <2>4 DEF Reportable
    <3>4. QED BY <3>2, <3>3
  <2>6. \/ LatestIntent(Len(transcript))' = LatestIntent(L)
        \/ LatestIntent(Len(transcript))' = L + 1
    <3>0. transcript'[L + 1] = kind /\ 1 .. Len(transcript') = (1 .. L) \cup {L + 1}
      BY <2>1, <1>3, AppendProperties
    <3>1. CASE kind = "text"
      <4>1. Intents(Len(transcript))' = Intents(L)
        BY <2>1, <3>0, <3>1 DEF Intents
      <4>2. QED BY <4>1 DEF LatestIntent
    <3>2. CASE kind # "text"
      <4> DEFINE J == Intents(Len(transcript))
      <4>1. L + 1 \in J' /\ \A f \in J' : f \in Nat /\ f <= L + 1
        BY <2>1, <3>0, <3>2 DEF Intents
      <4>2. LatestIntent(Len(transcript))' = CHOOSE e \in J' : \A f \in J' : f <= e
        BY <4>1 DEF LatestIntent
      <4> HIDE DEF J
      <4>3. \A e \in J' : (\A f \in J' : f <= e) => e = L + 1
        BY <4>1, <2>1
      <4>4. \E e \in J' : \A f \in J' : f <= e
        BY <4>1
      <4>5. (CHOOSE e \in J' : \A f \in J' : f <= e) \in J'
            /\ \A f \in J' : f <= (CHOOSE e \in J' : \A g \in J' : g <= e)
        BY <4>4
      <4>6. QED BY <4>2, <4>3, <4>5
    <3>3. QED BY <3>1, <3>2
  <2>7. QED BY <2>1, <2>2, <2>4, <2>5, <2>6
<1>4. QED BY <1>1, <1>2, <1>3 DEF Grows

-----------------------------------------------------------------------------
(* What stands when other steps are taken.                                 *)

\* A save only grows, and so does what follows the last word: what the cursor
\* has passed by stays passed by.
LEMMA PassedStands ==
  ASSUME transcript \in Seq(Kinds), Grows, persisted.received \subseteq persisted'.received,
         NEW c \in Int, c <= Len(transcript), Passed(c)
  PROVE  Passed(c)'
<1> DEFINE L == Len(transcript)
<1> SUFFICES ASSUME NEW e \in 1 .. c, Wanted(e)'
             PROVE  Wanted(e)
  BY DEF Passed
<1>1. L \in Read /\ LatestIntent(L) \in 0 .. L /\ e \in 1 .. L /\ L \in Nat
  BY LatestIntentIs DEF Read
<1>2. LatestIntent(Len(transcript))' = LatestIntent(L) \/ LatestIntent(Len(transcript))' = L + 1
  BY WordsStand
<1>3. LatestIntent(Len(transcript))' <= e /\ (LatestIntent(Len(transcript))' # 0
         => transcript'[LatestIntent(Len(transcript))'] = "on")
  BY DEF Wanted
<1>4. LatestIntent(Len(transcript))' = LatestIntent(L) /\ LatestIntent(L) <= e
  BY <1>1, <1>2, <1>3
<1>5. LatestIntent(L)# 0 => transcript'[LatestIntent(L)] = transcript[LatestIntent(L)]
  BY <1>1, AppendProperties DEF Grows
<1>6. QED BY <1>3, <1>4, <1>5 DEF Wanted

\* A hook's conclusion in the next state is about what it then has.
LEMMA ConcludedNext ==
  ASSUME NEW g, NEW at, NEW from, NEW to,
         hook'[g].at = at, hook'[g].from = from, hook'[g].to = to, Concludes(at, from, to)'
  PROVE  Concluded(g)'
BY DEF Concluded, Concludes, Passed, Wanted, Reportable, LatestIntent, Intents

\* As long as the transcript is the same, so is what is read in it.
LEMMA SameWords ==
  ASSUME transcript' = transcript
  PROVE  /\ \A n : LatestIntent(n)' = LatestIntent(n) /\ (Reportable(n)' <=> Reportable(n))
         /\ LatestIntent(Len(transcript))' = LatestIntent(Len(transcript))
BY DEF LatestIntent, Intents, Reportable

\* What a hook has concluded stays true while other hooks, the user and the
\* server go on, and over a restart that does not end its request.
LEMMA ConclusionsStand ==
  ASSUME transcript \in Seq(Kinds), Grows, NEW at, NEW from \in Read, NEW to \in Read,
         Concludes(at, from, to),
         commands' = 0 => commands = 0,
         persisted.received \subseteq persisted'.received,
         at = "accepted" => received \subseteq received'
  PROVE  Concludes(at, from, to)'
<1>1. \A n \in Read : LatestIntent(n)' = LatestIntent(n) /\ (Reportable(n)' <=> Reportable(n))
  BY WordsStand
<1>2. from .. to \subseteq Read /\ from \in Int /\ from <= Len(transcript)
  BY DEF Read
<1>3. LatestIntent(Len(transcript)) # 0 => LatestIntent(Len(transcript))' # 0
  BY WordsStand, LenProperties
<1>4. at \in {"posted", "accepted", "answered"} /\ commands' = 0 => Passed(from - 1)'
  BY <1>2, PassedStands DEF Concludes
<1>5. QED
  BY <1>1, <1>2, <1>3, <1>4 DEF Concludes

-----------------------------------------------------------------------------
(* Types.                                                                  *)

\* A longer transcript keeps every place that was read.
LEMMA ReadGrows ==
  ASSUME transcript \in Seq(Kinds), Grows
  PROVE  Read \subseteq Read'
BY WordsStand

\* One sync goes on, and the others are where they were.
LEMMA StepIs ==
  ASSUME hook \in [Hooks -> Syncs], NEW h \in Hooks, NEW at \in Stages, Step(h, at)
  PROVE  /\ hook' \in [Hooks -> Syncs]
         /\ hook'[h].at = at /\ hook'[h].from = hook[h].from /\ hook'[h].to = hook[h].to
         /\ \A g \in Hooks \ {h} : hook'[g] = hook[g]
BY DEF Step, Syncs

\* The same, for a sync that starts, posts or ends.
LEMMA SetIs ==
  ASSUME hook \in [Hooks -> Syncs], NEW h \in Hooks, NEW k \in Syncs,
         hook' = [hook EXCEPT ![h] = k]
  PROVE  /\ hook' \in [Hooks -> Syncs] /\ hook'[h] = k
         /\ \A g \in Hooks \ {h} : hook'[g] = hook[g]
OBVIOUS

\* A sync that is not called is typed, too.
LEMMA IdleIsSync ==
  ASSUME transcript \in Seq(Kinds)
  PROVE  Idle \in Syncs
BY DEF Idle, Syncs, Stages, Read

\* The types of the variables are kept by every step.
LEMMA TypedStep ==
  ASSUME Bounds, Inv, [Next]_vars
  PROVE  Typed' /\ Grows
<1> USE DEF Bounds
<1>0. Typed /\ Idle \in Syncs
  BY IdleIsSync DEF Inv, Typed
<1>a. ASSUME transcript' = transcript PROVE Grows /\ Read' = Read /\ Syncs' = Syncs
  BY <1>a DEF Grows, Read, Syncs
<1>b. ASSUME UNCHANGED server PROVE (State \in Servers)' /\ (persisted \in Servers)'
  BY <1>0, <1>b DEF State, Typed, server, Servers
<1>1. ASSUME NEW kind \in Kinds, Say(kind) PROVE Typed' /\ Grows
  <2>1. Grows /\ Len(transcript') = Len(transcript) + 1 /\ transcript' \in Seq(Kinds)
    BY <1>0, <1>1, AppendProperties DEF Say, Grows, Typed
  <2>2. Read \subseteq Read' /\ Len(transcript') <= MaxEvents
    BY <2>1, <1>0, <1>1, ReadGrows DEF Typed, Say
  <2>3. Syncs \subseteq Syncs'
    BY <2>2 DEF Syncs
  <2>4. QED BY <1>0, <1>1, <1>b, <2>1, <2>2, <2>3 DEF Typed, Say
<1>2. ASSUME NEW report \in BOOLEAN, SetReporting(report) PROVE Typed' /\ Grows
  BY <1>0, <1>2, <1>a, <1>b DEF SetReporting, Typed
<1>3. ASSUME NEW h \in Hooks, StartSync(h) PROVE Typed' /\ Grows
  <2> DEFINE n == Len(transcript)
  <2>1. n \in Read /\ LatestIntent(n) \in 0 .. n
    BY <1>0, LatestIntentIs DEF Typed, Read
  <2>2. ResumesAt(n) \in Read
    BY <2>1 DEF ResumesAt, Read
  <2>3. LatestIntent(n) # 0 => transcript[LatestIntent(n)] \in {"off", "on"}
    BY <1>0, <2>1, LatestIntentIs DEF Intents, Typed, Kinds
  <2>4. [at |-> IF LatestIntent(n) = 0 THEN "undecided" ELSE transcript[LatestIntent(n)],
         from |-> ResumesAt(n), to |-> n] \in Syncs
    BY <2>1, <2>2, <2>3 DEF Syncs, Stages
  <2>5. QED BY <1>0, <1>3, <1>a, <1>b, <2>4, SetIs DEF StartSync, Typed, client
<1>4. ASSUME NEW h \in Hooks, WriteOverride(h) PROVE Typed' /\ Grows
  <2>1. hook' \in [Hooks -> Syncs]
    BY <1>0, <1>4, StepIs DEF WriteOverride, Typed, Stages
  <2>2. QED BY <1>0, <1>4, <1>a, <1>b, <2>1 DEF WriteOverride, Typed
<1>5. ASSUME NEW h \in Hooks, ReadOverride(h) PROVE Typed' /\ Grows
  <2>1. hook' \in [Hooks -> Syncs]
    BY <1>0, <1>5, StepIs DEF ReadOverride, Typed, Stages
  <2>2. QED BY <1>0, <1>5, <1>a, <1>b, <2>1 DEF ReadOverride, Typed, client
<1>6. ASSUME NEW h \in Hooks, SkipTo(h) \/ WriteCursor(h) \/ Lose(h) PROVE Typed' /\ Grows
  <2>1. /\ hook' = [hook EXCEPT ![h] = Idle] /\ (cursor' = cursor \/ cursor' = hook[h].to)
        /\ losses' \in 0 .. MaxLosses /\ UNCHANGED server
        /\ UNCHANGED <<transcript, reporting, commands>>
    BY <1>0, <1>6 DEF SkipTo, WriteCursor, Lose, Typed, client, server
  <2>2. hook' \in [Hooks -> Syncs] /\ cursor' \in Read
    BY <1>0, <2>1, SetIs DEF Typed, Syncs
  <2>3. QED BY <1>0, <1>a, <1>b, <2>1, <2>2 DEF Typed
<1>7. ASSUME NEW h \in Hooks, Package(h) PROVE Typed' /\ Grows
  <2> DEFINE from == IF hook[h].from # 0 THEN hook[h].from ELSE cursor + 1
             k == IF from > hook[h].to THEN Idle
                  ELSE [at |-> "posted", from |-> from, to |-> hook[h].to]
  <2>1. k \in Syncs
    BY <1>0 DEF Typed, Syncs, Stages, Read
  <2>2. hook' = [hook EXCEPT ![h] = k]
    BY <1>7 DEF Package
  <2>3. hook' \in [Hooks -> Syncs]
    BY <1>0, <2>1, <2>2, SetIs DEF Typed
  <2>4. QED BY <1>0, <1>7, <1>a, <1>b, <2>3 DEF Package, Typed, client
<1>8. ASSUME NEW h \in Hooks, Accept(h) PROVE Typed' /\ Grows
  <2>1. hook[h].from \in Ordinals /\ hook[h].to \in Ordinals
    BY <1>0, <1>8 DEF Accept, Inv, ClientInv, Concluded, Concludes, Typed, Syncs, Read, Ordinals
  <2>2. NewEvents(h) \subseteq Ordinals /\ Batch(h) \in Ordinals \X Ordinals
    BY <2>1 DEF NewEvents, Batch, Ordinals
  <2>3. (State \in Servers)' /\ (persisted \in Servers)'
    BY <1>0, <1>8, <2>2 DEF Accept, State, Servers, Typed
  <2>4. hook' \in [Hooks -> Syncs]
    BY <1>0, <1>8, StepIs DEF Accept, Typed, Stages
  <2>5. QED BY <1>0, <1>8, <1>a, <2>3, <2>4 DEF Accept, Typed, client
<1>9. ASSUME NEW h \in Hooks, Persist(h) PROVE Typed' /\ Grows
  <2>1. (State \in Servers)' /\ (persisted \in Servers)'
    BY <1>0, <1>9 DEF Persist, State, Servers, Typed
  <2>2. hook' \in [Hooks -> Syncs]
    BY <1>0, <1>9, StepIs DEF Persist, Typed, Stages
  <2>3. QED BY <1>0, <1>9, <1>a, <2>1, <2>2 DEF Persist, Typed, client
<1>10. ASSUME Restart PROVE Typed' /\ Grows
  <2>1. (State \in Servers)' /\ (persisted \in Servers)'
    BY <1>0, <1>10 DEF Restart, State, Servers, Typed
  <2>2. hook' \in [Hooks -> Syncs]
    BY <1>0, <1>10 DEF Restart, Typed
  <2>3. QED BY <1>0, <1>10, <1>a, <2>1, <2>2 DEF Restart, Typed, client
<1>11. ASSUME UNCHANGED vars PROVE Typed' /\ Grows
  BY <1>0, <1>11, <1>a, <1>b DEF vars, client, Typed
<1>12. QED BY <1>1, <1>2, <1>3, <1>4, <1>5, <1>6, <1>7, <1>8, <1>9, <1>10, <1>11 DEF Next, Kinds

-----------------------------------------------------------------------------
(* The server.                                                             *)

\* A batch adds one message for each event the thread does not have, whatever
\* of it was there, and a restart goes back to a state of the same kind.
LEMMA ServerStep ==
  ASSUME Bounds, Inv, [Next]_vars
  PROVE  ServerInv' /\ persisted.received \subseteq persisted'.received
<1>0. Typed /\ ServerInv /\ Typed' /\ Grows
  BY TypedStep DEF Inv
<1>1. \A e \in Ordinals : e <= Len(transcript) /\ Reportable(e) =>
         e <= Len(transcript') /\ Reportable(e)'
  BY <1>0, WordsStand DEF Typed, Ordinals, Read
<1>2. received \in SUBSET Ordinals /\ persisted.received \in SUBSET Ordinals
  BY <1>0 DEF Typed, State, Servers
<1>3. ASSUME UNCHANGED server
      PROVE  ServerInv' /\ persisted.received \subseteq persisted'.received
  BY <1>0, <1>1, <1>2, <1>3 DEF ServerInv, Consistent, State, server
<1>4. ASSUME NEW h \in Hooks, Accept(h)
      PROVE  ServerInv' /\ persisted.received \subseteq persisted'.received
  <2> DEFINE New == NewEvents(h)
  <2>1. /\ hook[h].from \in Ordinals /\ hook[h].to \in Ordinals /\ hook[h].to \in Read
        /\ \A e \in hook[h].from .. hook[h].to : Reportable(e)
    <3>1. Concluded(h) /\ hook[h].at = "posted"
      BY <1>4 DEF Accept, Inv, ClientInv
    <3>2. /\ 1 <= hook[h].from /\ hook[h].from <= hook[h].to
          /\ \A e \in hook[h].from .. hook[h].to : Reportable(e)
      BY <3>1 DEF Concluded, Concludes
    <3>3. hook[h].from \in Read /\ hook[h].to \in Read
      BY <1>0 DEF Typed, Syncs
    <3>4. QED BY <1>0, <3>2, <3>3 DEF Typed, Read, Ordinals, Bounds
  <2>2. /\ New \subseteq Ordinals /\ New \cap received = {}
        /\ hook[h].from .. hook[h].to \subseteq received \cup New
        /\ New \subseteq hook[h].from .. hook[h].to
    <3>1. CASE Batch(h) \in ledger
      <4>1. \A b \in ledger : b[1] .. b[2] \subseteq received
        BY <1>0 DEF ServerInv, Consistent, State
      <4>2. Batch(h)[1] .. Batch(h)[2] \subseteq received
        BY <3>1, <4>1
      <4>3. hook[h].from .. hook[h].to \subseteq received
        BY <4>2 DEF Batch
      <4>4. QED BY <3>1, <4>3 DEF NewEvents
    <3>2. CASE Batch(h) \notin ledger
      <4>1. New = (hook[h].from .. hook[h].to) \ received
        BY <3>2 DEF NewEvents
      <4>2. hook[h].from .. hook[h].to \subseteq Ordinals
        BY <2>1 DEF Ordinals, Bounds
      <4> DEFINE range == hook[h].from .. hook[h].to
      <4> HIDE DEF New, range
      <4>3. New = range \ received /\ range \subseteq Ordinals
        BY <4>1, <4>2 DEF range
      <4>4. /\ New \subseteq Ordinals /\ New \cap received = {}
            /\ range \subseteq received \cup New /\ New \subseteq range
        BY <4>3
      <4>5. QED BY <4>4 DEF range
    <3>3. QED BY <3>1, <3>2
  <2>3. /\ received' = received \cup New /\ ledger' = ledger \cup {Batch(h)}
        /\ replies' = [e \in Ordinals |-> IF e \in New THEN replies[e] + 1 ELSE replies[e]]
        /\ persisted' = persisted /\ transcript' = transcript
    BY <1>4 DEF Accept, client
  <2> HIDE DEF New
  <2>4. Consistent(State)'
    <3>1. \A e \in Ordinals : replies'[e] = IF e \in received' THEN 1 ELSE 0
      BY <1>0, <2>2, <2>3 DEF ServerInv, Consistent, State
    <3>2. \A b \in ledger' : b[1] .. b[2] \subseteq received'
      BY <1>0, <2>2, <2>3 DEF ServerInv, Consistent, State, Batch
    <3>3. QED BY <3>1, <3>2 DEF Consistent, State
  <2>5. Consistent(persisted)' /\ persisted'.received \subseteq received'
    BY <1>0, <2>3 DEF ServerInv, Consistent
  <2>6. \A e \in received' : e <= Len(transcript') /\ Reportable(e)'
    <3>1. \A e \in New : e <= Len(transcript) /\ Reportable(e)
      BY <2>1, <2>2 DEF Read, Ordinals
    <3>2. QED BY <3>1, <1>0, <1>1, <1>2, <2>2, <2>3 DEF ServerInv
  <2>7. QED BY <2>3, <2>4, <2>5, <2>6 DEF ServerInv
<1>5. ASSUME NEW h \in Hooks, Persist(h)
      PROVE  ServerInv' /\ persisted.received \subseteq persisted'.received
  BY <1>0, <1>1, <1>2, <1>5 DEF Persist, ServerInv, Consistent, State, client
<1>6. ASSUME Restart
      PROVE  ServerInv' /\ persisted.received \subseteq persisted'.received
  BY <1>0, <1>1, <1>2, <1>6 DEF Restart, ServerInv, Consistent, State, client
<1>7. QED
  BY <1>3, <1>4, <1>5, <1>6
     DEF Next, vars, Say, SetReporting, StartSync, WriteOverride, ReadOverride, SkipTo,
         Package, WriteCursor, Lose, client

-----------------------------------------------------------------------------
(* The hooks.                                                              *)

\* What a hook concludes when it reads the transcript, the override or the
\* cursor, and when it is answered; what the others concluded stands.
LEMMA ConcludeStep ==
  ASSUME Bounds, Inv, [Next]_vars, NEW g \in Hooks
  PROVE  Concluded(g)'
<1>0. /\ Typed /\ Typed' /\ Grows /\ ServerInv
      /\ persisted.received \subseteq persisted'.received
      /\ hook \in [Hooks -> Syncs] /\ transcript \in Seq(Kinds) /\ Idle \in Syncs
  BY TypedStep, ServerStep, IdleIsSync DEF Inv, ClientInv, Typed
<1>1. PICK at \in Stages, from \in Read, to \in Read :
        hook[g] = [at |-> at, from |-> from, to |-> to]
  BY <1>0 DEF Syncs
<1>2. hook[g].at = at /\ hook[g].from = from /\ hook[g].to = to
      /\ Concludes(at, from, to)
      /\ from \in Nat /\ to \in Nat /\ to <= Len(transcript) /\ Len(transcript) \in Nat
      /\ \A n \in 0 .. Len(transcript) : n \in Read
  <2>1. Concluded(g)
    BY DEF Inv, ClientInv
  <2>2. QED BY <1>0, <1>1, <2>1 DEF Concluded, Read
<1>a. CASE hook'[g] = Idle
  BY <1>a DEF Concluded, Concludes, Idle
<1>b. CASE /\ hook'[g] = hook[g]
           /\ commands' = 0 => commands = 0
           /\ at = "accepted" => received \subseteq received'
  <2>1. Concludes(at, from, to)'
    BY <1>0, <1>1, <1>2, <1>b, ConclusionsStand
  <2>2. QED BY <1>2, <1>b, <2>1, ConcludedNext
<1>3. ASSUME NEW kind \in Kinds, Say(kind) PROVE Concluded(g)'
  BY <1>b, <1>3 DEF Say, server
<1>4. ASSUME NEW report \in BOOLEAN, SetReporting(report) PROVE Concluded(g)'
  <2>1. commands' = commands + 1 /\ commands \in Nat
    BY <1>0, <1>4 DEF SetReporting, Typed, Bounds
  <2>2. QED BY <1>b, <1>4, <2>1 DEF SetReporting, server
<1>5. ASSUME StartSync(g) PROVE Concluded(g)'
  <2> DEFINE n == Len(transcript)
             word == IF LatestIntent(n) = 0 THEN "undecided" ELSE transcript[LatestIntent(n)]
  <2>1. PICK m \in Read, a \in Stages, f \in Read : m = n /\ a = word /\ f = ResumesAt(n)
    <3>1. LatestIntent(n) \in 0 .. n
      BY <1>0, <1>2, LatestIntentIs
    <3>2. LatestIntent(n) # 0 => transcript[LatestIntent(n)] \in {"off", "on"}
      BY <1>0, <1>2, <3>1, LatestIntentIs DEF Intents, Kinds
    <3>3. QED BY <1>2, <3>1, <3>2 DEF ResumesAt, Stages
  <2>2. hook'[g] = [at |-> a, from |-> f, to |-> m] /\ transcript' = transcript
    BY <1>0, <1>5, <2>1 DEF StartSync, client
  <2>3. Concludes(a, f, m)
    BY <1>0, <1>2, <2>1, LatestIntentIs DEF Concludes, ResumesAt, Reportable, Intents, Kinds
  <2>4. Concludes(a, f, m)'
    BY <1>0, <1>5, <2>3, ConclusionsStand DEF StartSync, client, server
  <2>5. QED BY <2>2, <2>4, ConcludedNext
<1>6. ASSUME WriteOverride(g) PROVE Concluded(g)'
  <2>1. PICK a \in {"package", "skip"} : a = IF at = "on" THEN "package" ELSE "skip"
    OBVIOUS
  <2>2. hook'[g].from = from /\ hook'[g].to = to /\ hook'[g].at = a
    BY <1>0, <1>2, <1>6, <2>1, StepIs DEF WriteOverride, Stages
  <2>3. Concludes(a, from, to)
    BY <1>2, <1>6, <2>1 DEF WriteOverride, Concludes
  <2>4. Concludes(a, from, to)'
    BY <1>0, <1>6, <2>3, <2>1, ConclusionsStand DEF WriteOverride, server
  <2>5. QED BY <2>2, <2>4, ConcludedNext
<1>7. ASSUME ReadOverride(g) PROVE Concluded(g)'
  <2>1. PICK a \in {"package", "skip"} : a = IF reporting THEN "package" ELSE "skip"
    OBVIOUS
  <2>2. hook'[g].from = from /\ hook'[g].to = to /\ hook'[g].at = a
    BY <1>0, <1>2, <1>7, <2>1, StepIs DEF ReadOverride, Stages
  <2>3. commands = 0 /\ ~ reporting => LatestIntent(Len(transcript)) # 0
    BY DEF Inv, ClientInv
  <2>4. Concludes(a, from, to)
    BY <1>2, <1>7, <2>1, <2>3 DEF ReadOverride, Concludes, Reportable
  <2>5. Concludes(a, from, to)'
    BY <1>0, <1>7, <2>4, <2>1, ConclusionsStand DEF ReadOverride, server, client
  <2>6. QED BY <2>2, <2>5, ConcludedNext
<1>8. ASSUME SkipTo(g) \/ WriteCursor(g) \/ Lose(g) PROVE Concluded(g)'
  BY <1>0, <1>8, <1>a, SetIs DEF SkipTo, WriteCursor, Lose
<1>9. ASSUME Package(g) PROVE Concluded(g)'
  <2> DEFINE L == Len(transcript)
  <2>0. cursor \in 0 .. L
    BY <1>0 DEF Typed, Read
  <2>1. PICK f \in Nat \ {0} : f = IF from # 0 THEN from ELSE cursor + 1
    BY <1>2, <2>0
  <2>2. /\ Reportable(to) /\ from = LatestIntent(to) /\ LatestIntent(to) <= f
    BY <1>2, <1>9, <2>1 DEF Package, Concludes
  <2>3. CASE f > to
    BY <2>1, <2>3, <1>0, <1>2, <1>9, <1>a DEF Package
  <2>4. CASE ~ (f > to)
    <3>1. hook'[g] = [at |-> "posted", from |-> f, to |-> to] /\ f \in Read
      BY <1>0, <1>2, <1>9, <2>1, <2>4 DEF Package
    <3>2. \A e \in f .. to : Reportable(e)
      <4>1. \A e \in f .. to : LatestIntent(e) = LatestIntent(to)
        BY <1>0, <1>2, <2>2, BetweenWords
      <4>2. QED BY <4>1, <2>2 DEF Reportable
    <3>3. commands = 0 => Passed(f - 1)
      <4>1. CASE from = 0
        BY <4>1, <2>0, <2>1 DEF Inv, ClientInv
      <4>2. CASE from # 0
        <5> SUFFICES ASSUME NEW e \in 1 .. (f - 1), Wanted(e)
                     PROVE  FALSE
          BY DEF Passed
        <5>1. LatestIntent(L) <= e /\ LatestIntent(L) \in 0 .. L /\ e < to /\ e < from
          BY <1>0, <1>2, <4>2, <2>1, <2>4, LatestIntentIs DEF Wanted
        <5>2. LatestIntent(to) = LatestIntent(L)
          BY <5>1, <1>0, <1>2, BetweenWords
        <5>3. QED BY <5>1, <5>2, <2>2, <1>2
      <4>3. QED BY <4>1, <4>2
    <3>4. Concludes("posted", f, to)
      BY <3>2, <3>3, <1>2, <2>1, <2>4 DEF Concludes
    <3>5. Concludes("posted", f, to)'
      BY <1>0, <1>9, <3>1, <3>4, ConclusionsStand DEF Package, server, client
    <3>6. QED BY <3>1, <3>5, ConcludedNext
  <2>5. QED BY <2>3, <2>4
<1>10. ASSUME Accept(g) PROVE Concluded(g)'
  <2>1. hook'[g].from = from /\ hook'[g].to = to /\ hook'[g].at = "accepted"
    BY <1>0, <1>2, <1>10, StepIs DEF Accept, Stages
  <2>2. from .. to \subseteq received'
    <3>1. Batch(g) \in ledger => Batch(g)[1] .. Batch(g)[2] \subseteq received
      BY <1>0 DEF ServerInv, Consistent, State
    <3>2. Batch(g) \in ledger => from .. to \subseteq received
      BY <3>1, <1>2 DEF Batch
    <3>3. QED BY <1>10, <1>2, <3>2 DEF Accept, NewEvents
  <2>3. Concludes(at, from, to)'
    BY <1>0, <1>2, <1>10, ConclusionsStand DEF Accept, client
  <2>4. Concludes("accepted", from, to)'
    BY <1>2, <1>10, <2>2, <2>3 DEF Accept, Concludes
  <2>5. QED BY <2>1, <2>4, ConcludedNext
<1>11. ASSUME Persist(g) PROVE Concluded(g)'
  <2>1. hook'[g].from = from /\ hook'[g].to = to /\ hook'[g].at = "answered"
    BY <1>0, <1>2, <1>11, StepIs DEF Persist, Stages
  <2>2. persisted'.received = received /\ received' = received
    BY <1>11 DEF Persist, State
  <2>3. Concludes(at, from, to)'
    BY <1>0, <1>2, <1>11, <2>2, ConclusionsStand DEF Persist, client
  <2>4. Concludes("answered", from, to)'
    BY <1>2, <1>11, <2>2, <2>3 DEF Persist, Concludes
  <2>5. QED BY <2>1, <2>4, ConcludedNext
<1>12. ASSUME NEW h \in Hooks \ {g},
              \/ StartSync(h) \/ WriteOverride(h) \/ ReadOverride(h) \/ SkipTo(h)
              \/ Package(h) \/ WriteCursor(h) \/ Lose(h) \/ Accept(h) \/ Persist(h)
       PROVE  Concluded(g)'
  <2>1. hook'[g] = hook[g]
    BY <1>0, <1>12 DEF StartSync, WriteOverride, ReadOverride, SkipTo, Package, WriteCursor,
                       Lose, Accept, Persist, Step
  <2>2. commands' = commands /\ received \subseteq received'
    BY <1>12 DEF StartSync, WriteOverride, ReadOverride, SkipTo, Package, WriteCursor,
                 Lose, Accept, Persist, client, server
  <2>3. QED BY <1>b, <2>1, <2>2
<1>13. ASSUME Restart PROVE Concluded(g)'
  <2>1. hook'[g] = IF at \in {"posted", "accepted"} THEN Idle ELSE hook[g]
    BY <1>2, <1>13 DEF Restart
  <2>2. commands' = commands
    BY <1>13 DEF Restart, client
  <2>3. QED BY <1>a, <1>b, <2>1, <2>2
<1>14. ASSUME UNCHANGED vars PROVE Concluded(g)'
  BY <1>14, <1>b DEF vars, client, server
<1>15. QED
  BY <1>3, <1>4, <1>5, <1>6, <1>7, <1>8, <1>9, <1>10, <1>11, <1>12, <1>13, <1>14 DEF Next, Kinds

-----------------------------------------------------------------------------
(* The cursor.                                                             *)

\* The cursor is moved over what a hook skips, because the last word it read is
\* to stop or because the session is not reported, and over what is saved.
LEMMA CursorStep ==
  ASSUME Bounds, Inv, [Next]_vars
  PROVE  commands' = 0 =>
           Passed(cursor)' /\ (~ reporting' => LatestIntent(Len(transcript))' # 0)
<1> DEFINE L == Len(transcript)
<1> SUFFICES ASSUME commands' = 0
             PROVE  Passed(cursor)' /\ (~ reporting' => LatestIntent(Len(transcript))' # 0)
  OBVIOUS
<1>0. /\ Typed /\ Typed' /\ Grows /\ persisted.received \subseteq persisted'.received
      /\ transcript \in Seq(Kinds) /\ hook \in [Hooks -> Syncs] /\ cursor \in 0 .. L
      /\ L \in Read /\ L \in Nat /\ LatestIntent(L) \in 0 .. L
  BY TypedStep, ServerStep, LatestIntentIs DEF Inv, Typed, Read
<1>1. LatestIntent(L) # 0 => LatestIntent(Len(transcript))' # 0
  BY <1>0, WordsStand
<1>2. ASSUME NEW c \in Read, Passed(c), cursor' = c PROVE Passed(cursor)'
  <2>1. Passed(c)'
    BY <1>0, <1>2, PassedStands DEF Read
  <2>2. QED BY <1>2, <2>1 DEF Passed, Wanted, LatestIntent, Intents
<1>3. CASE commands = 0 /\ cursor' = cursor /\ reporting' = reporting
  <2>1. Passed(cursor) /\ (~ reporting => LatestIntent(L) # 0)
    BY <1>3 DEF Inv, ClientInv
  <2>2. PICK c \in Read : c = cursor
    BY <1>0 DEF Read
  <2>3. QED BY <1>1, <1>2, <1>3, <2>1, <2>2
<1>4. ASSUME NEW report \in BOOLEAN, SetReporting(report) PROVE FALSE
  BY <1>0, <1>4 DEF SetReporting, Typed, Bounds
<1>5. ASSUME NEW h \in Hooks, WriteOverride(h)
      PROVE  Passed(cursor)' /\ (~ reporting' => LatestIntent(Len(transcript))' # 0)
  <2>1. Passed(cursor) /\ cursor' = cursor /\ Concluded(h)
    BY <1>5 DEF WriteOverride, Inv, ClientInv
  <2>2. LatestIntent(hook[h].to) # 0
    BY <2>1, <1>5 DEF WriteOverride, Concluded, Concludes, Reportable
  <2>3. LatestIntent(L) # 0
    <3>1. hook[h].to \in 0 .. L
      BY <1>0 DEF Syncs, Read
    <3>2. LatestIntent(L) = 0 => LatestIntent(hook[h].to) = 0
      BY <1>0, <3>1, BetweenWords
    <3>3. QED BY <2>2, <3>2
  <2>4. PICK c \in Read : c = cursor
    BY <1>0 DEF Read
  <2>5. QED BY <1>1, <1>2, <2>1, <2>3, <2>4
<1>6. ASSUME NEW h \in Hooks, SkipTo(h) \/ WriteCursor(h)
      PROVE  Passed(cursor)' /\ (~ reporting' => LatestIntent(Len(transcript))' # 0)
  <2>1. /\ cursor' = hook[h].to /\ commands = 0 /\ reporting' = reporting
        /\ hook[h].at \in {"skip", "answered"}
    BY <1>6 DEF SkipTo, WriteCursor
  <2>2. PICK to \in Read : to = hook[h].to
    BY <1>0 DEF Syncs
  <2>3. Concluded(h) /\ (~ reporting => LatestIntent(L) # 0)
    BY <2>1 DEF Inv, ClientInv
  <2>4. Passed(to)
    <3> SUFFICES ASSUME NEW e \in 1 .. to, Wanted(e)
                 PROVE  e \in persisted.received
      BY DEF Passed
    <3>1. LatestIntent(L) <= e /\ (LatestIntent(L) # 0 => transcript[LatestIntent(L)] = "on")
      BY DEF Wanted
    <3>2. LatestIntent(to) = LatestIntent(L) /\ to \in Nat
      BY <1>0, <3>1, BetweenWords DEF Read
    <3>3. CASE hook[h].at = "skip"
      BY <2>1, <2>2, <2>3, <3>1, <3>2, <3>3 DEF Concluded, Concludes, Reportable
    <3>4. CASE hook[h].at = "answered"
      <4>1. /\ hook[h].from \in Nat /\ Passed(hook[h].from - 1)
            /\ hook[h].from .. to \subseteq persisted.received
        BY <1>0, <2>1, <2>2, <2>3, <3>4 DEF Concluded, Concludes, Syncs, Read
      <4>2. QED BY <4>1, <3>2 DEF Passed
    <3>5. QED BY <2>1, <3>3, <3>4
  <2>5. QED BY <1>1, <1>2, <2>1, <2>2, <2>3, <2>4
<1>7. QED
  BY <1>3, <1>4, <1>5, <1>6
     DEF Next, vars, Say, StartSync, ReadOverride, Package, Lose, Accept, Persist, Restart,
         client, server

-----------------------------------------------------------------------------
(* The theorems.                                                           *)

\* The invariant of the synchronisation: a server has what its messages and
\* batches say, in memory and in its save, and a hook's conclusion holds until
\* it acts on it.
THEOREM InvHolds ==
  ASSUME Bounds
  PROVE  Spec => []Inv
<1>1. Init => Inv
  <2> SUFFICES ASSUME Init PROVE Inv
    OBVIOUS
  <2>1. Len(transcript) = 0 /\ transcript \in Seq(Kinds)
    BY DEF Init
  <2>2. Typed
    BY <2>1, IdleIsSync DEF Init, Typed, Bounds, State, Servers, Read
  <2>3. ServerInv
    BY DEF Init, ServerInv, Consistent, State
  <2>4. ClientInv
    BY DEF Init, ClientInv, Passed, Concluded, Concludes, Idle
  <2>5. QED BY <2>2, <2>3, <2>4 DEF Inv
<1>2. Inv /\ [Next]_vars => Inv'
  <2> SUFFICES ASSUME Inv, [Next]_vars PROVE Inv'
    OBVIOUS
  <2>1. Typed' /\ ServerInv' /\ \A h \in Hooks : Concluded(h)'
    BY TypedStep, ServerStep, ConcludeStep
  <2>2. ClientInv'
    BY <2>1, CursorStep DEF ClientInv
  <2>3. QED BY <2>1, <2>2 DEF Inv
<1>3. QED BY <1>1, <1>2, PTL DEF Spec

\* Every variable keeps its type, for any number of hooks and events.
THEOREM TypeCorrect ==
  ASSUME Bounds
  PROVE  Spec => []TypeOK
<1>1. Inv => TypeOK
  <2> SUFFICES ASSUME Inv PROVE TypeOK
    OBVIOUS
  <2>1. Read \subseteq 0 .. MaxEvents
    BY DEF Inv, Typed, Read, Bounds
  <2>2. Syncs \subseteq [at : Stages, from : 0 .. MaxEvents, to : 0 .. MaxEvents]
    BY <2>1 DEF Syncs
  <2>3. hook \in [Hooks -> [at : Stages, from : 0 .. MaxEvents, to : 0 .. MaxEvents]]
    BY <2>2 DEF Inv, Typed
  <2>4. \A e \in DOMAIN transcript : transcript[e] \in Kinds
    BY DEF Inv, Typed
  <2>5. received \subseteq Ordinals /\ ledger \subseteq Ordinals \X Ordinals
        /\ replies \in [Ordinals -> Nat]
    BY DEF Inv, Typed, State, Servers
  <2>6. QED BY <2>1, <2>3, <2>4, <2>5 DEF Inv, Typed, TypeOK, Stages, Kinds
<1>2. QED BY <1>1, InvHolds, PTL

\* What the user says between turning reporting off and on again is not on the
\* server, however many hooks read the transcript and the cursor in between.
THEOREM PrivateKept ==
  ASSUME Bounds
  PROVE  Spec => []PrivateStaysLocal
<1>1. Inv => PrivateStaysLocal
  BY DEF Inv, ServerInv, PrivateStaysLocal, Reportable
<1>2. QED BY <1>1, InvHolds, PTL

\* An event is at most one message of the thread, over lost answers, batches
\* that overlap and restarts of the server.
THEOREM EventPostedOnce ==
  ASSUME Bounds
  PROVE  Spec => []PostedOnce
<1>1. Inv => PostedOnce
  BY DEF Inv, ServerInv, Consistent, State, PostedOnce
<1>2. QED BY <1>1, InvHolds, PTL

\* While reporting is set by the transcript alone, the cursor passes by nothing
\* the user wants reported unless the server has it and has saved it.
THEOREM CursorHonest ==
  ASSUME Bounds
  PROVE  Spec => []CursorIsHonest
<1>1. Inv => CursorIsHonest
  <2> SUFFICES ASSUME Inv, commands = 0, NEW e \in DOMAIN transcript, e <= cursor, Wanted(e)
               PROVE  e \in received /\ e \in persisted.received
    BY DEF CursorIsHonest
  <2>1. e \in 1 .. cursor
    BY DEF Inv, Typed, Read
  <2>2. QED BY <2>1 DEF Inv, ClientInv, ServerInv, Passed
<1>2. QED BY <1>1, InvHolds, PTL
=============================================================================
