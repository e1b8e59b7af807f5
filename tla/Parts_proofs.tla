---------------------------- MODULE Parts_proofs ----------------------------
(***************************************************************************)
(* Theorems about the two parts that MCParts extends.                      *)
(*                                                                         *)
(* CodexTurns, for any finite set of deliveries and any number of          *)
(* troubles: the state keeps its type, no prompt is taken by two turns,    *)
(* although it is sent again when its thread is lost, and what a session's *)
(* only turn completed is marked in the ledger.  The argument follows the  *)
(* prompt.  While the session holds it - waiting, in the list of a loop or *)
(* before its request - nothing of it is with the app-server.  Afterwards  *)
(* it is in one place at most, the request or the refusal of it, and while *)
(* it is there no turn has taken it; only the refusal brings it back.  A   *)
(* prompt that is the only one goes through seven phases, from the opening *)
(* of the thread to the mark.                                              *)
(*                                                                         *)
(* ReminderScheduler, for any reminders, times and crashes.  Nothing is    *)
(* assumed of the order of a list or of what is in it: that a reminder is  *)
(* shown once rests on the second look at its status alone.                *)
(***************************************************************************)
EXTENDS CodexTurns, ReminderScheduler, SequenceTheorems, FiniteSetTheorems, TLAPS

\* What the constants are; the code bounds neither.
Bounds == IsFiniteSet(Deliveries) /\ None \notin Deliveries /\ MaxTrouble \in Nat

Stages == {"new", "starting", "prompt", "listed", "images", "asked", "taken", "refused", "dropped"}
Marks == {"accepted", "started", "completed", "failed"}
Methods == {"thread/start", "thread/resume", "turn/start", "turn/steer", None}
Requests ==
  {r \in [method : Methods, delivery : Deliveries \cup {None}, turn : Nat, thread : BOOLEAN] :
     r.method \in {"turn/start", "turn/steer"} => r.delivery \in Deliveries}
Texts == [kind : {"text"}, request : SUBSET Deliveries, turn : Nat]
Answers == [kind : {"thread", "turn", "stale", "refused", "completed", "failed"},
            request : Requests, turn : Nat]
Messages == Texts \cup Answers
Handlers == [at : {"idle", "prompts", "answered", "marking", "marked"},
             end : Deliveries \cup {None, "completed", "failed"}]

SessionTyped ==
  /\ threadReady => threadId
  /\ activeTurn \in Nat /\ activeDelivery \in Deliveries \cup {None}
  /\ prompts \in Seq(Deliveries) /\ lists \in [Deliveries -> Seq(Deliveries)]
  /\ stage \in [Deliveries -> Stages]
  /\ recovered \subseteq Deliveries \cup {"thread"} /\ text \subseteq Deliveries
LedgerTyped ==
  /\ handler \in Handlers
  /\ handler.at \in {"answered", "marking"} => handler.end \in {"completed", "failed"}
  /\ mark \in [Deliveries -> Marks]
ServerTyped ==
  /\ requests \in Seq(Requests) /\ messages \in Seq(Messages)
  /\ turn \in [id : Nat, of : SUBSET Deliveries]
  /\ took \in [Deliveries -> Nat]
FlagsTyped == up \in BOOLEAN /\ threadId \in BOOLEAN /\ threadReady \in BOOLEAN
CountersTyped ==
  /\ refusals \in Nat /\ exits \in Nat /\ refusals + exits <= MaxTrouble
  /\ denied \in BOOLEAN

Typed == SessionTyped /\ LedgerTyped /\ ServerTyped /\ FlagsTyped /\ CountersTyped

(***************************************************************************)
(* The inductive invariant.                                                *)
(***************************************************************************)

\* The stages in which the session holds the prompt.
Unsent == {"new", "starting", "prompt", "listed", "images"}

\* pendingPrompts, ps: each waits there once.
Waiting(ps, st) ==
  /\ \A i \in DOMAIN ps : st[ps[i]] = "prompt"
  /\ \A i, j \in DOMAIN ps : ps[i] = ps[j] => i = j

\* The lists of the loops, ls: a loop is at a prompt of its own, and what it sends
\* next is in its list alone, once.
Looping(ls, st) ==
  /\ \A d \in Deliveries : ls[d] # <<>> => st[d] = "images"
  /\ \A d \in Deliveries : \A i \in DOMAIN ls[d] : st[ls[d][i]] = "listed"
  /\ \A d, e \in Deliveries : \A i \in DOMAIN ls[d], j \in DOMAIN ls[e] :
       ls[d][i] = ls[e][j] => d = e /\ i = j

\* A message that gives a prompt back.
Returns(m, d) == m.kind \in {"stale", "refused"} /\ m.request.delivery = d

\* One request or one refusal at most is on its way for d, among the requests rs
\* and the messages ms ...
Alone(rs, ms, d) ==
  /\ \A i, j \in DOMAIN rs : rs[i].delivery = d /\ rs[j].delivery = d => i = j
  /\ \A i, j \in DOMAIN ms : Returns(ms[i], d) /\ Returns(ms[j], d) => i = j
  /\ \A i \in DOMAIN rs, j \in DOMAIN ms : ~ (rs[i].delivery = d /\ Returns(ms[j], d))
\* ... or there is one.
Sent(rs, ms, d) ==
  \/ \E i \in DOMAIN rs : rs[i].delivery = d
  \/ \E i \in DOMAIN ms : Returns(ms[i], d)

\* Whoever holds the prompt, no turn has it then; and no two ever.
Fresh(rs, ms, phase, turns, d) ==
  /\ turns \in {0, 1}
  /\ Sent(rs, ms, d) => turns = 0 /\ phase \notin Unsent
  /\ phase \in Unsent => turns = 0

OnItsWay ==
  \A d \in Deliveries :
    Alone(requests, messages, d) /\ Fresh(requests, messages, stage[d], took[d], d)

Inv == Typed /\ Waiting(prompts, stage) /\ Looping(lists, stage) /\ OnItsWay
-----------------------------------------------------------------------------
(* Queues.                                                                 *)

\* What is left of a queue.
LEMMA TailOf ==
  ASSUME NEW S, NEW s \in Seq(S), s # <<>>
  PROVE  /\ Head(s) = s[1] /\ s[1] \in S /\ 1 \in DOMAIN s /\ Tail(s) \in Seq(S)
         /\ \A i \in DOMAIN Tail(s) : i \in Nat /\ i + 1 \in DOMAIN s /\ i + 1 # 1 /\ Tail(s)[i] = s[i + 1]
         /\ \A i \in DOMAIN s : i # 1 => i - 1 \in DOMAIN Tail(s) /\ i \in Nat
<1>1. Len(s) \in Nat /\ DOMAIN s = 1 .. Len(s)
  BY LenProperties
<1>2. Tail(s) \in Seq(S) /\ Len(Tail(s)) = Len(s) - 1
      /\ \A i \in 1 .. Len(Tail(s)) : Tail(s)[i] = s[i + 1]
  BY HeadTailProperties
<1>3. DOMAIN Tail(s) = 1 .. Len(Tail(s)) /\ Len(Tail(s)) \in Nat
  BY <1>2, LenProperties
<1>4. Len(s) # 0
  BY EmptySeq
<1>5. Head(s) = s[1] /\ s[1] \in S
  <2>1. 1 \in 1 .. Len(s)
    BY <1>1, <1>4
  <2>2. QED BY <2>1, ElementOfSeq, HeadTailProperties
<1>6. QED BY <1>1, <1>2, <1>3, <1>4, <1>5

\* A queue that something has joined.
LEMMA Joined ==
  ASSUME NEW S, NEW s \in Seq(S), NEW x \in S
  PROVE  /\ Append(s, x) \in Seq(S)
         /\ \A i \in DOMAIN s : i \in DOMAIN Append(s, x) /\ Append(s, x)[i] = s[i]
         /\ \A i \in DOMAIN Append(s, x) :
              \/ i \in DOMAIN s /\ i # Len(s) + 1
              \/ i = Len(s) + 1 /\ i \notin DOMAIN s /\ Append(s, x)[i] = x
<1>1. Len(s) \in Nat /\ DOMAIN s = 1 .. Len(s)
  BY LenProperties
<1>2. /\ Append(s, x) \in Seq(S) /\ Len(Append(s, x)) = Len(s) + 1
      /\ \A i \in 1 .. Len(s) : Append(s, x)[i] = s[i]
      /\ Append(s, x)[Len(s) + 1] = x
  BY AppendProperties
<1>3. DOMAIN Append(s, x) = 1 .. Len(s) + 1
  BY <1>2, LenProperties
<1>4. QED BY <1>1, <1>2, <1>3

-----------------------------------------------------------------------------
(* What is on its way between the session and the app-server.              *)

\* A request joins: it is the only one of its delivery if nothing was on its way.
LEMMA RequestJoins ==
  ASSUME NEW rs \in Seq(Requests), NEW ms \in Seq(Messages), NEW r \in Requests,
         NEW d \in Deliveries, r.delivery = d => ~ Sent(rs, ms, d)
  PROVE  /\ Alone(rs, ms, d) => Alone(Append(rs, r), ms, d)
         /\ Sent(Append(rs, r), ms, d) => Sent(rs, ms, d) \/ r.delivery = d
<1> DEFINE more == Append(rs, r)
<1>1. /\ \A i \in DOMAIN rs : i \in DOMAIN more /\ more[i] = rs[i]
      /\ \A i \in DOMAIN more : i \in DOMAIN rs \/ (i = Len(rs) + 1 /\ more[i] = r)
  BY Joined
<1> HIDE DEF more
<1>2. Alone(rs, ms, d) => Alone(more, ms, d)
  BY <1>1 DEF Alone, Sent
<1>3. Sent(more, ms, d) => Sent(rs, ms, d) \/ r.delivery = d
  BY <1>1 DEF Sent
<1>4. QED BY <1>2, <1>3 DEF more

\* The request at the head is answered: what was alone stays so, and if the answer
\* is no refusal, nothing of that delivery is on its way.
LEMMA AnswerJoins ==
  ASSUME NEW rs \in Seq(Requests), NEW ms \in Seq(Messages), NEW m \in Messages,
         NEW d \in Deliveries, rs # <<>>, m.request = Head(rs), Alone(rs, ms, d)
  PROVE  /\ Alone(Tail(rs), Append(ms, m), d)
         /\ Sent(Tail(rs), Append(ms, m), d) => Sent(rs, ms, d)
         /\ Head(rs).delivery = d =>
              /\ Sent(rs, ms, d)
              /\ m.kind \notin {"stale", "refused"} => ~ Sent(Tail(rs), Append(ms, m), d)
<1> DEFINE left == Tail(rs)
           more == Append(ms, m)
<1>1. /\ \A i \in DOMAIN ms : i \in DOMAIN more /\ more[i] = ms[i]
      /\ \A i \in DOMAIN more : i \in DOMAIN ms \/ (i = Len(ms) + 1 /\ more[i] = m)
  BY Joined
<1>2. /\ m.request = rs[1] /\ Head(rs) = rs[1] /\ 1 \in DOMAIN rs
      /\ \A i \in DOMAIN left : i \in Nat /\ i + 1 \in DOMAIN rs /\ i + 1 # 1 /\ left[i] = rs[i + 1]
  BY TailOf
<1> HIDE DEF left, more
<1>3. Alone(left, more, d)
  <2>1. \A i, j \in DOMAIN left : left[i].delivery = d /\ left[j].delivery = d => i = j
    BY <1>2 DEF Alone
  <2>2. \A i, j \in DOMAIN more : Returns(more[i], d) /\ Returns(more[j], d) => i = j
    BY <1>1, <1>2 DEF Alone, Returns
  <2>3. \A i \in DOMAIN left, j \in DOMAIN more : ~ (left[i].delivery = d /\ Returns(more[j], d))
    BY <1>1, <1>2 DEF Alone, Returns
  <2>4. QED BY <2>1, <2>2, <2>3 DEF Alone
<1>4. Sent(left, more, d) => Sent(rs, ms, d)
  BY <1>1, <1>2 DEF Sent, Returns
<1>5. ASSUME Head(rs).delivery = d
      PROVE  Sent(rs, ms, d) /\ (m.kind \notin {"stale", "refused"} => ~ Sent(left, more, d))
  BY <1>1, <1>2, <1>5 DEF Alone, Sent, Returns
<1>6. QED BY <1>3, <1>4, <1>5 DEF left, more

\* A message joins that gives nothing back.
LEMMA NewsJoins ==
  ASSUME NEW rs \in Seq(Requests), NEW ms \in Seq(Messages), NEW m \in Messages,
         NEW d \in Deliveries, m.kind \notin {"stale", "refused"}
  PROVE  /\ Alone(rs, ms, d) => Alone(rs, Append(ms, m), d)
         /\ Sent(rs, Append(ms, m), d) => Sent(rs, ms, d)
<1> DEFINE more == Append(ms, m)
<1>1. /\ \A i \in DOMAIN ms : i \in DOMAIN more /\ more[i] = ms[i]
      /\ \A i \in DOMAIN more : i \in DOMAIN ms \/ (i = Len(ms) + 1 /\ more[i] = m)
  BY Joined
<1> HIDE DEF more
<1>2. ~ Returns(m, d)
  BY DEF Returns
<1>3. Alone(rs, ms, d) => Alone(rs, more, d)
  BY <1>1, <1>2 DEF Alone
<1>4. Sent(rs, more, d) => Sent(rs, ms, d)
  BY <1>1, <1>2 DEF Sent
<1>5. QED BY <1>3, <1>4 DEF more

\* The session has read the message at the head: a refusal was all there was.
LEMMA MessageRead ==
  ASSUME NEW rs \in Seq(Requests), NEW ms \in Seq(Messages), NEW d \in Deliveries,
         ms # <<>>, Alone(rs, ms, d)
  PROVE  /\ Alone(rs, Tail(ms), d)
         /\ Sent(rs, Tail(ms), d) => Sent(rs, ms, d)
         /\ Returns(Head(ms), d) => Sent(rs, ms, d) /\ ~ Sent(rs, Tail(ms), d)
<1> DEFINE left == Tail(ms)
<1>1. /\ Head(ms) = ms[1] /\ 1 \in DOMAIN ms
      /\ \A i \in DOMAIN left : i \in Nat /\ i + 1 \in DOMAIN ms /\ i + 1 # 1 /\ left[i] = ms[i + 1]
  BY TailOf
<1> HIDE DEF left
<1>2. Alone(rs, left, d)
  BY <1>1 DEF Alone
<1>3. Sent(rs, left, d) => Sent(rs, ms, d)
  BY <1>1 DEF Sent
<1>4. Returns(Head(ms), d) => Sent(rs, ms, d) /\ ~ Sent(rs, left, d)
  BY <1>1 DEF Alone, Sent
<1>5. QED BY <1>2, <1>3, <1>4 DEF left

\* The requests are gone with the app-server.
LEMMA RequestsGone ==
  ASSUME NEW rs, NEW ms, NEW d
  PROVE  /\ Alone(rs, ms, d) => Alone(<<>>, ms, d)
         /\ Sent(<<>>, ms, d) => Sent(rs, ms, d)
<1>1. DOMAIN <<>> = {}
  OBVIOUS
<1>2. QED BY <1>1 DEF Alone, Sent

-----------------------------------------------------------------------------
(* What each action does to the invariant.                                 *)

\* The invariant after a step.
Goes ==
  /\ Typed' /\ Waiting(prompts', stage') /\ Looping(lists', stage')
  /\ \A d \in Deliveries :
       /\ Alone(requests', messages', d)
       /\ Fresh(requests', messages', stage'[d], took'[d], d)

\* A step that goes as it says keeps the invariant.
LEMMA GoesOn == Goes => Inv'
BY DEF Goes, Inv, Waiting, Looping, OnItsWay, Alone, Fresh, Sent, Returns

\* A session starts with no prompt sent.
LEMMA InitInv == ASSUME Bounds PROVE Init => Inv
<1> SUFFICES ASSUME Init PROVE Inv
  OBVIOUS
<1> USE DEF Init
<1>1. Typed
  <2>1. ThreadOpen(threadId) \in Requests
    BY DEF ThreadOpen, Requests, Methods
  <2>2. requests \in Seq(Requests)
    <3>1. requests = Append(<<>>, ThreadOpen(threadId)) /\ <<>> \in Seq(Requests)
      OBVIOUS
    <3>2. QED BY <2>1, <3>1, AppendProperties
  <2>3. messages \in Seq(Messages) /\ prompts \in Seq(Deliveries)
        /\ lists \in [Deliveries -> Seq(Deliveries)]
    OBVIOUS
  <2>4. SessionTyped
    BY <2>3 DEF SessionTyped, Stages
  <2>5. LedgerTyped
    BY DEF LedgerTyped, Handlers, Idle, Marks
  <2>6. ServerTyped
    BY <2>2, <2>3 DEF ServerTyped, NoTurn
  <2>7. CountersTyped
    <3>1. denied \in BOOLEAN
      OBVIOUS
    <3>2. refusals \in Nat /\ exits \in Nat /\ refusals + exits <= MaxTrouble
      BY DEF Bounds
    <3>3. QED BY <3>1, <3>2 DEF CountersTyped
  <2>8. FlagsTyped
    BY DEF FlagsTyped
  <2>9. QED BY <2>4, <2>5, <2>6, <2>7, <2>8 DEF Typed
<1>2. Waiting(prompts, stage) /\ Looping(lists, stage)
  BY DEF Waiting, Looping
<1>3. OnItsWay
  <2> SUFFICES ASSUME NEW d \in Deliveries
               PROVE  /\ Alone(requests, messages, d)
                      /\ Fresh(requests, messages, stage[d], took[d], d)
    BY DEF OnItsWay
  <2>1. /\ DOMAIN requests = {1} /\ requests[1].delivery = None /\ DOMAIN messages = {}
    BY DEF ThreadOpen
  <2>2. QED BY <2>1 DEF Alone, Fresh, Sent, Bounds
<1>4. QED BY <1>1, <1>2, <1>3 DEF Inv

\* A prompt arrives and is held.
LEMMA DeliverGoes == ASSUME Bounds, Inv, NEW d \in Deliveries, Deliver(d) PROVE Goes
<1> USE DEF Inv
<1>1. /\ UNCHANGED <<up, threadId, threadReady, activeTurn, lists, recovered, text,
                     ledger, server, refusals, exits, denied>>
      /\ stage[d] = "new"
      /\ \/ prompts' = prompts /\ activeDelivery' = activeDelivery
            /\ stage' = [stage EXCEPT ![d] = "starting"]
         \/ prompts' = Append(prompts, d) /\ activeDelivery' = activeDelivery
            /\ stage' = [stage EXCEPT ![d] = "prompt"]
         \/ prompts' = prompts /\ activeDelivery' = d /\ stage' = [stage EXCEPT ![d] = "images"]
  BY DEF Deliver
<1>2. prompts \in Seq(Deliveries) /\ stage \in [Deliveries -> Stages]
  BY DEF Typed, SessionTyped
<1>3. /\ prompts' \in Seq(Deliveries)
      /\ \A i \in DOMAIN prompts' : \/ i \in DOMAIN prompts /\ prompts'[i] = prompts[i]
                                    \/ prompts'[i] = d /\ stage'[d] = "prompt"
                                       /\ prompts' = Append(prompts, d) /\ i = Len(prompts) + 1
  <2>1. CASE prompts' = prompts
    BY <1>2, <2>1
  <2>2. CASE prompts' = Append(prompts, d) /\ stage' = [stage EXCEPT ![d] = "prompt"]
    BY <1>2, <2>2, Joined
  <2>3. QED BY <1>1, <2>1, <2>2
<1>4. /\ \A e \in Deliveries : e # d => stage'[e] = stage[e]
      /\ stage'[d] \in {"starting", "prompt", "images"}
      /\ stage' \in [Deliveries -> Stages]
  BY <1>1, <1>2 DEF Stages
<1>5. Typed'
  <2>1. SessionTyped'
    BY <1>1, <1>3, <1>4 DEF Typed, SessionTyped
  <2>2. LedgerTyped' /\ ServerTyped' /\ FlagsTyped' /\ CountersTyped'
    BY <1>1 DEF Typed, LedgerTyped, ServerTyped, FlagsTyped, CountersTyped, ledger, server
  <2>3. QED BY <2>1, <2>2 DEF Typed
<1>6. Waiting(prompts', stage')
  <2>1. \A i \in DOMAIN prompts : prompts[i] \in Deliveries /\ prompts[i] # d
    BY <1>1, <1>2, LenProperties, ElementOfSeq DEF Waiting
  <2>2. QED BY <1>3, <1>4, <2>1 DEF Waiting
<1>7. Looping(lists', stage')
  <2>1. lists' = lists /\ lists[d] = <<>>
    BY <1>1 DEF Looping
  <2>2. \A e \in Deliveries : \A i \in DOMAIN lists[e] : lists[e][i] \in Deliveries /\ lists[e][i] # d
    BY <1>1, LenProperties, ElementOfSeq DEF Looping, Typed, SessionTyped
  <2>3. QED BY <1>4, <2>1, <2>2 DEF Looping
<1>8. ASSUME NEW e \in Deliveries
      PROVE  Alone(requests', messages', e) /\ Fresh(requests', messages', stage'[e], took'[e], e)
  <2>1. requests' = requests /\ messages' = messages /\ took' = took
    BY <1>1 DEF server
  <2>2. stage[e] \in Unsent \/ stage'[e] = stage[e]
    BY <1>1, <1>4 DEF Unsent
  <2>3. QED BY <2>1, <2>2 DEF OnItsWay, Fresh
<1>9. QED BY <1>5, <1>6, <1>7, <1>8 DEF Goes

\* An app-server is started; what waits, waits on.
LEMMA StartGoes == ASSUME Bounds, Inv, NEW d \in Deliveries, Start(d) PROVE Goes
<1> USE DEF Inv
<1> DEFINE open == ThreadOpen(threadId)
<1>1. /\ UNCHANGED <<threadId, activeTurn, activeDelivery, lists, recovered, text,
                     ledger, turn, messages, took, finished, refusals, exits, denied>>
      /\ stage[d] = "starting" /\ up' = TRUE /\ threadReady' = FALSE
      /\ requests' = Append(requests, open)
      /\ prompts' = Append(prompts, d) /\ stage' = [stage EXCEPT ![d] = "prompt"]
  BY DEF Start
<1>2. /\ prompts \in Seq(Deliveries) /\ stage \in [Deliveries -> Stages]
      /\ requests \in Seq(Requests) /\ messages \in Seq(Messages)
  BY DEF Typed, SessionTyped, ServerTyped
<1>3. open \in Requests /\ open.delivery = None
  BY DEF ThreadOpen, Requests, Methods, Typed, FlagsTyped
<1> HIDE DEF open
<1>4. /\ prompts' \in Seq(Deliveries)
      /\ \A i \in DOMAIN prompts' : \/ i \in DOMAIN prompts /\ prompts'[i] = prompts[i]
                                    \/ prompts'[i] = d /\ i = Len(prompts) + 1
  BY <1>1, <1>2, Joined
<1>5. /\ \A e \in Deliveries : e # d => stage'[e] = stage[e]
      /\ stage'[d] = "prompt" /\ stage' \in [Deliveries -> Stages]
  BY <1>1, <1>2 DEF Stages
<1>6. Typed'
  <2>1. SessionTyped'
    BY <1>1, <1>4, <1>5 DEF Typed, SessionTyped
  <2>2. LedgerTyped' /\ FlagsTyped' /\ CountersTyped'
    BY <1>1 DEF Typed, LedgerTyped, FlagsTyped, CountersTyped, ledger
  <2>3. ServerTyped'
    BY <1>1, <1>2, <1>3, Joined DEF Typed, ServerTyped
  <2>4. QED BY <2>1, <2>2, <2>3 DEF Typed
<1>7. Waiting(prompts', stage')
  <2>1. \A i \in DOMAIN prompts : prompts[i] \in Deliveries /\ prompts[i] # d
    BY <1>1, <1>2, LenProperties, ElementOfSeq DEF Waiting
  <2>2. QED BY <1>4, <1>5, <2>1 DEF Waiting
<1>8. Looping(lists', stage')
  <2>1. lists' = lists /\ lists[d] = <<>>
    BY <1>1 DEF Looping
  <2>2. \A e \in Deliveries : \A i \in DOMAIN lists[e] : lists[e][i] \in Deliveries /\ lists[e][i] # d
    BY <1>1, LenProperties, ElementOfSeq DEF Looping, Typed, SessionTyped
  <2>3. QED BY <1>5, <2>1, <2>2 DEF Looping
<1>9. ASSUME NEW e \in Deliveries
      PROVE  Alone(requests', messages', e) /\ Fresh(requests', messages', stage'[e], took'[e], e)
  <2>1. Alone(requests, messages, e) /\ Fresh(requests, messages, stage[e], took[e], e)
    BY DEF OnItsWay
  <2>2. open.delivery # e
    BY <1>3 DEF Bounds
  <2>3. /\ Alone(Append(requests, open), messages, e)
        /\ Sent(Append(requests, open), messages, e) => Sent(requests, messages, e)
    BY <1>2, <1>3, <2>1, <2>2, RequestJoins
  <2>4. stage[e] \in Unsent \/ stage'[e] = stage[e]
    BY <1>1, <1>5 DEF Unsent
  <2>5. QED BY <1>1, <2>1, <2>3, <2>4 DEF Fresh
<1>10. QED BY <1>6, <1>7, <1>8, <1>9 DEF Goes

\* The session sends the prompt its loop is at, and goes on in its list.
LEMMA StartTurnGoes == ASSUME Bounds, Inv, NEW d \in Deliveries, StartTurn(d) PROVE Goes
<1> USE DEF Inv
<1>1. PICK phase \in {"asked", "dropped"} : stage' = StagesAfter(d, phase)
  BY DEF StartTurn
<1>2. PICK l \in Seq(Deliveries) : l = lists[d]
  BY DEF Typed, SessionTyped
<1>3. PICK rest : rest = Rest(d)
  OBVIOUS
<1>4. rest = l \/ rest = <<>>
  BY <1>2, <1>3 DEF Rest
<1>5. /\ stage \in [Deliveries -> Stages] /\ lists \in [Deliveries -> Seq(Deliveries)]
      /\ requests \in Seq(Requests) /\ messages \in Seq(Messages) /\ prompts \in Seq(Deliveries)
  BY DEF Typed, SessionTyped, ServerTyped
<1>6. /\ stage[d] = "images"
      /\ UNCHANGED <<up, threadId, threadReady, activeTurn, prompts, recovered, turn, messages,
                     took, finished, refusals, exits, denied>>
      /\ lists' = IF rest = <<>> THEN [lists EXCEPT ![d] = <<>>]
                  ELSE [lists EXCEPT ![d] = <<>>, ![rest[1]] = Tail(rest)]
      /\ activeDelivery' = IF rest = <<>> THEN activeDelivery ELSE rest[1]
  BY <1>3 DEF StartTurn
<1>7. ASSUME rest # <<>>
      PROVE  /\ rest = l /\ rest[1] \in Deliveries /\ rest[1] # d /\ 1 \in DOMAIN l
             /\ Tail(rest) \in Seq(Deliveries)
             /\ \A i \in DOMAIN Tail(l) : i + 1 \in DOMAIN l /\ i + 1 # 1 /\ Tail(l)[i] = l[i + 1]
                                          /\ i \in Nat
  <2>1. rest = l /\ rest[1] \in Deliveries /\ 1 \in DOMAIN l
    BY <1>4, <1>7, TailOf
  <2>2. stage[l[1]] = "listed"
    BY <1>2, <2>1 DEF Looping
  <2>3. QED BY <1>6, <1>7, <2>1, <2>2, TailOf
<1>8. \A e \in Deliveries : \A i \in DOMAIN lists[e] :
        lists[e][i] \in Deliveries /\ stage[lists[e][i]] = "listed" /\ lists[e][i] # d
  BY <1>5, <1>6, LenProperties, ElementOfSeq DEF Looping
<1>9. \* the lists
      /\ lists'[d] = <<>> /\ lists' \in [Deliveries -> Seq(Deliveries)]
      /\ rest = <<>> => \A e \in Deliveries : e # d => lists'[e] = lists[e]
      /\ rest # <<>> => /\ lists'[rest[1]] = Tail(rest)
                        /\ \A e \in Deliveries : e # d /\ e # rest[1] => lists'[e] = lists[e]
  <2>1. CASE rest = <<>>
    BY <1>5, <1>6, <2>1
  <2>2. CASE rest # <<>>
    <3>1. PICK mid : mid = [lists EXCEPT ![d] = <<>>]
      OBVIOUS
    <3>2. lists' = [mid EXCEPT ![rest[1]] = Tail(rest)]
      BY <1>6, <2>2, <3>1
    <3>3. mid \in [Deliveries -> Seq(Deliveries)] /\ mid[d] = <<>>
          /\ \A e \in Deliveries : e # d => mid[e] = lists[e]
      BY <1>5, <3>1
    <3>4. QED BY <1>7, <2>2, <3>2, <3>3
  <2>3. QED BY <2>1, <2>2
<1>10. \* the stages
       /\ stage' \in [Deliveries -> Stages] /\ stage'[d] = phase
       /\ \A e \in Deliveries : e # d =>
            stage'[e] = IF rest # <<>> /\ e = rest[1] THEN "images"
                        ELSE IF e \in Range(l) /\ rest = <<>> THEN "dropped" ELSE stage[e]
  <2>1. stage' = [e \in Deliveries |->
                    IF e = d THEN phase
                    ELSE IF rest # <<>> /\ e = rest[1] THEN "images"
                    ELSE IF e \in Range(l) /\ rest = <<>> THEN "dropped" ELSE stage[e]]
    BY <1>1, <1>2, <1>3 DEF StagesAfter
  <2>2. QED BY <1>5, <2>1 DEF Stages
<1>11. \A e \in Range(l) : \E i \in DOMAIN l : e = l[i]
  BY DEF Range
<1>12. \A i \in DOMAIN l : l[i] \in Range(l) /\ l[i] \in Deliveries /\ stage[l[i]] = "listed"
  BY <1>2, <1>8 DEF Range
<1>13. Looping(lists', stage')
  <2>1. ASSUME NEW e \in Deliveries, lists'[e] # <<>>  PROVE stage'[e] = "images"
    <3>1. CASE rest # <<>> /\ e = rest[1]
      BY <1>7, <1>10, <3>1
    <3>2. CASE ~ (rest # <<>> /\ e = rest[1])
      <4>1. e # d /\ lists'[e] = lists[e]
        BY <1>9, <2>1, <3>2
      <4>2. stage[e] = "images"
        BY <2>1, <4>1 DEF Looping
      <4>3. e \notin Range(l)
        BY <1>11, <1>12, <4>2
      <4>4. QED BY <1>10, <3>2, <4>1, <4>2, <4>3
    <3>3. QED BY <3>1, <3>2
  <2>2. ASSUME NEW e \in Deliveries, NEW i \in DOMAIN lists'[e]
        PROVE  /\ stage'[lists'[e][i]] = "listed"
               /\ \/ e # d /\ i \in DOMAIN lists[e] /\ lists'[e][i] = lists[e][i]
                     /\ ~ (rest # <<>> /\ e = rest[1])
                  \/ rest # <<>> /\ e = rest[1] /\ i \in Nat /\ i + 1 \in DOMAIN l
                     /\ lists'[e][i] = lists[d][i + 1]
    <3>1. e # d
      BY <1>9
    <3>2. CASE rest # <<>> /\ e = rest[1]
      <4>1. lists'[e][i] = l[i + 1] /\ i + 1 \in DOMAIN l /\ i + 1 # 1 /\ i \in Nat
        BY <1>7, <1>9, <2>2, <3>2
      <4>2. l[i + 1] # l[1] /\ l[i + 1] # d /\ l[i + 1] \in Deliveries
        BY <1>2, <1>7, <1>8, <3>2, <4>1 DEF Looping
      <4>3. QED BY <1>2, <1>7, <1>10, <1>12, <3>2, <4>1, <4>2
    <3>3. CASE ~ (rest # <<>> /\ e = rest[1])
      <4>1. lists'[e] = lists[e]
        BY <1>9, <3>1, <3>3
      <4>2. lists[e][i] \in Deliveries /\ stage[lists[e][i]] = "listed" /\ lists[e][i] # d
        BY <1>8, <2>2, <4>1
      <4>3. lists[e][i] \notin Range(l)
        BY <1>2, <1>11, <2>2, <3>1, <4>1 DEF Looping
      <4>4. ~ (rest # <<>> /\ lists[e][i] = rest[1])
        BY <1>7, <1>12, <4>3
      <4>5. QED BY <1>10, <2>2, <3>1, <3>3, <4>1, <4>2, <4>3, <4>4
    <3>4. QED BY <3>2, <3>3
  <2>3. ASSUME NEW e \in Deliveries, NEW f \in Deliveries,
               NEW i \in DOMAIN lists'[e], NEW j \in DOMAIN lists'[f], lists'[e][i] = lists'[f][j]
        PROVE  e = f /\ i = j
    <3>1. \A a, b \in Deliveries : \A m \in DOMAIN lists[a], n \in DOMAIN lists[b] :
            lists[a][m] = lists[b][n] => a = b /\ m = n
      BY DEF Looping
    <3>2. PICK a, m :
            /\ a \in Deliveries /\ m \in DOMAIN lists[a] /\ lists'[e][i] = lists[a][m]
            /\ \/ a = e /\ m = i /\ e # d /\ ~ (rest # <<>> /\ e = rest[1])
               \/ a = d /\ m = i + 1 /\ rest # <<>> /\ e = rest[1] /\ i \in Nat
      <4>1. CASE e # d /\ i \in DOMAIN lists[e] /\ lists'[e][i] = lists[e][i]
                 /\ ~ (rest # <<>> /\ e = rest[1])
        BY <4>1
      <4>2. CASE rest # <<>> /\ e = rest[1] /\ i \in Nat /\ i + 1 \in DOMAIN l
                 /\ lists'[e][i] = lists[d][i + 1]
        BY <1>2, <4>2
      <4>3. QED BY <2>2, <4>1, <4>2
    <3>3. PICK b, n :
            /\ b \in Deliveries /\ n \in DOMAIN lists[b] /\ lists'[f][j] = lists[b][n]
            /\ \/ b = f /\ n = j /\ f # d /\ ~ (rest # <<>> /\ f = rest[1])
               \/ b = d /\ n = j + 1 /\ rest # <<>> /\ f = rest[1] /\ j \in Nat
      <4>1. CASE f # d /\ j \in DOMAIN lists[f] /\ lists'[f][j] = lists[f][j]
                 /\ ~ (rest # <<>> /\ f = rest[1])
        BY <4>1
      <4>2. CASE rest # <<>> /\ f = rest[1] /\ j \in Nat /\ j + 1 \in DOMAIN l
                 /\ lists'[f][j] = lists[d][j + 1]
        BY <1>2, <4>2
      <4>3. QED BY <2>2, <4>1, <4>2
    <3>4. lists[a][m] = lists[b][n]
      BY <2>3, <3>2, <3>3
    <3>5. a = b /\ m = n
      BY <3>1, <3>2, <3>3, <3>4
    <3>6. QED BY <3>2, <3>3, <3>5
  <2>4. QED BY <2>1, <2>2, <2>3 DEF Looping
<1>14. Waiting(prompts', stage')
  <2>1. \A i \in DOMAIN prompts : prompts[i] \in Deliveries /\ stage[prompts[i]] = "prompt"
    BY <1>5, LenProperties, ElementOfSeq DEF Waiting
  <2>2. \A e \in Deliveries : stage[e] = "prompt" => stage'[e] = "prompt"
    BY <1>6, <1>7, <1>10, <1>11, <1>12
  <2>3. QED BY <1>6, <2>1, <2>2 DEF Waiting
<1>15. PICK req \in Requests :
         req.delivery = d /\ (requests' = Append(requests, req) \/ requests' = requests)
  <2>1. Request("turn/steer", d, activeTurn) \in Requests /\ Request("turn/start", d, 0) \in Requests
    BY DEF Request, Requests, Methods, Typed, SessionTyped, FlagsTyped
  <2>2. Request("turn/steer", d, activeTurn).delivery = d /\ Request("turn/start", d, 0).delivery = d
    BY DEF Request
  <2>3. QED BY <2>1, <2>2 DEF StartTurn, SendPrompt
<1>16. ASSUME NEW e \in Deliveries
       PROVE  Alone(requests', messages', e) /\ Fresh(requests', messages', stage'[e], took'[e], e)
  <2>1. Alone(requests, messages, e) /\ Fresh(requests, messages, stage[e], took[e], e)
    BY DEF OnItsWay
  <2>2. ~ Sent(requests, messages, d) /\ took[d] = 0
    BY <1>6 DEF OnItsWay, Fresh, Unsent
  <2>3. Alone(requests', messages, e)
        /\ (Sent(requests', messages, e) => Sent(requests, messages, e) \/ e = d)
    BY <1>5, <1>15, <2>1, <2>2, RequestJoins
  <2>4. /\ stage'[e] \in Unsent => stage[e] \in Unsent
        /\ stage[e] \notin Unsent => stage'[e] \notin Unsent
    BY <1>6, <1>7, <1>10, <1>11, <1>12 DEF Unsent
  <2>5. CASE e = d
    BY <1>6, <1>10, <2>2, <2>3, <2>5 DEF Fresh, Unsent
  <2>6. CASE e # d
    BY <1>6, <2>1, <2>3, <2>4, <2>6 DEF Fresh
  <2>7. QED BY <2>5, <2>6
<1>17. Typed'
  <2>1. SessionTyped'
    <3>1. activeDelivery' \in Deliveries \cup {None}
      BY <1>6, <1>7 DEF Typed, SessionTyped
    <3>2. text' \subseteq Deliveries
      BY DEF StartTurn, Typed, SessionTyped
    <3>3. QED BY <1>6, <1>9, <1>10, <3>1, <3>2 DEF Typed, SessionTyped
  <2>2. LedgerTyped'
    <3>1. mark' \in [Deliveries -> Marks]
      BY DEF StartTurn, Typed, LedgerTyped, SessionTyped, Marks
    <3>2. handler' \in {handler, Idle}
          \/ (handler' = [handler EXCEPT !.end = rest[1]] /\ rest # <<>> /\ handler.at = "prompts")
      BY <1>3 DEF StartTurn
    <3>3. Idle \in Handlers /\ Idle.at = "idle"
      BY DEF Idle, Handlers
    <3>4. CASE handler' \in {handler, Idle}
      BY <3>1, <3>3, <3>4 DEF Typed, LedgerTyped
    <3>5. CASE handler' = [handler EXCEPT !.end = rest[1]] /\ rest # <<>> /\ handler.at = "prompts"
      BY <1>7, <3>1, <3>5 DEF Typed, LedgerTyped, Handlers
    <3>6. QED BY <3>2, <3>4, <3>5
  <2>3. ServerTyped'
    <3>1. Append(requests, req) \in Seq(Requests)
      BY <1>5, Joined
    <3>2. QED BY <1>6, <1>15, <3>1 DEF Typed, ServerTyped
  <2>4. FlagsTyped' /\ CountersTyped'
    BY <1>6 DEF Typed, FlagsTyped, CountersTyped
  <2>5. QED BY <2>1, <2>2, <2>3, <2>4 DEF Typed
<1>18. QED BY <1>13, <1>14, <1>16, <1>17 DEF Goes

\* The message at the head is of its type.
LEMMA HeadTyped ==
  ASSUME Typed, messages # <<>>
  PROVE  /\ Head(messages) \in Messages /\ Head(messages).turn \in Nat
         /\ Tail(messages) \in Seq(Messages)
         /\ Head(messages).kind = "text" => Head(messages).request \subseteq Deliveries
         /\ Head(messages).kind # "text" =>
              Asked \in Requests /\ Asked.delivery \in Deliveries \cup {None}
<1>1. Head(messages) \in Messages /\ Tail(messages) \in Seq(Messages)
  BY TailOf DEF Typed, ServerTyped
<1>2. QED BY <1>1 DEF Messages, Texts, Answers, Requests, Asked

\* What a message that the session has read leaves on its way.
LEMMA Heard ==
  ASSUME Inv, messages # <<>>, NEW d \in Deliveries
  PROVE  /\ Alone(requests, Tail(messages), d)
         /\ Fresh(requests, Tail(messages), stage[d], took[d], d)
         /\ Returns(Head(messages), d) =>
              took[d] = 0 /\ stage[d] \notin Unsent /\ ~ Sent(requests, Tail(messages), d)
<1>1. requests \in Seq(Requests) /\ messages \in Seq(Messages)
  BY DEF Inv, Typed, ServerTyped
<1>2. Alone(requests, messages, d) /\ Fresh(requests, messages, stage[d], took[d], d)
  BY DEF Inv, OnItsWay
<1>3. QED BY <1>1, <1>2, MessageRead DEF Fresh

\* The session takes up what waits.
LEMMA HandleThreadGoes == ASSUME Bounds, Inv, HandleThread PROVE Goes
<1> USE DEF Inv
<1>1. /\ messages # <<>> /\ messages' = Tail(messages)
      /\ threadId' = TRUE /\ threadReady' = TRUE /\ prompts' = <<>>
      /\ UNCHANGED <<up, activeTurn, recovered, text, mark, requests, turn, took, finished,
                     refusals, exits, denied>>
  BY DEF HandleThread, Handles, Left
<1>2. /\ prompts \in Seq(Deliveries) /\ lists \in [Deliveries -> Seq(Deliveries)]
      /\ stage \in [Deliveries -> Stages]
      /\ activeDelivery \in Deliveries \cup {None} /\ handler \in Handlers
      /\ handler.at \in {"answered", "marking"} => handler.end \in {"completed", "failed"}
  BY DEF Typed, SessionTyped, LedgerTyped
<1>3. <<>> \in Seq(Deliveries) /\ DOMAIN <<>> = {}
  OBVIOUS
<1>4. /\ stage' \in [Deliveries -> Stages] /\ lists' \in [Deliveries -> Seq(Deliveries)]
      /\ activeDelivery' \in Deliveries \cup {None} /\ handler' \in Handlers
      /\ handler'.at \in {"answered", "marking"} => handler'.end \in {"completed", "failed"}
      /\ Looping(lists', stage')
      /\ \A e \in Deliveries : stage'[e] # stage[e] => stage[e] = "prompt"
  <2>1. CASE prompts = <<>>
    <3>1. UNCHANGED <<stage, lists, activeDelivery, handler>>
      BY <2>1 DEF HandleThread
    <3>2. QED BY <1>2, <3>1
  <2>2. CASE prompts # <<>>
    <3>1. PICK first : first = prompts[1]
      OBVIOUS
    <3>2. /\ stage' = [d \in Deliveries |-> IF d = first THEN "images"
                         ELSE IF d \in Range(prompts) THEN "listed" ELSE stage[d]]
          /\ lists' = [lists EXCEPT ![first] = Tail(prompts)]
          /\ activeDelivery' = first
          /\ handler' = [at |-> "prompts", end |-> first]
      BY <2>2, <3>1 DEF HandleThread
    <3>3. /\ first \in Deliveries /\ 1 \in DOMAIN prompts /\ Tail(prompts) \in Seq(Deliveries)
          /\ \A i \in DOMAIN Tail(prompts) : /\ i \in Nat /\ i + 1 \in DOMAIN prompts /\ i + 1 # 1
                                             /\ Tail(prompts)[i] = prompts[i + 1]
      BY <1>2, <2>2, <3>1, TailOf
    <3>4. /\ \A i \in DOMAIN prompts : /\ prompts[i] \in Deliveries /\ stage[prompts[i]] = "prompt"
                                       /\ prompts[i] \in Range(prompts)
          /\ \A i, j \in DOMAIN prompts : prompts[i] = prompts[j] => i = j
          /\ \A x \in Range(prompts) : stage[x] = "prompt"
      BY <1>2, LenProperties, ElementOfSeq DEF Waiting, Range
    <3>5. stage[first] = "prompt" /\ lists[first] = <<>>
      BY <3>1, <3>3, <3>4 DEF Looping
    <3>6. /\ stage' \in [Deliveries -> Stages]
          /\ \A e \in Deliveries :
               stage'[e] = IF e = first THEN "images"
                           ELSE IF e \in Range(prompts) THEN "listed" ELSE stage[e]
      BY <1>2, <3>2 DEF Stages
    <3>7. /\ lists' \in [Deliveries -> Seq(Deliveries)] /\ lists'[first] = Tail(prompts)
          /\ \A e \in Deliveries : e # first => lists'[e] = lists[e]
      BY <1>2, <3>2, <3>3
    <3>8. \A i \in DOMAIN Tail(prompts) :
            /\ i \in Nat /\ i + 1 \in DOMAIN prompts /\ Tail(prompts)[i] = prompts[i + 1]
            /\ stage[Tail(prompts)[i]] = "prompt" /\ stage'[Tail(prompts)[i]] = "listed"
      BY <3>1, <3>3, <3>4, <3>6
    <3>9. \A e \in Deliveries : e # first => \A i \in DOMAIN lists[e] :
            /\ lists[e][i] \in Deliveries
            /\ stage[lists[e][i]] = "listed" /\ stage'[lists[e][i]] = "listed"
      <4>1. ASSUME NEW e \in Deliveries, NEW i \in DOMAIN lists[e]
            PROVE  lists[e][i] \in Deliveries /\ stage[lists[e][i]] = "listed"
        BY <1>2, LenProperties, ElementOfSeq DEF Looping
      <4>2. QED BY <3>4, <3>5, <3>6, <4>1
    <3>10. PICK ls : ls = lists'
      OBVIOUS
    <3>11. /\ ls[first] = Tail(prompts)
           /\ \A e \in Deliveries : e # first => ls[e] = lists[e]
      BY <3>7, <3>10
    <3>12. Looping(ls, stage')
      <4>1. ASSUME NEW e \in Deliveries, ls[e] # <<>>  PROVE stage'[e] = "images"
        <5>1. CASE e = first
          BY <3>6, <5>1
        <5>2. CASE e # first
          <6>1. stage[e] = "images"
            BY <3>11, <4>1, <5>2 DEF Looping
          <6>2. QED BY <3>4, <3>6, <5>2, <6>1
        <5>3. QED BY <5>1, <5>2
      <4>2. ASSUME NEW e \in Deliveries, NEW i \in DOMAIN ls[e]
            PROVE  /\ stage'[ls[e][i]] = "listed"
                   /\ \/ /\ e = first /\ i \in Nat /\ i + 1 \in DOMAIN prompts
                         /\ ls[e][i] = prompts[i + 1] /\ stage[ls[e][i]] = "prompt"
                      \/ /\ e # first /\ i \in DOMAIN lists[e] /\ ls[e][i] = lists[e][i]
                         /\ stage[ls[e][i]] = "listed"
        <5>1. CASE e = first
          BY <3>8, <3>11, <4>2, <5>1
        <5>2. CASE e # first
          BY <3>9, <3>11, <4>2, <5>2
        <5>3. QED BY <5>1, <5>2
      <4>3. ASSUME NEW e \in Deliveries, NEW f \in Deliveries,
                   NEW i \in DOMAIN ls[e], NEW j \in DOMAIN ls[f], ls[e][i] = ls[f][j]
            PROVE  e = f /\ i = j
        <5>1. CASE e = first /\ f = first
          <6>1. i \in Nat /\ j \in Nat /\ i + 1 \in DOMAIN prompts /\ j + 1 \in DOMAIN prompts
                /\ prompts[i + 1] = prompts[j + 1]
            BY <4>2, <4>3, <5>1
          <6>2. i + 1 = j + 1
            BY <3>4, <6>1
          <6>3. QED BY <5>1, <6>1, <6>2
        <5>2. CASE e # first /\ f # first
          <6>1. i \in DOMAIN lists[e] /\ j \in DOMAIN lists[f] /\ lists[e][i] = lists[f][j]
            BY <4>2, <4>3, <5>2
          <6>2. QED BY <6>1 DEF Looping
        <5>3. CASE (e = first) # (f = first)
          BY <4>2, <4>3, <5>3
        <5>4. QED BY <5>1, <5>2, <5>3
      <4>4. QED BY <4>1, <4>2, <4>3 DEF Looping
    <3>13. Looping(lists', stage')
      BY <3>10, <3>12
    <3>14. handler' \in Handlers /\ handler'.at = "prompts" /\ activeDelivery' \in Deliveries
      BY <3>2, <3>3 DEF Handlers
    <3>15. \A e \in Deliveries : stage'[e] # stage[e] => stage[e] = "prompt"
      BY <3>4, <3>5, <3>6
    <3>16. QED BY <3>6, <3>7, <3>13, <3>14, <3>15
  <2>3. QED BY <2>1, <2>2
<1>5. Typed'
  <2>1. SessionTyped'
    BY <1>1, <1>3, <1>4 DEF Typed, SessionTyped
  <2>2. LedgerTyped'
    BY <1>1, <1>4 DEF Typed, LedgerTyped
  <2>3. ServerTyped'
    BY <1>1, HeadTyped DEF Typed, ServerTyped
  <2>4. CountersTyped'
    BY <1>1 DEF Typed, CountersTyped
  <2>5. FlagsTyped'
    BY <1>1 DEF Typed, FlagsTyped
  <2>6. QED BY <2>1, <2>2, <2>3, <2>4, <2>5 DEF Typed
<1>6. Waiting(prompts', stage')
  BY <1>1, <1>3 DEF Waiting
<1>7. ASSUME NEW e \in Deliveries
      PROVE  Alone(requests', messages', e) /\ Fresh(requests', messages', stage'[e], took'[e], e)
  <2>1. Alone(requests, Tail(messages), e) /\ Fresh(requests, Tail(messages), stage[e], took[e], e)
    BY <1>1, Heard
  <2>2. stage'[e] = stage[e] \/ stage[e] \in Unsent
    BY <1>4 DEF Unsent
  <2>3. QED BY <1>1, <2>1, <2>2 DEF Fresh
<1>8. QED BY <1>4, <1>5, <1>6, <1>7 DEF Goes

\* A stage that is no longer held changes: the queues do not.
LEMMA QueuesKept ==
  ASSUME Inv, prompts' = prompts, lists' = lists,
         \A e \in Deliveries : stage'[e] = stage[e] \/ stage[e] \notin Unsent
  PROVE  Waiting(prompts', stage') /\ Looping(lists', stage')
<1>1. \A i \in DOMAIN prompts : prompts[i] \in Deliveries /\ stage[prompts[i]] = "prompt"
  BY LenProperties, ElementOfSeq DEF Inv, Waiting, Typed, SessionTyped
<1>2. \A e \in Deliveries : \A i \in DOMAIN lists[e] :
        lists[e][i] \in Deliveries /\ stage[lists[e][i]] = "listed"
  BY LenProperties, ElementOfSeq DEF Inv, Looping, Typed, SessionTyped
<1>3. Waiting(prompts', stage')
  BY <1>1 DEF Inv, Waiting, Unsent
<1>4. Looping(lists', stage')
  BY <1>2 DEF Inv, Looping, Unsent
<1>5. QED BY <1>3, <1>4

\* The session learns of a turn; the prompt it took is no longer held.
LEMMA HandleTurnGoes == ASSUME Bounds, Inv, HandleTurn PROVE Goes
<1> USE DEF Inv
<1>1. /\ messages # <<>> /\ messages' = Tail(messages)
      /\ activeTurn' = Head(messages).turn
      /\ UNCHANGED <<up, threadId, threadReady, activeDelivery, prompts, lists, recovered, text,
                     ledger, requests, turn, took, finished, refusals, exits, denied>>
      /\ stage' = IF Asked.delivery # None /\ stage[Asked.delivery] = "asked"
                  THEN [stage EXCEPT ![Asked.delivery] = "taken"] ELSE stage
  BY DEF HandleTurn, Handles
<1>2. /\ stage' \in [Deliveries -> Stages]
      /\ \A e \in Deliveries :
           stage'[e] = stage[e] \/ (stage[e] \notin Unsent /\ stage'[e] \notin Unsent)
  BY <1>1 DEF Stages, Unsent, Typed, SessionTyped
<1>3. Typed'
  <2>1. SessionTyped'
    BY <1>1, <1>2, HeadTyped DEF Typed, SessionTyped
  <2>2. LedgerTyped'
    BY <1>1 DEF Typed, LedgerTyped, ledger
  <2>3. ServerTyped'
    BY <1>1, HeadTyped DEF Typed, ServerTyped
  <2>4. FlagsTyped' /\ CountersTyped'
    BY <1>1 DEF Typed, FlagsTyped, CountersTyped
  <2>5. QED BY <2>1, <2>2, <2>3, <2>4 DEF Typed
<1>4. Waiting(prompts', stage') /\ Looping(lists', stage')
  BY <1>1, <1>2, QueuesKept
<1>5. ASSUME NEW e \in Deliveries
      PROVE  Alone(requests', messages', e) /\ Fresh(requests', messages', stage'[e], took'[e], e)
  <2>1. Alone(requests, Tail(messages), e) /\ Fresh(requests, Tail(messages), stage[e], took[e], e)
    BY <1>1, Heard
  <2>2. QED BY <1>1, <1>2, <2>1 DEF Fresh
<1>6. QED BY <1>3, <1>4, <1>5 DEF Goes

\* A text concerns no prompt.
LEMMA HandleDeltaGoes == ASSUME Bounds, Inv, HandleDelta PROVE Goes
<1> USE DEF Inv
<1>1. /\ messages # <<>> /\ messages' = Tail(messages) /\ Head(messages).kind = "text"
      /\ text' = text \cup Head(messages).request
      /\ UNCHANGED <<up, threadId, threadReady, activeTurn, activeDelivery, prompts, stage, lists,
                     recovered, ledger, requests, turn, took, finished, refusals, exits, denied>>
  BY DEF HandleDelta, Handles
<1>2. Typed'
  <2>1. SessionTyped'
    BY <1>1, HeadTyped DEF Typed, SessionTyped
  <2>2. LedgerTyped'
    BY <1>1 DEF Typed, LedgerTyped, ledger
  <2>3. ServerTyped'
    BY <1>1, HeadTyped DEF Typed, ServerTyped
  <2>4. FlagsTyped' /\ CountersTyped'
    BY <1>1 DEF Typed, FlagsTyped, CountersTyped
  <2>5. QED BY <2>1, <2>2, <2>3, <2>4 DEF Typed
<1>3. Waiting(prompts', stage') /\ Looping(lists', stage')
  BY <1>1, QueuesKept
<1>4. ASSUME NEW e \in Deliveries
      PROVE  Alone(requests', messages', e) /\ Fresh(requests', messages', stage'[e], took'[e], e)
  BY <1>1, Heard
<1>5. QED BY <1>2, <1>3, <1>4 DEF Goes

\* The prompt is given back, and waits at the front for the new thread.
LEMMA RecoverGoes == ASSUME Bounds, Inv, RecoverMissingThread PROVE Goes
<1> USE DEF Inv
<1> DEFINE open == ThreadOpen(FALSE)
<1>1. /\ messages # <<>> /\ messages' = Tail(messages) /\ Head(messages).kind = "stale"
      /\ recovered' = recovered \cup {RecoveryKey}
      /\ IF Asked.delivery # None
         THEN /\ prompts' = <<Asked.delivery>> \o prompts
              /\ stage' = [stage EXCEPT ![Asked.delivery] = "prompt"]
         ELSE UNCHANGED <<prompts, stage>>
      /\ threadId' = FALSE /\ threadReady' = FALSE /\ activeTurn' = 0
      /\ text' = {} /\ activeDelivery' = None
      /\ requests' = IF up THEN Append(requests, open) ELSE requests
      /\ UNCHANGED <<up, lists, ledger, turn, took, finished, refusals, exits, denied>>
  BY DEF RecoverMissingThread, NewThread, Handles
<1>2. /\ prompts \in Seq(Deliveries) /\ stage \in [Deliveries -> Stages]
      /\ requests \in Seq(Requests) /\ Tail(messages) \in Seq(Messages)
      /\ Asked.delivery \in Deliveries \cup {None}
  BY <1>1, HeadTyped DEF Typed, SessionTyped, ServerTyped
<1>3. PICK d \in Deliveries \cup {None} : d = Asked.delivery
  BY <1>2
<1>4. open \in Requests /\ open.delivery = None
  BY DEF ThreadOpen, Requests, Methods
<1> HIDE DEF open
<1>5. \A e \in Deliveries : d = e => Returns(Head(messages), e)
  BY <1>1, <1>3 DEF Returns, Asked
<1>6. ASSUME d # None
      PROVE  /\ d \in Deliveries /\ took[d] = 0 /\ stage[d] \notin Unsent
             /\ ~ Sent(requests, Tail(messages), d)
  BY <1>1, <1>3, <1>5, <1>6, Heard
<1>7. /\ stage' \in [Deliveries -> Stages]
      /\ \A e \in Deliveries : e # d => stage'[e] = stage[e]
      /\ d # None => stage'[d] = "prompt"
  BY <1>1, <1>2, <1>3, <1>6 DEF Stages, Bounds
<1>8. \A i \in DOMAIN prompts : prompts[i] \in Deliveries /\ stage[prompts[i]] = "prompt"
                                /\ prompts[i] # d
  BY <1>2, <1>6, LenProperties, ElementOfSeq DEF Waiting, Unsent, Bounds
<1>9. prompts' \in Seq(Deliveries) /\ Waiting(prompts', stage')
  <2>1. CASE d = None
    BY <1>1, <1>2, <1>3, <1>7, <1>8, <2>1 DEF Waiting
  <2>2. CASE d # None
    <3>1. PICK ps : ps = <<d>> \o prompts
      OBVIOUS
    <3>2. ps = prompts' /\ <<d>> \in Seq(Deliveries) /\ Len(<<d>>) = 1 /\ <<d>>[1] = d
      BY <1>1, <1>3, <1>6, <2>2, <3>1
    <3>3. /\ ps \in Seq(Deliveries) /\ Len(ps) = 1 + Len(prompts)
          /\ \A i \in 1 .. 1 + Len(prompts) : ps[i] = IF i <= 1 THEN <<d>>[i] ELSE prompts[i - 1]
      BY <1>2, <3>1, <3>2, ConcatProperties
    <3>4. DOMAIN ps = 1 .. 1 + Len(prompts) /\ Len(prompts) \in Nat /\ DOMAIN prompts = 1 .. Len(prompts)
      BY <1>2, <3>3, LenProperties
    <3>5. \A i \in DOMAIN ps : \/ i = 1 /\ ps[i] = d
                               \/ i # 1 /\ i \in Nat /\ i - 1 \in DOMAIN prompts /\ ps[i] = prompts[i - 1]
      BY <3>2, <3>3, <3>4
    <3>6. \A i \in DOMAIN ps : stage'[ps[i]] = "prompt"
      BY <1>6, <1>7, <1>8, <2>2, <3>5
    <3>7. ASSUME NEW i \in DOMAIN ps, NEW j \in DOMAIN ps, ps[i] = ps[j]  PROVE i = j
      <4>1. CASE i = 1 \/ j = 1
        BY <1>8, <3>5, <3>7, <4>1
      <4>2. CASE i # 1 /\ j # 1
        <5>1. i \in Nat /\ j \in Nat /\ i - 1 \in DOMAIN prompts /\ j - 1 \in DOMAIN prompts
              /\ prompts[i - 1] = prompts[j - 1]
          BY <3>5, <3>7, <4>2
        <5>2. i - 1 = j - 1
          BY <5>1 DEF Waiting
        <5>3. QED BY <5>1, <5>2
      <4>3. QED BY <4>1, <4>2
    <3>8. Waiting(ps, stage')
      BY <3>6, <3>7 DEF Waiting
    <3>9. QED BY <3>2, <3>3, <3>8
  <2>3. QED BY <2>1, <2>2
<1>10. Looping(lists', stage')
  <2>1. \A e \in Deliveries : \A i \in DOMAIN lists[e] :
          lists[e][i] \in Deliveries /\ stage[lists[e][i]] = "listed" /\ lists[e][i] # d
    BY <1>6, LenProperties, ElementOfSeq DEF Looping, Typed, SessionTyped, Unsent, Bounds
  <2>2. \A e \in Deliveries : lists[e] # <<>> => stage[e] = "images" /\ e # d
    BY <1>6 DEF Looping, Unsent, Bounds
  <2>3. lists' = lists
    BY <1>1
  <2>4. QED BY <1>7, <2>1, <2>2, <2>3 DEF Looping
<1>11. ASSUME NEW e \in Deliveries
       PROVE  Alone(requests', messages', e) /\ Fresh(requests', messages', stage'[e], took'[e], e)
  <2>1. Alone(requests, Tail(messages), e) /\ Fresh(requests, Tail(messages), stage[e], took[e], e)
    BY <1>1, Heard
  <2>2. e # None
    BY DEF Bounds
  <2>3. /\ Alone(requests', messages', e)
        /\ Sent(requests', messages', e) => Sent(requests, Tail(messages), e)
    BY <1>1, <1>2, <1>4, <2>1, <2>2, RequestJoins
  <2>4. CASE e = d
    BY <1>1, <1>6, <2>2, <2>3, <2>4 DEF Fresh
  <2>5. CASE e # d
    BY <1>1, <1>7, <2>1, <2>3, <2>5 DEF Fresh
  <2>6. QED BY <2>4, <2>5
<1>12. Typed'
  <2>1. SessionTyped'
    <3>1. RecoveryKey \in Deliveries \cup {"thread"}
      BY <1>2 DEF RecoveryKey, Typed, SessionTyped
    <3>2. QED BY <1>1, <1>7, <1>9, <3>1 DEF Typed, SessionTyped
  <2>2. LedgerTyped'
    BY <1>1 DEF Typed, LedgerTyped, ledger
  <2>3. ServerTyped'
    <3>1. Append(requests, open) \in Seq(Requests)
      BY <1>2, <1>4, Joined
    <3>2. QED BY <1>1, <1>2, <3>1 DEF Typed, ServerTyped
  <2>4. CountersTyped'
    BY <1>1 DEF Typed, CountersTyped
  <2>5. FlagsTyped'
    BY <1>1 DEF Typed, FlagsTyped
  <2>6. QED BY <2>1, <2>2, <2>3, <2>4, <2>5 DEF Typed
<1>13. QED BY <1>9, <1>10, <1>11, <1>12 DEF Goes

\* A prompt that is refused for good is held no more.
LEMMA HandleRefusalGoes == ASSUME Bounds, Inv, HandleRefusal PROVE Goes
<1> USE DEF Inv
<1>1. /\ messages # <<>> /\ messages' = Tail(messages)
      /\ Head(messages).kind \in {"refused", "stale"}
      /\ mark' = IF activeDelivery # None THEN [mark EXCEPT ![activeDelivery] = "failed"] ELSE mark
      /\ stage' = IF Asked.delivery # None THEN [stage EXCEPT ![Asked.delivery] = "refused"] ELSE stage
      /\ denied' \in BOOLEAN
      /\ UNCHANGED <<up, threadId, threadReady, activeTurn, activeDelivery, prompts, lists,
                     recovered, text, handler, requests, turn, took, finished, refusals, exits>>
  BY DEF HandleRefusal, Handles
<1>2. \A e \in Deliveries : Asked.delivery = e => Returns(Head(messages), e)
  BY <1>1 DEF Returns, Asked
<1>3. \A e \in Deliveries : Asked.delivery = e => stage[e] \notin Unsent
  BY <1>1, <1>2, Heard
<1>4. /\ stage' \in [Deliveries -> Stages]
      /\ \A e \in Deliveries :
           stage'[e] = stage[e] \/ (stage[e] \notin Unsent /\ stage'[e] \notin Unsent)
  <2>1. CASE Asked.delivery = None
    BY <1>1, <2>1 DEF Typed, SessionTyped
  <2>2. CASE Asked.delivery # None
    BY <1>1, <1>3, <2>2 DEF Typed, SessionTyped, Stages, Unsent
  <2>3. QED BY <2>1, <2>2
<1>5. Typed'
  <2>1. SessionTyped'
    BY <1>1, <1>4 DEF Typed, SessionTyped
  <2>2. LedgerTyped'
    <3>1. mark' \in [Deliveries -> Marks]
      BY <1>1 DEF Typed, LedgerTyped, SessionTyped, Marks
    <3>2. QED BY <1>1, <3>1 DEF Typed, LedgerTyped
  <2>3. ServerTyped'
    BY <1>1, HeadTyped DEF Typed, ServerTyped
  <2>4. FlagsTyped' /\ CountersTyped'
    BY <1>1 DEF Typed, FlagsTyped, CountersTyped
  <2>5. QED BY <2>1, <2>2, <2>3, <2>4 DEF Typed
<1>6. Waiting(prompts', stage') /\ Looping(lists', stage')
  BY <1>1, <1>4, QueuesKept
<1>7. ASSUME NEW e \in Deliveries
      PROVE  Alone(requests', messages', e) /\ Fresh(requests', messages', stage'[e], took'[e], e)
  <2>1. Alone(requests, Tail(messages), e) /\ Fresh(requests, Tail(messages), stage[e], took[e], e)
    BY <1>1, Heard
  <2>2. QED BY <1>1, <1>4, <2>1 DEF Fresh
<1>8. QED BY <1>5, <1>6, <1>7 DEF Goes

\* The end of a turn concerns the ledger and the collected text.
LEMMA TurnEndGoes ==
  ASSUME Bounds, Inv, HandleTurnEnd \/ MarkTurnEnd \/ EndTurn
  PROVE  Goes
<1> USE DEF Inv
<1>1. /\ UNCHANGED <<up, threadId, threadReady, prompts, stage, lists, recovered,
                     requests, turn, took, refusals, exits, denied>>
      /\ activeTurn' \in {activeTurn, 0} /\ activeDelivery' \in {activeDelivery, None}
      /\ text' \in {text, {}}
      /\ messages' = messages \/ (messages # <<>> /\ messages' = Tail(messages))
  BY DEF HandleTurnEnd, Handles, MarkTurnEnd, EndTurn, session, server
<1>2. LedgerTyped'
  <2>1. CASE HandleTurnEnd
    <3>1. PICK stop \in {"answered", "marking"}, end \in {"completed", "failed"} :
            /\ handler' = [at |-> stop, end |-> end]
            /\ mark' = mark \/ (activeDelivery # None /\ mark' = [mark EXCEPT ![activeDelivery] = "completed"])
      <4>1. /\ Head(messages).kind \in {"completed", "failed"}
            /\ LET done == Head(messages).kind
                   answer == done = "completed" /\ text # {}
               IN /\ mark' = IF answer /\ activeDelivery # None
                             THEN [mark EXCEPT ![activeDelivery] = "completed"] ELSE mark
                  /\ handler' = [at |-> IF answer /\ activeDelivery # None THEN "answered" ELSE "marking",
                                 end |-> done]
        BY <2>1 DEF HandleTurnEnd, Handles
      <4>2. PICK done \in {"completed", "failed"} : done = Head(messages).kind
        BY <4>1
      <4>3. CASE done = "completed" /\ text # {} /\ activeDelivery # None
        BY <4>1, <4>2, <4>3
      <4>4. CASE ~ (done = "completed" /\ text # {} /\ activeDelivery # None)
        BY <4>1, <4>2, <4>4
      <4>5. QED BY <4>3, <4>4
    <3>2. QED BY <3>1 DEF Typed, LedgerTyped, SessionTyped, Marks, Handlers
  <2>2. CASE MarkTurnEnd
    <3>1. /\ mark' = EndMark /\ handler' = [handler EXCEPT !.at = "marked"]
          /\ handler.end \in {"completed", "failed"} /\ handler \in Handlers
          /\ activeDelivery \in Deliveries \cup {None} /\ mark \in [Deliveries -> Marks]
      BY <2>2 DEF MarkTurnEnd, Typed, LedgerTyped, SessionTyped
    <3>2. handler' \in Handlers /\ handler'.at = "marked"
      BY <3>1 DEF Handlers
    <3>3. mark' \in [Deliveries -> Marks]
      BY <3>1 DEF EndMark, Marks
    <3>4. QED BY <3>2, <3>3 DEF LedgerTyped
  <2>3. CASE EndTurn
    BY <2>3 DEF EndTurn, Typed, LedgerTyped, Handlers, Idle
  <2>4. QED BY <2>1, <2>2, <2>3
<1>3. Typed'
  <2>1. SessionTyped'
    BY <1>1 DEF Typed, SessionTyped
  <2>2. ServerTyped'
    BY <1>1, HeadTyped DEF Typed, ServerTyped
  <2>3. FlagsTyped' /\ CountersTyped'
    BY <1>1 DEF Typed, FlagsTyped, CountersTyped
  <2>4. QED BY <1>2, <2>1, <2>2, <2>3 DEF Typed
<1>4. Waiting(prompts', stage') /\ Looping(lists', stage')
  BY <1>1, QueuesKept
<1>5. ASSUME NEW e \in Deliveries
      PROVE  Alone(requests', messages', e) /\ Fresh(requests', messages', stage'[e], took'[e], e)
  BY <1>1, Heard DEF OnItsWay
<1>6. QED BY <1>3, <1>4, <1>5 DEF Goes

-----------------------------------------------------------------------------
(* The app-server.                                                         *)

\* What an answer to the request at the head is, and what it leaves on its way.
LEMMA AnswerOf ==
  ASSUME Inv, requests # <<>>, NEW id \in Nat,
         NEW kind \in {"thread", "turn", "stale", "refused"},
         Answered(kind, id), requests' = Tail(requests)
  PROVE  /\ Head(requests) \in Requests
         /\ requests' \in Seq(Requests) /\ messages' \in Seq(Messages)
         /\ \A e \in Deliveries :
              /\ Alone(requests', messages', e)
              /\ Sent(requests', messages', e) => Sent(requests, messages, e)
              /\ Head(requests).delivery = e =>
                   /\ Sent(requests, messages, e)
                   /\ kind \notin {"stale", "refused"} => ~ Sent(requests', messages', e)
<1>1. requests \in Seq(Requests) /\ messages \in Seq(Messages)
  BY DEF Inv, Typed, ServerTyped
<1>2. Head(requests) \in Requests /\ Tail(requests) \in Seq(Requests)
  BY <1>1, TailOf
<1>3. PICK m : m = Message(kind, Head(requests), id)
  OBVIOUS
<1>4. m.kind = kind /\ m.request = Head(requests) /\ m \in Messages
  BY <1>2, <1>3 DEF Message, Messages, Answers
<1>5. messages' = Append(messages, m)
  BY <1>3 DEF Answered
<1>6. Append(messages, m) \in Seq(Messages)
  BY <1>1, <1>4, Joined
<1>7. ASSUME NEW e \in Deliveries
      PROVE  /\ Alone(Tail(requests), Append(messages, m), e)
             /\ Sent(Tail(requests), Append(messages, m), e) => Sent(requests, messages, e)
             /\ Head(requests).delivery = e =>
                  /\ Sent(requests, messages, e)
                  /\ m.kind \notin {"stale", "refused"} =>
                       ~ Sent(Tail(requests), Append(messages, m), e)
  <2>1. Alone(requests, messages, e)
    BY DEF Inv, OnItsWay
  <2>2. QED BY <1>1, <1>4, <2>1, AnswerJoins
<1>8. QED BY <1>2, <1>4, <1>5, <1>6, <1>7

\* An answer that no turn took the prompt for.
LEMMA OpenOrRefuseGoes == ASSUME Bounds, Inv, OpenThread \/ RefuseRequest PROVE Goes
<1> USE DEF Inv
<1>1. /\ requests # <<>> /\ requests' = Tail(requests)
      /\ Answered("thread", 0) \/ Answered("stale", 0) \/ Answered("refused", 0)
      /\ UNCHANGED <<up, session, ledger, turn, took, finished, exits, denied>>
      /\ refusals' = refusals \/ (refusals + exits < MaxTrouble /\ refusals' = refusals + 1)
  BY DEF OpenThread, RefuseRequest, Asks
<1>2. /\ requests' \in Seq(Requests) /\ messages' \in Seq(Messages)
      /\ \A e \in Deliveries : /\ Alone(requests', messages', e)
                               /\ Sent(requests', messages', e) => Sent(requests, messages, e)
  BY <1>1, AnswerOf
<1>3. UNCHANGED <<threadId, threadReady, activeTurn, activeDelivery, prompts, stage, lists,
                  recovered, text, handler, mark>>
  BY <1>1 DEF session, ledger
<1>4. Typed'
  <2>1. SessionTyped'
    BY <1>3 DEF Typed, SessionTyped
  <2>2. LedgerTyped'
    BY <1>3 DEF Typed, LedgerTyped
  <2>3. ServerTyped'
    BY <1>1, <1>2 DEF Typed, ServerTyped
  <2>4. FlagsTyped'
    BY <1>1, <1>3 DEF Typed, FlagsTyped
  <2>5. CountersTyped'
    BY <1>1 DEF Typed, CountersTyped, Bounds
  <2>6. QED BY <2>1, <2>2, <2>3, <2>4, <2>5 DEF Typed
<1>5. Waiting(prompts', stage') /\ Looping(lists', stage')
  BY <1>3, QueuesKept
<1>6. ASSUME NEW e \in Deliveries
      PROVE  Alone(requests', messages', e) /\ Fresh(requests', messages', stage'[e], took'[e], e)
  BY <1>1, <1>2, <1>3 DEF OnItsWay, Fresh
<1>7. QED BY <1>4, <1>5, <1>6 DEF Goes

\* A prompt that is taken is part of a turn with a number; it may be refused.
LEMMA TakesPrompt ==
  ASSUME Bounds, Inv, TakePrompt
  PROVE  \E id \in Nat \ {0} :
           LET d == Head(requests).delivery IN
           \/ Answered("refused", 0) /\ turn' = turn /\ took' = took
           \/ /\ Answered("turn", id) /\ turn' = [id |-> id, of |-> turn.of \cup {d}]
              /\ took' = [took EXCEPT ![d] = @ + 1]
<1> USE DEF Inv
<1>1. requests # <<>> /\ Head(requests).method \in {"turn/start", "turn/steer"}
  BY DEF TakePrompt, Asks
<1>2. Head(requests) \in Requests
  BY <1>1, TailOf DEF Typed, ServerTyped
<1>3. PICK d \in Deliveries : d = Head(requests).delivery
  BY <1>1, <1>2 DEF Requests
<1>4. PICK taken : taken = {e \in Deliveries : took[e] > 0}
  OBVIOUS
<1>5. taken \subseteq Deliveries /\ Cardinality(taken) \in Nat
  BY <1>4, FS_Subset, FS_CardinalityType DEF Bounds
<1>6. turn.id \in Nat /\ took[d] \in Nat
  BY DEF Typed, ServerTyped
<1>7. PICK id : id = IF turn.id # 0 THEN turn.id ELSE took[d] + Cardinality(taken) + 1
  OBVIOUS
<1>8. id \in Nat \ {0}
  BY <1>5, <1>6, <1>7
<1>9. \/ Answered("refused", 0) /\ turn' = turn /\ took' = took
      \/ /\ Answered("turn", id) /\ turn' = [id |-> id, of |-> turn.of \cup {d}]
         /\ took' = [took EXCEPT ![d] = @ + 1]
  BY <1>3, <1>4, <1>7 DEF TakePrompt
<1>10. QED BY <1>3, <1>8, <1>9

\* A turn takes the prompt: the first one, for the request was on its way.
LEMMA TakePromptGoes == ASSUME Bounds, Inv, TakePrompt PROVE Goes
<1> USE DEF Inv
<1>1. /\ requests # <<>> /\ requests' = Tail(requests)
      /\ Head(requests).method \in {"turn/start", "turn/steer"}
      /\ UNCHANGED <<up, session, ledger, finished, refusals, exits, denied>>
  BY DEF TakePrompt, Asks
<1>2. Head(requests) \in Requests
  BY <1>1, TailOf DEF Typed, ServerTyped
<1>3. PICK d \in Deliveries : d = Head(requests).delivery
  BY <1>1, <1>2 DEF Requests
<1>4. PICK id \in Nat :
        \/ Answered("refused", 0) /\ turn' = turn /\ took' = took
        \/ /\ Answered("turn", id) /\ turn' = [id |-> id, of |-> turn.of \cup {d}]
           /\ took' = [took EXCEPT ![d] = @ + 1]
  BY <1>3, TakesPrompt
<1>5. /\ requests' \in Seq(Requests) /\ messages' \in Seq(Messages)
      /\ \A e \in Deliveries :
           /\ Alone(requests', messages', e)
           /\ Sent(requests', messages', e) => Sent(requests, messages, e)
      /\ took' = took \/ (took' = [took EXCEPT ![d] = @ + 1] /\ ~ Sent(requests', messages', d))
      /\ Sent(requests, messages, d)
  <2>1. CASE Answered("refused", 0) /\ turn' = turn /\ took' = took
    BY <1>1, <1>3, <2>1, AnswerOf
  <2>2. CASE Answered("turn", id) /\ took' = [took EXCEPT ![d] = @ + 1]
    BY <1>1, <1>3, <2>2, AnswerOf
  <2>3. QED BY <1>4, <2>1, <2>2
<1>6. UNCHANGED <<threadId, threadReady, activeTurn, activeDelivery, prompts, stage, lists,
                  recovered, text, handler, mark>>
  BY <1>1 DEF session, ledger
<1>7. took[d] = 0 /\ stage[d] \notin Unsent /\ took \in [Deliveries -> Nat]
  BY <1>5 DEF OnItsWay, Fresh, Typed, ServerTyped
<1>8. Typed'
  <2>1. SessionTyped'
    BY <1>6 DEF Typed, SessionTyped
  <2>2. LedgerTyped'
    BY <1>6 DEF Typed, LedgerTyped
  <2>3. ServerTyped'
    <3>1. turn' \in [id : Nat, of : SUBSET Deliveries]
      BY <1>4 DEF Typed, ServerTyped
    <3>2. took' \in [Deliveries -> Nat]
      BY <1>5, <1>7
    <3>3. QED BY <1>5, <3>1, <3>2 DEF ServerTyped
  <2>4. FlagsTyped' /\ CountersTyped'
    BY <1>1, <1>6 DEF Typed, FlagsTyped, CountersTyped
  <2>5. QED BY <2>1, <2>2, <2>3, <2>4 DEF Typed
<1>9. Waiting(prompts', stage') /\ Looping(lists', stage')
  BY <1>6, QueuesKept
<1>10. ASSUME NEW e \in Deliveries
       PROVE  Alone(requests', messages', e) /\ Fresh(requests', messages', stage'[e], took'[e], e)
  <2>1. Fresh(requests, messages, stage[e], took[e], e)
    BY DEF OnItsWay
  <2>2. CASE took' = took
    BY <1>5, <1>6, <2>1, <2>2 DEF Fresh
  <2>3. CASE took' = [took EXCEPT ![d] = @ + 1] /\ ~ Sent(requests', messages', d)
    <3>1. CASE e = d
      <4>1. took'[e] = 1
        BY <1>7, <2>3, <3>1
      <4>2. QED BY <1>5, <1>6, <1>7, <2>3, <3>1, <4>1 DEF Fresh
    <3>2. CASE e # d
      BY <1>5, <1>6, <1>7, <2>1, <2>3, <3>2 DEF Fresh
    <3>3. QED BY <3>1, <3>2
  <2>4. QED BY <1>5, <2>2, <2>3
<1>11. QED BY <1>8, <1>9, <1>10 DEF Goes

\* The end of a turn is told with one message, or with its text before it.
LEMMA EndIsTold ==
  ASSUME Inv, FinishTurn
  PROVE  \E kind \in {"completed", "failed"}, ms \in Seq(Messages), spoken, ending \in Messages :
           /\ messages' = Append(ms, ending)
           /\ ms = messages \/ ms = Append(messages, spoken)
           /\ spoken.kind = "text" /\ ending.kind = kind
           /\ finished' = IF kind = "completed" THEN finished \cup turn.of ELSE finished
<1> USE DEF Inv
<1>1. PICK kind \in {"completed", "failed"}, said \in BOOLEAN :
        /\ finished' = IF kind = "completed" THEN finished \cup turn.of ELSE finished
        /\ messages' = messages
             \o (IF said THEN <<[kind |-> "text", request |-> turn.of, turn |-> turn.id]>> ELSE <<>>)
             \o <<Message(kind, NoRequest, turn.id)>>
  BY DEF FinishTurn
<1>2. PICK spoken, ending :
        /\ spoken = [kind |-> "text", request |-> turn.of, turn |-> turn.id]
        /\ ending = Message(kind, NoRequest, turn.id)
  OBVIOUS
<1>3. /\ spoken \in Messages /\ ending \in Messages
      /\ spoken.kind = "text" /\ ending.kind = kind
  <2>1. turn.id \in Nat /\ turn.of \subseteq Deliveries
    BY DEF Typed, ServerTyped
  <2>2. NoRequest \in Requests
    BY DEF NoRequest, Requests, Methods, None
  <2>3. spoken \in Texts
    BY <1>2, <2>1 DEF Texts
  <2>4. ending \in Answers
    BY <1>2, <2>1, <2>2 DEF Message, Answers
  <2>5. ending.kind = kind /\ spoken.kind = "text"
    BY <1>2 DEF Message
  <2>6. QED BY <2>3, <2>4, <2>5 DEF Messages
<1>4. messages \in Seq(Messages)
  BY DEF Typed, ServerTyped
<1>5. Append(messages, spoken) = messages \o <<spoken>> /\ Append(messages, spoken) \in Seq(Messages)
  BY <1>3, <1>4, AppendIsConcat, Joined
<1>6. messages \o <<>> = messages
  BY <1>4, ConcatEmptySeq
<1>7. PICK ms : ms = IF said THEN messages \o <<spoken>> ELSE messages \o <<>>
  OBVIOUS
<1>8. ms \in Seq(Messages) /\ (ms = messages \/ ms = Append(messages, spoken))
  BY <1>4, <1>5, <1>6, <1>7
<1>9. messages' = ms \o <<ending>>
  BY <1>1, <1>2, <1>7
<1>10. ms \o <<ending>> = Append(ms, ending)
  BY <1>3, <1>8, AppendIsConcat
<1>11. QED BY <1>1, <1>3, <1>8, <1>9, <1>10

\* What the session still holds does not change when a turn ends.
LEMMA FinishTurnGoes == ASSUME Bounds, Inv, FinishTurn PROVE Goes
<1> USE DEF Inv
<1>1. /\ turn' = NoTurn
      /\ UNCHANGED <<up, session, ledger, requests, took, refusals, exits, denied>>
  BY DEF FinishTurn
<1>2. requests \in Seq(Requests) /\ messages \in Seq(Messages)
  BY DEF Typed, ServerTyped
<1>3. PICK ms \in Seq(Messages), spoken, ending \in Messages :
        /\ messages' = Append(ms, ending)
        /\ ms = messages \/ ms = Append(messages, spoken)
        /\ spoken.kind \notin {"stale", "refused"} /\ ending.kind \notin {"stale", "refused"}
  BY EndIsTold
<1>4. spoken \in Messages /\ ending \in Messages
      /\ spoken.kind \notin {"stale", "refused"} /\ ending.kind \notin {"stale", "refused"}
  BY <1>3
<1>5. UNCHANGED <<threadId, threadReady, activeTurn, activeDelivery, prompts, stage, lists,
                  recovered, text, handler, mark>>
  BY <1>1 DEF session, ledger
<1>6. Typed'
  <2>1. SessionTyped'
    BY <1>5 DEF Typed, SessionTyped
  <2>2. LedgerTyped'
    BY <1>5 DEF Typed, LedgerTyped
  <2>3. ServerTyped'
    <3>1. messages' \in Seq(Messages)
      BY <1>4, <1>3, Joined
    <3>2. NoTurn \in [id : Nat, of : SUBSET Deliveries]
      BY DEF NoTurn
    <3>3. QED BY <1>1, <3>1, <3>2 DEF Typed, ServerTyped
  <2>4. FlagsTyped' /\ CountersTyped'
    BY <1>1, <1>5 DEF Typed, FlagsTyped, CountersTyped
  <2>5. QED BY <2>1, <2>2, <2>3, <2>4 DEF Typed
<1>7. Waiting(prompts', stage') /\ Looping(lists', stage')
  BY <1>5, QueuesKept
<1>8. ASSUME NEW e \in Deliveries
       PROVE  Alone(requests', messages', e) /\ Fresh(requests', messages', stage'[e], took'[e], e)
  <2>1. Alone(requests, messages, e) /\ Fresh(requests, messages, stage[e], took[e], e)
    BY DEF OnItsWay
  <2>2. Alone(requests, ms, e) /\ (Sent(requests, ms, e) => Sent(requests, messages, e))
    BY <1>4, <1>2, <1>3, <2>1, NewsJoins
  <2>3. /\ Alone(requests, Append(ms, ending), e)
        /\ Sent(requests, Append(ms, ending), e) => Sent(requests, ms, e)
    BY <1>4, <1>2, <2>2, NewsJoins
  <2>4. QED BY <1>1, <1>3, <1>5, <2>1, <2>2, <2>3 DEF Fresh
<1>9. QED BY <1>6, <1>7, <1>8 DEF Goes

\* What the app-server had not read is lost.
LEMMA ExitGoes == ASSUME Bounds, Inv, Exit PROVE Goes
<1> USE DEF Inv
<1>1. /\ refusals + exits < MaxTrouble /\ exits' = exits + 1 /\ up' = FALSE
      /\ requests' = <<>> /\ turn' = NoTurn
      /\ UNCHANGED <<session, ledger, messages, took, finished, refusals, denied>>
  BY DEF Exit
<1>2. UNCHANGED <<threadId, threadReady, activeTurn, activeDelivery, prompts, stage, lists,
                  recovered, text, handler, mark>>
  BY <1>1 DEF session, ledger
<1>3. Typed'
  <2>1. SessionTyped'
    BY <1>2 DEF Typed, SessionTyped
  <2>2. LedgerTyped'
    BY <1>2 DEF Typed, LedgerTyped
  <2>3. ServerTyped'
    <3>1. NoTurn \in [id : Nat, of : SUBSET Deliveries] /\ <<>> \in Seq(Requests)
      BY DEF NoTurn
    <3>2. QED BY <1>1, <3>1 DEF Typed, ServerTyped
  <2>4. CountersTyped'
    BY <1>1 DEF Typed, CountersTyped, Bounds
  <2>5. FlagsTyped'
    BY <1>1, <1>2 DEF Typed, FlagsTyped
  <2>6. QED BY <2>1, <2>2, <2>3, <2>4, <2>5 DEF Typed
<1>4. Waiting(prompts', stage') /\ Looping(lists', stage')
  BY <1>2, QueuesKept
<1>5. ASSUME NEW e \in Deliveries
      PROVE  Alone(requests', messages', e) /\ Fresh(requests', messages', stage'[e], took'[e], e)
  BY <1>1, <1>2, RequestsGone DEF OnItsWay, Fresh
<1>6. QED BY <1>3, <1>4, <1>5 DEF Goes

-----------------------------------------------------------------------------
(* The story of a delivery that is the session's only one, while the       *)
(* app-server has not exited: one thing at a time is on its way, so that   *)
(* the session knows whose turn it is that ends.                           *)

\* d is the session's only delivery.
Only(d) == exits = 0 /\ \A e \in Deliveries \ {d} : stage[e] = "new"

Single(s) == s # <<>> /\ Tail(s) = <<>>
Silent == requests = <<>> /\ messages = <<>>

\* A thread is asked for, given or refused; the prompt waits for it.
Opening(d) ==
  /\ turn.id = 0 /\ d \notin finished /\ handler = Idle /\ ~ threadReady
  /\ stage[d] \in {"new", "prompt"} /\ (stage[d] = "prompt" => prompts # <<>>)
  /\ \/ Silent
     \/ /\ Single(requests) /\ messages = <<>>
        /\ Head(requests).method \in {"thread/start", "thread/resume"}
        /\ Head(requests).delivery = None
     \/ /\ Single(messages) /\ requests = <<>>
        /\ Head(messages).kind \in {"thread", "stale", "refused"} /\ Asked.delivery = None

\* There is a thread, and nothing is on its way; the prompt may be under way to
\* its request.
Ready(d) ==
  /\ turn.id = 0 /\ d \notin finished /\ threadReady /\ Silent
  /\ stage[d] \in {"new", "images"}
  /\ stage[d] = "new" => handler = Idle
  /\ stage[d] = "images" =>
       activeDelivery = d /\ (handler = Idle \/ handler = [at |-> "prompts", end |-> d])

\* The prompt is requested, or given back.
Requested(d) ==
  /\ turn.id = 0 /\ d \notin finished /\ handler = Idle
  /\ activeDelivery = d /\ stage[d] = "asked"
  /\ \/ /\ Single(requests) /\ messages = <<>>
        /\ Head(requests).method \in {"turn/start", "turn/steer"} /\ Head(requests).delivery = d
     \/ /\ Single(messages) /\ requests = <<>>
        /\ Head(messages).kind \in {"stale", "refused"} /\ Asked.delivery = d

\* A turn has the prompt.
Running(d) ==
  /\ turn.id # 0 /\ d \notin finished /\ handler = Idle
  /\ activeDelivery = d /\ stage[d] \in {"asked", "taken"}
  /\ requests = <<>> /\ \A i \in DOMAIN messages : messages[i].kind = "turn"

\* The turn has ended, which is the last message ms of the app-server.
Told(ms, ends) ==
  /\ ms # <<>>
  /\ \A i \in DOMAIN ms : ms[i].kind \in IF i = Len(ms) THEN ends ELSE {"turn", "text"}
Ending(d) ==
  /\ turn.id = 0 /\ handler = Idle
  /\ activeDelivery = d /\ stage[d] \in {"asked", "taken"} /\ requests = <<>>
  /\ Told(messages, IF d \in finished THEN {"completed"} ELSE {"completed", "failed"})

\* The ledger is told of the end.
Marking(d) ==
  /\ turn.id = 0 /\ Silent /\ activeDelivery = d /\ stage[d] \in {"asked", "taken"}
  /\ handler.at \in {"answered", "marking", "marked"}
  /\ d \in finished =>
       handler.end = "completed" /\ (handler.at = "marked" => mark[d] = "completed")

\* Nothing more happens.
Over(d) ==
  /\ turn.id = 0 /\ Silent /\ handler = Idle /\ stage[d] \in {"asked", "taken", "refused"}
  /\ d \in finished => mark[d] = "completed"

Story(d) ==
  \/ Opening(d) \/ Ready(d) \/ Requested(d) \/ Running(d) \/ Ending(d) \/ Marking(d) \/ Over(d)

Stories ==
  /\ finished \subseteq Deliveries
  /\ exits = 0 => up
  /\ \A d \in Deliveries : Only(d) => Story(d)

\* A queue of one.
LEMMA SingleIs ==
  ASSUME NEW x
  PROVE  Append(<<>>, x) = <<x>> /\ Single(<<x>>) /\ Head(<<x>>) = x
BY DEF Single

\* What a session with one delivery holds of it.
LEMMA OnlyHolds ==
  ASSUME Inv, NEW d \in Deliveries, Only(d), stage[d] # "listed"
  PROVE  /\ stage[d] # "prompt" => prompts = <<>>
         /\ prompts # <<>> => prompts[1] = d /\ Tail(prompts) = <<>>
         /\ \A e \in Deliveries : lists[e] = <<>>
<1> USE DEF Inv
<1>1. prompts \in Seq(Deliveries) /\ lists \in [Deliveries -> Seq(Deliveries)]
  BY DEF Typed, SessionTyped
<1>2. \A i \in DOMAIN prompts : prompts[i] \in Deliveries /\ prompts[i] = d /\ stage[d] = "prompt"
  <2>1. \A i \in DOMAIN prompts : prompts[i] \in Deliveries
    BY <1>1, ElementOfSeq, LenProperties
  <2>2. QED BY <2>1 DEF Waiting, Only
<1>3. prompts # <<>> => 1 \in DOMAIN prompts
  BY <1>1, TailOf
<1>4. ASSUME prompts # <<>> PROVE Tail(prompts) = <<>>
  <2>1. \A i \in DOMAIN Tail(prompts) : FALSE
    BY <1>1, <1>2, <1>4, TailOf DEF Waiting
  <2>2. Tail(prompts) \in Seq(Deliveries)
    BY <1>1, <1>4, TailOf
  <2>3. QED BY <2>1, <2>2, TailOf
<1>5. ASSUME NEW e \in Deliveries, lists[e] # <<>> PROVE FALSE
  <2>1. lists[e] \in Seq(Deliveries)
    BY <1>1
  <2>2. 1 \in DOMAIN lists[e] /\ lists[e][1] \in Deliveries
    BY <1>5, <2>1, TailOf
  <2>3. stage[lists[e][1]] = "listed"
    BY <2>2 DEF Looping
  <2>4. QED BY <2>2, <2>3 DEF Only
<1>6. QED BY <1>2, <1>3, <1>4, <1>5

\* No delivery is new again.
LEMMA NewBefore ==
  ASSUME Bounds, Inv, Next, NEW d \in Deliveries, Only(d)'
  PROVE  Only(d) /\ exits' = exits
<1> USE DEF Inv
<1>1. stage \in [Deliveries -> Stages] /\ exits \in Nat /\ Idle # [at |-> "prompts", end |-> d]
  BY DEF Typed, SessionTyped, CountersTyped, Idle
<1>2. exits' = exits
  <2>1. CASE Exit
    BY <1>1, <2>1 DEF Exit, Only
  <2>2. CASE ~ Exit
    BY <2>2 DEF Next, Daemon, Handle, AppServer, Deliver, Start, StartTurn, HandleThread,
       HandleTurn, HandleDelta, RecoverMissingThread, HandleRefusal, HandleTurnEnd, MarkTurnEnd,
       EndTurn, OpenThread, TakePrompt, FinishTurn, RefuseRequest, server
  <2>3. QED BY <2>1, <2>2
<1>3. ASSUME NEW e \in Deliveries, stage'[e] = "new" PROVE stage[e] = "new"
  <2>1. CASE \E f \in Deliveries : Deliver(f) \/ Start(f)
    BY <1>1, <1>3, <2>1 DEF Deliver, Start
  <2>2. CASE \E f \in Deliveries : StartTurn(f)
    <3>1. PICK f \in Deliveries, phase \in {"asked", "dropped"} : stage' = StagesAfter(f, phase)
      BY <2>2 DEF StartTurn
    <3>2. QED BY <1>3, <3>1 DEF StagesAfter
  <2>3. CASE HandleThread
    BY <1>3, <2>3 DEF HandleThread
  <2>4. CASE HandleTurn \/ RecoverMissingThread \/ HandleRefusal
    BY <1>1, <1>3, <2>4 DEF HandleTurn, RecoverMissingThread, HandleRefusal
  <2>5. CASE UNCHANGED stage
    BY <1>3, <2>5
  <2>6. QED BY <2>1, <2>2, <2>3, <2>4, <2>5 DEF Next, Daemon, Handle, AppServer, HandleDelta,
        HandleTurnEnd, MarkTurnEnd, EndTurn, OpenThread, TakePrompt, FinishTurn, RefuseRequest,
        Exit, session
<1>4. QED BY <1>2, <1>3 DEF Only

\* It is delivered: it waits for the thread, or is under way.
LEMMA DeliverTells ==
  ASSUME Inv, up, NEW d \in Deliveries, Only(d), Story(d),
         NEW e \in Deliveries, Deliver(e), Only(d)'
  PROVE  Story(d)'
<1>1. stage \in [Deliveries -> Stages] /\ prompts \in Seq(Deliveries)
  BY DEF Inv, Typed, SessionTyped
<1>2. stage' = [stage EXCEPT ![e] = IF threadReady THEN "images" ELSE "prompt"]
  BY DEF Deliver
<1>3. e = d /\ stage[d] = "new"
  BY <1>1, <1>2 DEF Deliver, Only
<1>4. UNCHANGED <<threadReady, handler, requests, messages, turn, finished>>
  BY DEF Deliver, ledger, server
<1>5. CASE Opening(d)
  <2>1. prompts' = Append(prompts, d) /\ stage'[d] = "prompt"
    BY <1>1, <1>2, <1>3, <1>5 DEF Opening, Deliver
  <2>2. Append(prompts, d) # <<>>
    BY <1>1, AppendProperties, EmptySeq
  <2>3. Opening(d)'
    BY <1>4, <1>5, <2>1, <2>2 DEF Opening, Silent, Single, Asked
  <2>4. QED BY <2>3 DEF Story
<1>6. CASE Ready(d)
  <2>1. activeDelivery' = d /\ stage'[d] = "images"
    BY <1>1, <1>2, <1>3, <1>6 DEF Ready, Deliver
  <2>2. Ready(d)'
    BY <1>3, <1>4, <1>6, <2>1 DEF Ready, Silent
  <2>3. QED BY <2>2 DEF Story
<1>7. QED BY <1>3, <1>5, <1>6 DEF Story, Requested, Running, Ending, Marking, Over

\* Its request is sent.
LEMMA StartTurnTells ==
  ASSUME Inv, up, NEW d \in Deliveries, Only(d), Story(d),
         NEW e \in Deliveries, StartTurn(e)
  PROVE  Story(d)'
<1>1. stage \in [Deliveries -> Stages] /\ lists \in [Deliveries -> Seq(Deliveries)]
  BY DEF Inv, Typed, SessionTyped
<1>2. e = d /\ stage[d] = "images"
  BY DEF StartTurn, Only
<1>3. Ready(d)
  BY <1>2 DEF Story, Opening, Requested, Running, Ending, Marking, Over
<1>4. lists[d] = <<>>
  BY <1>2, OnlyHolds
<1>5. Rest(d) = <<>>
  BY <1>4 DEF Rest
<1>6. PICK r : /\ r = (IF activeTurn # 0 THEN Request("turn/steer", d, activeTurn)
                                       ELSE Request("turn/start", d, 0))
               /\ requests' = Append(requests, r)
  BY <1>2 DEF StartTurn, SendPrompt
<1>7. r.method \in {"turn/start", "turn/steer"} /\ r.delivery = d
  BY <1>6 DEF Request
<1>8. Single(requests') /\ Head(requests') = r /\ messages' = <<>>
  BY <1>3, <1>6, SingleIs DEF Ready, Silent, StartTurn
<1>9. stage'[d] = "asked"
  BY <1>2 DEF StartTurn, StagesAfter
<1>10. activeDelivery' = d /\ handler' = Idle
  BY <1>2, <1>3, <1>5 DEF StartTurn, Ready
<1>11. UNCHANGED <<turn, finished>>
  BY DEF StartTurn
<1>12. Requested(d)'
  BY <1>3, <1>7, <1>8, <1>9, <1>10, <1>11 DEF Requested, Ready
<1>13. QED BY <1>12 DEF Story

\* The thread is there: the prompt that waits is taken up.
LEMMA HandleThreadTells ==
  ASSUME Inv, NEW d \in Deliveries, Only(d), Story(d), HandleThread
  PROVE  Story(d)'
<1>1. handler = Idle /\ messages # <<>> /\ Head(messages).kind = "thread"
      /\ messages' = Tail(messages) /\ threadReady' = TRUE
      /\ UNCHANGED <<requests, turn, finished>>
  BY DEF HandleThread, Handles
<1>2. Head(messages) = messages[1] /\ 1 \in DOMAIN messages
  BY <1>1, TailOf DEF Inv, Typed, ServerTyped
<1>3. Opening(d)
  BY <1>1, <1>2 DEF Story, Ready, Requested, Running, Ending, Told, Marking, Over, Silent
<1>4. Silent'
  BY <1>1, <1>3 DEF Opening, Silent, Single
<1>5. stage[d] # "listed" /\ stage \in [Deliveries -> Stages] /\ prompts \in Seq(Deliveries)
  BY <1>3 DEF Opening, Inv, Typed, SessionTyped
<1>6. CASE prompts = <<>>
  <2>1. UNCHANGED <<stage, handler>> /\ stage[d] = "new"
    BY <1>3, <1>6 DEF HandleThread, Opening
  <2>2. Ready(d)'
    BY <1>1, <1>3, <1>4, <2>1 DEF Opening, Ready
  <2>3. QED BY <2>2 DEF Story
<1>7. CASE prompts # <<>>
  <2>1. prompts[1] = d
    BY <1>5, <1>7, OnlyHolds
  <2>2. stage'[d] = "images" /\ activeDelivery' = d /\ handler' = [at |-> "prompts", end |-> d]
    BY <1>7, <2>1 DEF HandleThread
  <2>3. Ready(d)'
    BY <1>1, <1>3, <1>4, <2>2 DEF Opening, Ready
  <2>4. QED BY <2>3 DEF Story
<1>8. QED BY <1>6, <1>7

\* The session hears of the turn, or a part of the answer.
LEMMA NewsTells ==
  ASSUME Inv, NEW d \in Deliveries, Only(d), Story(d), HandleTurn \/ HandleDelta
  PROVE  Story(d)'
<1>1. /\ handler = Idle /\ messages # <<>> /\ Head(messages).kind \in {"turn", "text"}
      /\ messages' = Tail(messages)
      /\ UNCHANGED <<threadReady, activeDelivery, requests, turn, finished, handler>>
  BY DEF HandleTurn, HandleDelta, Handles, ledger
<1>2. stage \in [Deliveries -> Stages] /\ messages \in Seq(Messages)
  BY DEF Inv, Typed, SessionTyped, ServerTyped
<1>3. /\ Head(messages) = messages[1] /\ 1 \in DOMAIN messages
      /\ \A i \in DOMAIN Tail(messages) :
           i \in Nat /\ i + 1 \in DOMAIN messages /\ Tail(messages)[i] = messages[i + 1]
  BY <1>1, <1>2, TailOf
<1>4. stage[d] \in {"asked", "taken"} => stage'[d] \in {"asked", "taken"}
  BY <1>2 DEF HandleTurn, HandleDelta
<1>5. Running(d) \/ Ending(d)
  BY <1>1, <1>3 DEF Story, Opening, Ready, Requested, Marking, Over, Silent
<1>6. CASE Running(d)
  <2>1. \A i \in DOMAIN messages' : messages'[i].kind = "turn"
    BY <1>1, <1>3, <1>6 DEF Running
  <2>2. Running(d)'
    BY <1>1, <1>4, <1>6, <2>1 DEF Running
  <2>3. QED BY <2>2 DEF Story
<1>7. CASE Ending(d)
  <2>1. PICK ends : /\ ends = (IF d \in finished THEN {"completed"} ELSE {"completed", "failed"})
                    /\ Told(messages, ends)
    BY <1>7 DEF Ending
  <2>2. Len(messages) \in Nat /\ Len(Tail(messages)) = Len(messages) - 1
        /\ DOMAIN messages = 1 .. Len(messages) /\ Tail(messages) \in Seq(Messages)
    BY <1>1, <1>2, HeadTailProperties, LenProperties
  <2>3. Len(messages) # 1
    BY <1>1, <1>3, <2>1 DEF Told
  <2>4. Tail(messages) # <<>>
    <3>1. Len(Tail(messages)) # 0
      BY <2>2, <2>3
    <3>2. QED BY <3>1, EmptySeq
  <2>5. Told(Tail(messages), ends)
    BY <1>3, <2>1, <2>2, <2>4 DEF Told
  <2>6. Told(messages', IF d \in finished' THEN {"completed"} ELSE {"completed", "failed"})
    BY <1>1, <2>1, <2>5
  <2>7. Ending(d)'
    BY <1>1, <1>4, <1>7, <2>6 DEF Ending
  <2>8. QED BY <2>7 DEF Story
<1>8. QED BY <1>5, <1>6, <1>7

\* The thread is lost: another is asked for, and the prompt waits for it.
LEMMA RecoverTells ==
  ASSUME Bounds, Inv, up, NEW d \in Deliveries, Only(d), Story(d), RecoverMissingThread
  PROVE  Story(d)'
<1>1. /\ handler = Idle /\ messages # <<>> /\ Head(messages).kind = "stale"
      /\ messages' = Tail(messages) /\ threadReady' = FALSE
      /\ UNCHANGED <<turn, finished, handler>>
  BY DEF RecoverMissingThread, NewThread, Handles, ledger
<1>2. Head(messages) = messages[1] /\ 1 \in DOMAIN messages
  BY <1>1, TailOf DEF Inv, Typed, ServerTyped
<1>3. stage \in [Deliveries -> Stages] /\ prompts \in Seq(Deliveries)
  BY DEF Inv, Typed, SessionTyped
<1>4. Opening(d) \/ Requested(d)
  BY <1>1, <1>2 DEF Story, Ready, Running, Ending, Told, Marking, Over, Silent
<1>5. requests = <<>> /\ Tail(messages) = <<>> /\ d \notin finished /\ turn.id = 0
  BY <1>1, <1>4 DEF Opening, Requested, Silent, Single
<1>6. PICK r : r = ThreadOpen(FALSE)
  OBVIOUS
<1>7. requests' = <<r>> /\ r.method = "thread/start" /\ r.delivery = None
  BY <1>5, <1>6, SingleIs DEF RecoverMissingThread, NewThread, ThreadOpen
<1>8. stage'[d] \in {"new", "prompt"} /\ (stage'[d] = "prompt" => prompts' # <<>>)
  <2>1. CASE Opening(d)
    <3>1. Asked.delivery = None
      BY <1>1, <2>1 DEF Opening, Silent
    <3>2. UNCHANGED <<stage, prompts>>
      BY <3>1 DEF RecoverMissingThread
    <3>3. QED BY <2>1, <3>2 DEF Opening
  <2>2. CASE Requested(d)
    <3>1. Asked.delivery = d /\ d # None
      BY <1>1, <2>2 DEF Requested, Bounds
    <3>2. prompts' = <<d>> \o prompts /\ stage'[d] = "prompt"
      BY <1>3, <3>1 DEF RecoverMissingThread
    <3>3. <<d>> \o prompts # <<>>
      <4>1. Len(<<d>> \o prompts) = 1 + Len(prompts) /\ Len(prompts) \in Nat /\ Len(<<>>) = 0
        BY <1>3
      <4>2. QED BY <4>1
    <3>4. QED BY <3>2, <3>3
  <2>3. QED BY <1>4, <2>1, <2>2
<1>9. Opening(d)'
  BY <1>1, <1>5, <1>7, <1>8, SingleIs DEF Opening
<1>10. QED BY <1>9 DEF Story

\* A refusal ends it, or leaves it without a thread.
LEMMA HandleRefusalTells ==
  ASSUME Inv, NEW d \in Deliveries, Only(d), Story(d), HandleRefusal
  PROVE  Story(d)'
<1>1. /\ handler = Idle /\ messages # <<>> /\ Head(messages).kind \in {"stale", "refused"}
      /\ messages' = Tail(messages)
      /\ UNCHANGED <<threadReady, requests, turn, finished, handler, prompts>>
  BY DEF HandleRefusal, Handles
<1>2. Head(messages) = messages[1] /\ 1 \in DOMAIN messages
  BY <1>1, TailOf DEF Inv, Typed, ServerTyped
<1>3. stage \in [Deliveries -> Stages]
  BY DEF Inv, Typed, SessionTyped
<1>4. Opening(d) \/ Requested(d)
  BY <1>1, <1>2 DEF Story, Ready, Running, Ending, Told, Marking, Over, Silent
<1>5. Silent' /\ d \notin finished /\ turn.id = 0
  BY <1>1, <1>4 DEF Opening, Requested, Silent, Single
<1>6. CASE Opening(d)
  <2>1. Asked.delivery = None
    BY <1>1, <1>6 DEF Opening, Silent
  <2>2. UNCHANGED stage
    BY <2>1 DEF HandleRefusal
  <2>3. Opening(d)'
    BY <1>1, <1>5, <1>6, <2>2 DEF Opening
  <2>4. QED BY <2>3 DEF Story
<1>7. CASE Requested(d)
  <2>1. Asked.delivery = d
    BY <1>1, <1>7 DEF Requested
  <2>2. stage'[d] \in {"asked", "refused"}
    BY <1>3, <1>7, <2>1 DEF HandleRefusal, Requested
  <2>3. Over(d)'
    BY <1>1, <1>5, <2>2 DEF Over
  <2>4. QED BY <2>3 DEF Story
<1>8. QED BY <1>4, <1>6, <1>7

\* The end of the turn is the end of the active delivery, and so are its marks.
LEMMA TurnEndTells ==
  ASSUME Bounds, Inv, NEW d \in Deliveries, Only(d), Story(d),
         HandleTurnEnd \/ MarkTurnEnd \/ EndTurn
  PROVE  Story(d)'
<1>1. handler \in Handlers /\ mark \in [Deliveries -> Marks] /\ d # None /\ messages \in Seq(Messages)
  BY DEF Inv, Typed, LedgerTyped, ServerTyped, Bounds
<1>2. CASE HandleTurnEnd
  <2>1. /\ handler = Idle /\ messages # <<>> /\ Head(messages).kind \in {"completed", "failed"}
        /\ messages' = Tail(messages) /\ handler'.at \in {"answered", "marking"}
        /\ handler'.end = Head(messages).kind
        /\ UNCHANGED <<stage, activeDelivery, requests, turn, finished>>
    BY <1>2 DEF HandleTurnEnd, Handles, session
  <2>2. /\ Head(messages) = messages[1] /\ 1 \in DOMAIN messages
        /\ Len(messages) \in Nat /\ DOMAIN messages = 1 .. Len(messages)
        /\ Len(Tail(messages)) = Len(messages) - 1 /\ Tail(messages) \in Seq(Messages)
    BY <1>1, <2>1, TailOf, HeadTailProperties, LenProperties
  <2>3. Ending(d)
    BY <2>1, <2>2 DEF Story, Opening, Ready, Requested, Running, Marking, Over, Silent
  <2>4. Len(messages) = 1 /\ (d \in finished => Head(messages).kind = "completed")
    BY <2>1, <2>2, <2>3 DEF Ending, Told
  <2>5. messages' = <<>>
    BY <2>1, <2>2, <2>4, EmptySeq
  <2>6. Marking(d)'
    BY <2>1, <2>3, <2>4, <2>5 DEF Ending, Marking, Silent
  <2>7. QED BY <2>6 DEF Story
<1>3. CASE MarkTurnEnd
  <2>1. /\ handler.at \in {"answered", "marking"} /\ handler' = [handler EXCEPT !.at = "marked"]
        /\ mark' = EndMark
        /\ UNCHANGED <<stage, activeDelivery, requests, messages, turn, finished>>
    BY <1>3 DEF MarkTurnEnd, session, server
  <2>2. Marking(d)
    BY <2>1 DEF Story, Opening, Ready, Requested, Running, Ending, Over, Idle
  <2>3. handler'.at = "marked" /\ handler'.end = handler.end
    BY <1>1, <2>1 DEF Handlers
  <2>4. mark'[d] = handler.end
    BY <1>1, <2>1, <2>2 DEF Marking, EndMark
  <2>5. Marking(d)'
    BY <2>1, <2>2, <2>3, <2>4 DEF Marking, Silent
  <2>6. QED BY <2>5 DEF Story
<1>4. CASE EndTurn
  <2>1. /\ handler.at = "marked" /\ handler' = Idle
        /\ UNCHANGED <<stage, mark, requests, messages, turn, finished>>
    BY <1>4 DEF EndTurn, server
  <2>2. Marking(d)
    BY <2>1 DEF Story, Opening, Ready, Requested, Running, Ending, Over, Idle
  <2>3. Over(d)'
    BY <2>1, <2>2 DEF Marking, Over, Silent
  <2>4. QED BY <2>3 DEF Story
<1>5. QED BY <1>2, <1>3, <1>4

\* The only request is answered: the answer is the only message.
LEMMA AnsweredAlone ==
  ASSUME NEW kind, NEW id, Single(requests), messages = <<>>,
         Answered(kind, id), requests' = Tail(requests)
  PROVE  /\ requests' = <<>> /\ Single(messages') /\ messages' = <<Head(messages')>>
         /\ Head(messages').kind = kind /\ Head(messages').request = Head(requests)
<1>1. PICK m : m = Message(kind, Head(requests), id)
  OBVIOUS
<1>2. m.kind = kind /\ m.request = Head(requests)
  BY <1>1 DEF Message
<1>3. messages' = <<m>>
  BY <1>1, SingleIs DEF Answered
<1>4. QED BY <1>2, <1>3, SingleIs DEF Single

\* The thread is opened, or the request is refused.
LEMMA OpenOrRefuseTells ==
  ASSUME Inv, NEW d \in Deliveries, Only(d), Story(d), OpenThread \/ RefuseRequest
  PROVE  Story(d)'
<1>1. PICK kind \in {"thread", "stale", "refused"} :
        /\ requests # <<>> /\ requests' = Tail(requests) /\ Answered(kind, 0)
        /\ kind = "thread" => Head(requests).method \in {"thread/start", "thread/resume"}
        /\ UNCHANGED <<up, session, ledger, turn, took, finished, exits>>
  BY DEF OpenThread, RefuseRequest, Asks
<1>2. UNCHANGED <<threadReady, activeDelivery, prompts, stage, handler>>
  BY <1>1 DEF session, ledger
<1>3. Opening(d) \/ Requested(d)
  BY <1>1 DEF Story, Ready, Running, Ending, Marking, Over, Silent
<1>4. Single(requests) /\ messages = <<>>
  BY <1>1, <1>3 DEF Opening, Requested, Silent
<1>5. /\ requests' = <<>> /\ Single(messages')
      /\ Head(messages').kind = kind /\ Head(messages').request = Head(requests)
  BY <1>1, <1>4, AnsweredAlone
<1>6. CASE Opening(d)
  <2>1. Head(requests).delivery = None
    BY <1>1, <1>4, <1>6 DEF Opening, Silent, Single
  <2>2. Opening(d)'
    BY <1>1, <1>2, <1>5, <1>6, <2>1 DEF Opening, Asked
  <2>3. QED BY <2>2 DEF Story
<1>7. CASE Requested(d)
  <2>1. Head(requests).delivery = d /\ kind \in {"stale", "refused"}
    BY <1>1, <1>4, <1>7 DEF Requested, Single
  <2>2. Requested(d)'
    BY <1>1, <1>2, <1>5, <1>7, <2>1 DEF Requested, Asked
  <2>3. QED BY <2>2 DEF Story
<1>8. QED BY <1>3, <1>6, <1>7

\* A turn takes the prompt, or it comes back.
LEMMA TakePromptTells ==
  ASSUME Bounds, Inv, NEW d \in Deliveries, Only(d), Story(d), TakePrompt
  PROVE  Story(d)'
<1>1. /\ requests # <<>> /\ requests' = Tail(requests)
      /\ Head(requests).method \in {"turn/start", "turn/steer"}
      /\ UNCHANGED <<up, session, ledger, finished, refusals, exits, denied>>
  BY DEF TakePrompt, Asks
<1>2. UNCHANGED <<threadReady, activeDelivery, prompts, stage, handler>>
  BY <1>1 DEF session, ledger
<1>3. Requested(d)
  BY <1>1 DEF Story, Opening, Ready, Running, Ending, Marking, Over, Silent
<1>4. Single(requests) /\ messages = <<>> /\ Head(requests).delivery = d
  BY <1>1, <1>3 DEF Requested, Single
<1>5. PICK id \in Nat \ {0} :
        \/ Answered("refused", 0) /\ turn' = turn
        \/ Answered("turn", id) /\ turn' = [id |-> id, of |-> turn.of \cup {Head(requests).delivery}]
  BY TakesPrompt
<1>6. CASE Answered("refused", 0) /\ turn' = turn
  <2>1. /\ requests' = <<>> /\ Single(messages')
        /\ Head(messages').kind = "refused" /\ Head(messages').request = Head(requests)
    BY <1>1, <1>4, <1>6, AnsweredAlone
  <2>2. Requested(d)'
    BY <1>1, <1>2, <1>3, <1>4, <1>6, <2>1 DEF Requested, Asked
  <2>3. QED BY <2>2 DEF Story
<1>7. CASE Answered("turn", id) /\ turn'.id = id
  <2>1. /\ requests' = <<>> /\ messages' = <<Head(messages')>> /\ Head(messages').kind = "turn"
    BY <1>1, <1>4, <1>7, AnsweredAlone
  <2>2. \A i \in DOMAIN messages' : messages'[i].kind = "turn"
    <3>1. PICK m : m = Head(messages')
      OBVIOUS
    <3>2. messages' = <<m>> /\ m.kind = "turn"
      BY <2>1, <3>1
    <3>3. \A i \in DOMAIN <<m>> : <<m>>[i] = m
      OBVIOUS
    <3>4. QED BY <3>2, <3>3
  <2>3. Running(d)'
    BY <1>1, <1>2, <1>3, <1>7, <2>1, <2>2 DEF Running, Requested
  <2>4. QED BY <2>3 DEF Story
<1>8. QED BY <1>5, <1>6, <1>7

\* The turn ends, and its end is the last the session hears.
LEMMA FinishTurnTells ==
  ASSUME Inv, NEW d \in Deliveries, Only(d), Story(d), FinishTurn
  PROVE  Story(d)'
<1>1. /\ turn.id # 0 /\ turn' = NoTurn
      /\ UNCHANGED <<up, session, ledger, requests, took, refusals, exits, denied>>
  BY DEF FinishTurn
<1>2. UNCHANGED <<activeDelivery, stage, handler>> /\ turn'.id = 0
  BY <1>1 DEF session, ledger, NoTurn
<1>3. Running(d)
  BY <1>1 DEF Story, Opening, Ready, Requested, Ending, Marking, Over
<1>4. PICK kind \in {"completed", "failed"}, ms \in Seq(Messages), spoken, ending \in Messages :
        /\ messages' = Append(ms, ending)
        /\ ms = messages \/ ms = Append(messages, spoken)
        /\ spoken.kind = "text" /\ ending.kind = kind
        /\ finished' = IF kind = "completed" THEN finished \cup turn.of ELSE finished
  BY EndIsTold
<1>5. PICK ends : ends = IF d \in finished' THEN {"completed"} ELSE {"completed", "failed"}
  OBVIOUS
<1>6. kind \in ends
  BY <1>3, <1>4, <1>5 DEF Running
<1>7. messages \in Seq(Messages)
  BY DEF Inv, Typed, ServerTyped
<1>8. \A i \in DOMAIN ms : ms[i].kind \in {"turn", "text"}
  <2>1. \A i \in DOMAIN messages : messages[i].kind = "turn"
    BY <1>3 DEF Running
  <2>2. CASE ms = messages
    BY <2>1, <2>2
  <2>3. CASE ms = Append(messages, spoken)
    <3>1. \A i \in DOMAIN Append(messages, spoken) :
            \/ i \in DOMAIN messages /\ Append(messages, spoken)[i] = messages[i]
            \/ Append(messages, spoken)[i] = spoken
      BY <1>4, <1>7, Joined
    <3>2. QED BY <1>4, <2>1, <2>3, <3>1
  <2>4. QED BY <1>4, <2>2, <2>3
<1>9. Told(Append(ms, ending), ends)
  <2>1. PICK more : more = Append(ms, ending)
    OBVIOUS
  <2>2. /\ Len(ms) \in Nat /\ DOMAIN ms = 1 .. Len(ms)
        /\ more \in Seq(Messages) /\ Len(more) = Len(ms) + 1
        /\ \A i \in 1 .. Len(ms) : more[i] = ms[i]
        /\ more[Len(ms) + 1] = ending
    BY <2>1, AppendProperties, LenProperties
  <2>3. DOMAIN more = 1 .. Len(ms) + 1
    BY <2>2, LenProperties
  <2>4. more # <<>>
    BY <2>2, EmptySeq
  <2>5. ASSUME NEW i \in DOMAIN more
        PROVE  more[i].kind \in IF i = Len(more) THEN ends ELSE {"turn", "text"}
    <3>1. CASE i = Len(more)
      BY <1>4, <1>6, <2>2, <3>1
    <3>2. CASE i # Len(more)
      <4>1. i \in DOMAIN ms /\ more[i] = ms[i]
        BY <2>2, <2>3, <3>2
      <4>2. QED BY <1>8, <3>2, <4>1
    <3>3. QED BY <3>1, <3>2
  <2>6. QED BY <2>1, <2>4, <2>5 DEF Told
<1>10. Ending(d)'
  BY <1>1, <1>2, <1>3, <1>4, <1>5, <1>9 DEF Running, Ending
<1>11. QED BY <1>10 DEF Story

\* A session with one delivery goes on with its story.
LEMMA StoriesGoOn == ASSUME Bounds, Inv, Stories, [Next]_vars PROVE Stories'
<1>1. exits' = 0 => up'
  <2>1. CASE Exit
    BY <2>1 DEF Exit, Inv, Typed, CountersTyped
  <2>2. CASE ~ Exit
    BY <2>2 DEF Stories, Next, vars, Daemon, Handle, AppServer, Deliver, Start, StartTurn, HandleThread,
       HandleTurn, HandleDelta, RecoverMissingThread, HandleRefusal, HandleTurnEnd, MarkTurnEnd,
       EndTurn, OpenThread, TakePrompt, FinishTurn, RefuseRequest
  <2>3. QED BY <2>1, <2>2
<1>2. ASSUME NEW d \in Deliveries, Only(d)', Next PROVE Story(d)'
  <2>1. Only(d) /\ exits' = exits /\ Story(d) /\ up
    BY <1>2, NewBefore DEF Stories, Only
  <2>2. CASE \E e \in Deliveries : Deliver(e)
    BY <1>2, <2>1, <2>2, DeliverTells
  <2>3. CASE \E e \in Deliveries : Start(e)
    <3>1. PICK e \in Deliveries : stage[e] = "starting"
      BY <2>3 DEF Start
    <3>2. stage[d] = "starting"
      BY <2>1, <3>1 DEF Only
    <3>3. QED BY <2>1, <3>2 DEF Story, Opening, Ready, Requested, Running, Ending, Marking, Over
  <2>4. CASE \E e \in Deliveries : StartTurn(e)
    BY <2>1, <2>4, StartTurnTells
  <2>5. CASE Handle
    BY <2>1, <2>5, HandleThreadTells, NewsTells, RecoverTells, HandleRefusalTells, TurnEndTells
       DEF Handle
  <2>6. CASE AppServer \/ RefuseRequest
    BY <2>1, <2>6, OpenOrRefuseTells, TakePromptTells, FinishTurnTells DEF AppServer
  <2>7. CASE Exit
    BY <2>1, <2>7 DEF Exit, Inv, Typed, CountersTyped
  <2>8. QED BY <1>2, <2>2, <2>3, <2>4, <2>5, <2>6, <2>7 DEF Next, Daemon
<1>3. ASSUME NEW d \in Deliveries, Only(d)', UNCHANGED vars PROVE Story(d)'
  <2>1. Story(d)
    BY <1>3 DEF Stories, Only, vars, session
  <2>2. QED BY <1>3, <2>1 DEF vars, session, ledger, server, Story, Opening, Ready, Requested,
        Running, Ending, Marking, Over, Told, Silent, Single, Asked
<1>4. finished' \subseteq Deliveries
  <2>1. CASE FinishTurn
    BY <2>1 DEF FinishTurn, Stories, Inv, Typed, ServerTyped
  <2>2. CASE ~ FinishTurn
    BY <2>2 DEF Stories, Next, vars, Daemon, Handle, AppServer, Deliver, Start, StartTurn, HandleThread,
       HandleTurn, HandleDelta, RecoverMissingThread, HandleRefusal, HandleTurnEnd, MarkTurnEnd,
       EndTurn, OpenThread, TakePrompt, RefuseRequest, Exit, server
  <2>3. QED BY <2>1, <2>2
<1>5. QED BY <1>1, <1>2, <1>3, <1>4 DEF Stories

-----------------------------------------------------------------------------
(* The theorems.                                                           *)

\* Every step of the session, of the app-server and of its trouble keeps the invariant.
LEMMA NextInv == ASSUME Bounds PROVE Inv /\ [Next]_vars => Inv'
<1> SUFFICES ASSUME Inv, [Next]_vars PROVE Inv'
  OBVIOUS
<1>1. CASE \E d \in Deliveries : Deliver(d)
  BY <1>1, DeliverGoes, GoesOn
<1>2. CASE \E d \in Deliveries : Start(d)
  BY <1>2, StartGoes, GoesOn
<1>3. CASE \E d \in Deliveries : StartTurn(d)
  BY <1>3, StartTurnGoes, GoesOn
<1>4. CASE Handle
  BY <1>4, HandleThreadGoes, HandleTurnGoes, HandleDeltaGoes, RecoverGoes, HandleRefusalGoes,
     TurnEndGoes, GoesOn DEF Handle
<1>5. CASE AppServer \/ RefuseRequest
  BY <1>5, OpenOrRefuseGoes, TakePromptGoes, FinishTurnGoes, GoesOn DEF AppServer
<1>6. CASE Exit
  BY <1>6, ExitGoes, GoesOn
<1>7. CASE UNCHANGED vars
  BY <1>7 DEF vars, session, ledger, server, Inv, Typed, SessionTyped, LedgerTyped, ServerTyped,
     FlagsTyped, CountersTyped, Waiting, Looping, OnItsWay, Alone, Fresh, Sent, Returns
<1>8. QED BY <1>1, <1>2, <1>3, <1>4, <1>5, <1>6, <1>7 DEF Next, Daemon

\* The inductive invariant holds: a prompt is in one place, and where it is tells
\* whether a turn has it.
THEOREM InvHolds == ASSUME Bounds PROVE Spec => []Inv
<1>1. Init => Inv
  BY InitInv
<1>2. Inv /\ [Next]_vars => Inv'
  BY NextInv
<1>3. QED BY <1>1, <1>2, PTL DEF Spec

\* The state of a session and its app-server keeps its type; a thread that is
\* ready is known.
THEOREM TypeCorrect == ASSUME Bounds PROVE Spec => []TypeOK
<1>1. Inv => TypeOK
  <2> SUFFICES ASSUME Inv PROVE TypeOK
    OBVIOUS
  <2>1. handler.at \in {"idle", "prompts", "answered", "marking", "marked"}
    BY DEF Inv, Typed, LedgerTyped, Handlers
  <2>2. refusals \in 0 .. MaxTrouble /\ exits \in 0 .. MaxTrouble /\ denied \in BOOLEAN
    BY DEF Inv, Typed, CountersTyped, Bounds
  <2>3. QED BY <2>1, <2>2 DEF Inv, Typed, SessionTyped, LedgerTyped, FlagsTyped, TypeOK, Stages, Marks
<1>2. QED BY <1>1, InvHolds, PTL

\* However often the thread is lost and the prompt sent again, no two turns take
\* one prompt.
THEOREM TurnsTakeOnce == ASSUME Bounds PROVE Spec => []TakenOnce
<1>1. Inv => TakenOnce
  BY DEF Inv, OnItsWay, Fresh, TakenOnce
<1>2. QED BY <1>1, InvHolds, PTL

\* When all is quiet and the app-server has not exited, the delivery of a turn that
\* completed is completed in the ledger, if it was the session's only one, over
\* threads that are lost and answers that have no text.
THEOREM CompletedMarked == ASSUME Bounds PROVE Spec => []CompletedIsMarked
<1>1. Init => Stories
  BY SingleIs DEF Init, Stories, Story, Opening, ThreadOpen, NoTurn
<1>2. Inv /\ Stories /\ [Next]_vars => Stories'
  BY StoriesGoOn
<1>3. Inv /\ Stories => CompletedIsMarked
  <2> SUFFICES ASSUME Inv, Stories, Quiet, exits = 0, NEW d \in finished,
                      \A e \in Deliveries \ {d} : stage[e] = "new"
               PROVE  mark[d] = "completed"
    BY DEF CompletedIsMarked
  <2>1. d \in Deliveries
    BY DEF Stories
  <2>2. Story(d)
    BY <2>1 DEF Stories, Only
  <2>3. QED BY <2>2 DEF Story, Opening, Ready, Requested, Running, Ending, Told, Marking, Over,
        Quiet, Idle, NoTurn
<1>4. QED BY <1>1, <1>2, <1>3, InvHolds, PTL DEF Spec

-----------------------------------------------------------------------------
(* ReminderScheduler.                                                      *)

Statuses == {"none", "scheduled", "fired", "canceled"}

\* The part of SchedulerTypeOK that the counting rests on.
CountsTyped ==
  /\ status \in [Reminders -> Statuses] /\ saved \in [Reminders -> Statuses]
  /\ shown \in [Reminders -> Nat] /\ lost \in [Reminders -> Nat]

Counted == CountsTyped /\ ShownByStatus

\* No reminder was shown, or lost, at first.
LEMMA InitCounted == SchedulerInit => Counted
  BY SMT DEF SchedulerInit, Counted, CountsTyped, ShownByStatus, Statuses

\* Firing from a list shows at most one reminder, and only a scheduled one.
LEMMA FireFromCounts ==
  ASSUME Counted, NEW r, NEW list, FireFrom(r, list),
         lost' = lost, saved' \in [Reminders -> Statuses]
  PROVE  Counted'
<1>1. CASE UNCHANGED <<status, shown>>
  BY <1>1 DEF Counted, CountsTyped, ShownByStatus
<1>2. CASE \E k \in StillScheduled(list) :
             /\ status' = [status EXCEPT ![list[k]] = "fired"]
             /\ shown' = [shown EXCEPT ![list[k]] = @ + 1]
  <2>1. PICK k \in StillScheduled(list) :
          /\ status' = [status EXCEPT ![list[k]] = "fired"]
          /\ shown' = [shown EXCEPT ![list[k]] = @ + 1]
    BY <1>2
  <2>2. status[list[k]] = "scheduled"
    BY <2>1 DEF StillScheduled
  <2>3. CountsTyped'
    <3>1. status' \in [Reminders -> Statuses]
      BY <2>1 DEF Counted, CountsTyped, Statuses
    <3>2. shown' \in [Reminders -> Nat]
      <4>1. shown \in [Reminders -> Nat]
        BY DEF Counted, CountsTyped
      <4>2. CASE list[k] \in Reminders
        <5>1. shown[list[k]] + 1 \in Nat
          BY <4>1, <4>2
        <5>2. QED  BY <2>1, <4>1, <4>2, <5>1
      <4>3. CASE list[k] \notin Reminders
        <5>1. shown' = shown
          BY <2>1, <4>1, <4>3
        <5>2. QED  BY <4>1, <5>1
      <4>4. QED  BY <4>2, <4>3
    <3>3. lost' \in [Reminders -> Nat]
      BY DEF Counted, CountsTyped
    <3>4. QED  BY <3>1, <3>2, <3>3 DEF CountsTyped
  <2>4. ASSUME NEW s \in Reminders
        PROVE  shown'[s] <= lost'[s] + (IF status'[s] \in {"fired", "canceled"} THEN 1 ELSE 0)
    BY <2>1, <2>2 DEF Counted, CountsTyped, ShownByStatus, Statuses
  <2>5. QED  BY <2>3, <2>4 DEF Counted, ShownByStatus
<1>3. QED  BY <1>1, <1>2 DEF FireFrom

\* Every step counts as the status says.
LEMMA NextCounted == Counted /\ [SchedulerNext]_schedulerVars => Counted'
<1> SUFFICES ASSUME Counted, [SchedulerNext]_schedulerVars PROVE Counted'
  OBVIOUS
<1>1. ASSUME NEW r \in Reminders, CreateReminder(r) PROVE Counted'
  BY <1>1 DEF CreateReminder, Counted, CountsTyped, ShownByStatus, Statuses
<1>2. ASSUME NEW r \in Reminders, CancelReminder(r) PROVE Counted'
  BY <1>2 DEF CancelReminder, Counted, CountsTyped, ShownByStatus, Statuses
<1>3. ASSUME NEW r \in Reminders, TimerFires(r) PROVE Counted'
  <2>1. CASE Due = {}
    BY <1>3, <2>1 DEF TimerFires, Counted, CountsTyped, ShownByStatus
  <2>2. CASE Due # {}
    <3>1. PICK list : FireFrom(r, list)
      BY <1>3, <2>2 DEF TimerFires
    <3>2. lost' = lost /\ saved' \in [Reminders -> Statuses]
      BY <1>3 DEF TimerFires, Counted, CountsTyped
    <3>3. QED  BY <3>1, <3>2, FireFromCounts
  <2>3. QED  BY <2>1, <2>2
<1>4. ASSUME NEW r \in Reminders, Delivered(r) PROVE Counted'
  BY <1>4 DEF Delivered, Counted, CountsTyped, ShownByStatus
<1>5. ASSUME NEW r \in Reminders, SavedOne(r) PROVE Counted'
  <2>1. lost' = lost /\ saved' \in [Reminders -> Statuses] /\ FireFrom(r, Tail(due[r]))
    BY <1>5 DEF SavedOne, Counted, CountsTyped
  <2>2. QED  BY <2>1, FireFromCounts
<1>6. ASSUME NEW r \in Reminders, DeliveryFails(r) PROVE Counted'
  BY <1>6 DEF DeliveryFails, Counted, CountsTyped, ShownByStatus
<1>7. CASE PersistState
  BY <1>7 DEF PersistState, Counted, CountsTyped, ShownByStatus
<1>8. CASE CrashAndStart
  BY <1>8 DEF CrashAndStart, Counted, CountsTyped, ShownByStatus, Statuses
<1>9. CASE Tick
  BY <1>9 DEF Tick, Counted, CountsTyped, ShownByStatus
<1>10. CASE UNCHANGED schedulerVars
  BY <1>10 DEF schedulerVars, Counted, CountsTyped, ShownByStatus
<1>11. QED
  BY <1>1, <1>2, <1>3, <1>4, <1>5, <1>6, <1>7, <1>8, <1>9, <1>10 DEF SchedulerNext

\* The counts and the statuses agree at all times.
THEOREM CountedHolds == SchedulerSpec => []Counted
  BY InitCounted, NextCounted, PTL DEF SchedulerSpec

\* Then no reminder was shown more than once.
LEMMA CountedOnce == Counted => ShownOnce
  BY SMT DEF Counted, CountsTyped, ShownByStatus, ShownOnce, Statuses

\* A reminder is shown once, and once more at most for each crash that went back
\* to before its firing was saved (fireReminder's early return).
THEOREM RemindersShownOnce == SchedulerSpec => []ShownOnce
  BY CountedHolds, CountedOnce, PTL

-----------------------------------------------------------------------------
\* What a step shows was scheduled.
LEMMA FireFromShows ==
  ASSUME CountsTyped, NEW r, NEW list, FireFrom(r, list), NEW s \in Reminders,
         status[s] # "scheduled"
  PROVE  shown'[s] = shown[s]
<1>1. CASE UNCHANGED shown
  BY <1>1
<1>2. CASE \E k \in StillScheduled(list) : shown' = [shown EXCEPT ![list[k]] = @ + 1]
  BY <1>2 DEF StillScheduled, CountsTyped
<1>3. QED  BY <1>1, <1>2 DEF FireFrom

\* A step shows only what is scheduled still.
LEMMA StepShowsNoCanceled == CountsTyped /\ [SchedulerNext]_schedulerVars => [ShowsNoCanceled]_schedulerVars
<1> SUFFICES ASSUME CountsTyped, SchedulerNext, NEW s \in Reminders, status[s] = "canceled"
             PROVE  shown'[s] = shown[s]
  BY DEF ShowsNoCanceled
<1>1. ASSUME NEW r \in Reminders, TimerFires(r) PROVE shown'[s] = shown[s]
  <2>1. CASE Due = {}
    BY <1>1, <2>1 DEF TimerFires
  <2>2. CASE Due # {}
    <3>1. PICK list : FireFrom(r, list)
      BY <1>1, <2>2 DEF TimerFires
    <3>2. QED  BY <3>1, FireFromShows
  <2>3. QED  BY <2>1, <2>2
<1>2. ASSUME NEW r \in Reminders, SavedOne(r) PROVE shown'[s] = shown[s]
  BY <1>2, FireFromShows DEF SavedOne
<1>3. CASE UNCHANGED shown
  BY <1>3
<1>4. QED
  BY <1>1, <1>2, <1>3 DEF SchedulerNext, CreateReminder, CancelReminder, Delivered, DeliveryFails,
     PersistState, CrashAndStart, Tick

\* A canceled reminder is not shown, whatever list it is still in.
THEOREM CanceledNeverShown == SchedulerSpec => CanceledStaysSilent
<1>1. Counted => CountsTyped
  BY DEF Counted
<1>2. QED
  BY <1>1, CountedHolds, StepShowsNoCanceled, PTL DEF SchedulerSpec, CanceledStaysSilent

-----------------------------------------------------------------------------
(* Types.                                                                  *)

\* There are finitely many reminders; the bounds are the model's, and a timer
\* takes some longest delay.
ReminderBounds ==
  IsFiniteSet(Reminders) /\ MaxDelay \in Nat /\ MaxClock \in Nat /\ MaxHitches \in Nat

\* A call that awaits has a reminder in hand.
RemindersTyped == SchedulerTypeOK /\ \A r \in Reminders : at[r] # "idle" => due[r] # <<>>

\* What firing from a list changes.
FiringTyped ==
  /\ status \in [Reminders -> Statuses] /\ timer \in [Reminders -> 0 .. NoTimer]
  /\ due \in [Reminders -> Seq(Reminders)]
  /\ at \in [Reminders -> {"idle", "delivering", "saving"}]
  /\ shown \in [Reminders -> Nat]
  /\ \A r \in Reminders : at[r] # "idle" => due[r] # <<>>

\* Nothing is scheduled at first.
LEMMA InitTyped == ASSUME ReminderBounds PROVE SchedulerInit => RemindersTyped
  BY DEF ReminderBounds, SchedulerInit, RemindersTyped, SchedulerTypeOK, NoTimer

\* A timer is set no further than the longest delay.
LEMMA TimerTyped ==
  ASSUME ReminderBounds, SchedulerTypeOK
  PROVE  NoTimer \in 0 .. NoTimer /\ \A r \in Reminders : GoesOff(r) \in 0 .. NoTimer
<1>1. NoTimer \in Nat /\ NoTimer = MaxClock + MaxDelay + 1
  BY DEF ReminderBounds, NoTimer
<1>2. ASSUME NEW r \in Reminders PROVE GoesOff(r) \in 0 .. NoTimer
  <2>1. fireAt[r] \in 1 .. MaxClock /\ clock \in 0 .. MaxClock
    BY DEF SchedulerTypeOK
  <2>2. QED BY <1>1, <2>1 DEF ReminderBounds, GoesOff
<1>3. QED BY <1>1, <1>2

\* The list that is left starts with the reminder that is delivered.
LEMMA FireFromTyped ==
  ASSUME ReminderBounds, SchedulerTypeOK, FiringTyped, NEW r \in Reminders, NEW list \in Seq(Reminders),
         FireFrom(r, list)
  PROVE  FiringTyped'
<1>1. CASE StillScheduled(list) = {}
  <2>1. /\ due' = [due EXCEPT ![r] = <<>>] /\ at' = [at EXCEPT ![r] = "idle"]
        /\ UNCHANGED <<status, timer, shown>>
    BY <1>1 DEF FireFrom
  <2>2. QED BY <2>1 DEF FiringTyped
<1>2. CASE StillScheduled(list) # {}
  <2>1. PICK k \in StillScheduled(list) :
          /\ due' = [due EXCEPT ![r] = SubSeq(list, k, Len(list))]
          /\ at' = [at EXCEPT ![r] = "delivering"]
          /\ status' = [status EXCEPT ![list[k]] = "fired"]
          /\ shown' = [shown EXCEPT ![list[k]] = @ + 1]
          /\ timer' = [timer EXCEPT ![list[k]] = NoTimer, ![r] = NoTimer]
    BY <1>2 DEF FireFrom
  <2>2. k \in 1 .. Len(list) /\ Len(list) \in Nat /\ list[k] \in Reminders
    BY <2>1 DEF StillScheduled
  <2>3. PICK rest : rest = SubSeq(list, k, Len(list))
    OBVIOUS
  <2>4. rest \in Seq(Reminders) /\ rest # <<>>
    <3>1. rest \in Seq(Reminders) /\ Len(rest) = Len(list) - k + 1
      BY <2>2, <2>3, SubSeqProperties
    <3>2. QED BY <2>2, <3>1
  <2>5. due' \in [Reminders -> Seq(Reminders)]
        /\ \A s \in Reminders : at'[s] # "idle" => due'[s] # <<>>
    BY <2>1, <2>3, <2>4 DEF FiringTyped
  <2>6. at' \in [Reminders -> {"idle", "delivering", "saving"}]
        /\ status' \in [Reminders -> Statuses]
    BY <2>1 DEF FiringTyped, Statuses
  <2>7. timer' \in [Reminders -> 0 .. NoTimer]
    BY <2>1, TimerTyped DEF FiringTyped
  <2>8. shown' \in [Reminders -> Nat]
    <3>1. shown \in [Reminders -> Nat] /\ shown[list[k]] + 1 \in Nat
      BY <2>2 DEF FiringTyped
    <3>2. QED BY <2>1, <3>1
  <2>9. QED BY <2>5, <2>6, <2>7, <2>8 DEF FiringTyped
<1>3. QED BY <1>1, <1>2

\* What is due, in whatever order, is a list of reminders.
LEMMA ByTimeTyped ==
  ASSUME ReminderBounds, NEW list \in ByTime(Due)
  PROVE  list \in Seq(Reminders)
<1>1. Cardinality(Due) \in Nat
  BY FS_Subset, FS_CardinalityType DEF ReminderBounds, Due
<1>2. list \in [1 .. Cardinality(Due) -> Due]
  BY DEF ByTime, SetToSeqs
<1>3. PICK n \in Nat : list \in [1 .. n -> Due]
  BY <1>1, <1>2
<1>4. list \in [1 .. n -> Reminders]
  BY <1>3 DEF Due
<1>5. QED BY <1>4

\* Every step keeps the types.
LEMMA NextTyped == ASSUME ReminderBounds, RemindersTyped, [SchedulerNext]_schedulerVars PROVE RemindersTyped'
<1>1. SchedulerTypeOK /\ FiringTyped
  BY DEF RemindersTyped, SchedulerTypeOK, FiringTyped, Statuses
<1>2. NoTimer \in 0 .. NoTimer /\ \A r \in Reminders : GoesOff(r) \in 0 .. NoTimer
  BY <1>1, TimerTyped
<1>3. ASSUME NEW r \in Reminders, CreateReminder(r) PROVE RemindersTyped'
  BY <1>2, <1>3 DEF CreateReminder, RemindersTyped, SchedulerTypeOK, calls
<1>4. ASSUME NEW r \in Reminders, CancelReminder(r) PROVE RemindersTyped'
  BY <1>2, <1>4 DEF CancelReminder, RemindersTyped, SchedulerTypeOK, calls
<1>5. ASSUME NEW r \in Reminders, TimerFires(r) PROVE RemindersTyped'
  <2>1. CASE Due = {}
    BY <1>2, <1>5, <2>1 DEF TimerFires, RemindersTyped, SchedulerTypeOK, calls
  <2>2. CASE Due # {}
    <3>1. PICK list \in ByTime(Due) : FireFrom(r, list)
      BY <1>5, <2>2 DEF TimerFires
    <3>2. FiringTyped'
      BY <1>1, <3>1, ByTimeTyped, FireFromTyped
    <3>3. QED BY <1>1, <1>5, <3>2 DEF TimerFires, RemindersTyped, SchedulerTypeOK, FiringTyped, Statuses
  <2>3. QED BY <2>1, <2>2
<1>6. ASSUME NEW r \in Reminders, Delivered(r) PROVE RemindersTyped'
  BY <1>6 DEF Delivered, RemindersTyped, SchedulerTypeOK
<1>7. ASSUME NEW r \in Reminders, SavedOne(r) PROVE RemindersTyped'
  <2>1. due[r] \in Seq(Reminders) /\ due[r] # <<>>
    BY <1>7 DEF SavedOne, RemindersTyped, SchedulerTypeOK
  <2>2. PICK list : list = Tail(due[r])
    OBVIOUS
  <2>3. list \in Seq(Reminders)
    BY <2>1, <2>2
  <2>4. FiringTyped'
    BY <1>1, <1>7, <2>2, <2>3, FireFromTyped DEF SavedOne
  <2>5. QED BY <1>1, <1>7, <2>4 DEF SavedOne, RemindersTyped, SchedulerTypeOK, FiringTyped, Statuses
<1>8. ASSUME NEW r \in Reminders, DeliveryFails(r) PROVE RemindersTyped'
  BY <1>8 DEF DeliveryFails, RemindersTyped, SchedulerTypeOK, ReminderBounds
<1>9. CASE PersistState
  BY <1>9 DEF PersistState, RemindersTyped, SchedulerTypeOK, calls
<1>10. CASE CrashAndStart
  <2>1. timer' \in [Reminders -> 0 .. NoTimer]
    BY <1>2, <1>10 DEF CrashAndStart, Timers
  <2>2. crashes' \in 0 .. MaxHitches /\ lost' \in [Reminders -> Nat]
    BY <1>10 DEF CrashAndStart, RemindersTyped, SchedulerTypeOK, ReminderBounds
  <2>3. QED BY <1>10, <2>1, <2>2 DEF CrashAndStart, RemindersTyped, SchedulerTypeOK
<1>11. CASE Tick
  BY <1>11 DEF Tick, RemindersTyped, SchedulerTypeOK, calls, ReminderBounds
<1>12. CASE UNCHANGED schedulerVars
  BY <1>12 DEF schedulerVars, calls, RemindersTyped, SchedulerTypeOK, NoTimer
<1>13. QED
  BY <1>3, <1>4, <1>5, <1>6, <1>7, <1>8, <1>9, <1>10, <1>11, <1>12 DEF SchedulerNext

\* Reminders, timers and calls keep their types: a timer goes off within the
\* longest delay, and a call that awaits has a reminder in hand.
THEOREM SchedulerTypeCorrect == ASSUME ReminderBounds PROVE SchedulerSpec => []SchedulerTypeOK
<1>1. RemindersTyped => SchedulerTypeOK
  BY DEF RemindersTyped
<1>2. QED
  BY <1>1, InitTyped, NextTyped, PTL DEF SchedulerSpec
=============================================================================
