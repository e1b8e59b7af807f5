------------------------ MODULE DaemonSessions_proofs ------------------------
(***************************************************************************)
(* Theorems about DaemonSessions, for any agents, lanes, deliveries and    *)
(* limits: no wakeup of the start queue or of a waiting delivery is lost.  *)
(*                                                                         *)
(* What will happen next is in two places: in the jobs, which run before   *)
(* anything else, and in what something awaits.  So the invariant has two  *)
(* halves.  StartsInv counts the starts: those that run and those whose    *)
(* end is still a job make the counter, and a queue that may be pumped has *)
(* a pump, a timer or an end to come.  DrainIsComing is the same for a     *)
(* delivery that waits while it has a slot: a drain that goes on, a job    *)
(* that starts one, or a change of status.  That a step which frees a slot *)
(* also brings such a job rests on CallsInv -- a delivery is in one place, *)
(* and each prompt, list and answer belongs to one session -- and on       *)
(* SessionsFit, which says what the flags of a session mean together.      *)
(***************************************************************************)
EXTENDS DaemonSessions, FunctionTheorems, FiniteSetTheorems, SequenceTheorems,
        WellFoundedInduction, TLAPS

\* What the constants are; the slots may be any number.
Bounds ==
  /\ IsFiniteSet(Lanes) /\ AgentOf \in [Lanes -> {AgentOf[l] : l \in Lanes}]
  /\ LaneOf \in [Deliveries -> Lanes]
  /\ MaxStarts \in Nat \ {0} /\ MaxTrouble \in Nat

JobKinds == {"give", "deliver", "pump", "settled", "finally", "drain", "drained",
             "upgrade", "splice", "turns"}
Jobs == [kind : JobKinds, arg : Deliveries \cup Agents \cup Nat \cup {Nobody, "due"}]

\* Nothing is in the list twice.
Once(s) == \A m, n \in DOMAIN s : s[m] = s[n] => m = n

-----------------------------------------------------------------------------
(* The start queue.                                                        *)

Running == {a \in Agents : starts[a].state = "running"}
Finishing(q) == {n \in DOMAIN q : q[n].kind = "finally"}

\* An agent is in the queue once, and then its start is queued.
QueueIsQueued ==
  /\ Once(startQueue)
  /\ \A a \in Agents : a \in Range(startQueue) <=> starts[a].state = "queued"

\* The count is that of the starts that run and of those that have yet to count
\* down.
CountIsExact == active = Cardinality(Running) + Cardinality(Finishing(jobs))

\* A start that has settled runs still, and a start has a session.
StartJobs ==
  /\ \A j \in Range(jobs) : j.kind = "settled" => j.arg \in Running
  /\ \A j \in Range(jobs) : j.kind = "finally" => j.arg \in Agents
  /\ \A a \in Agents : starts[a].state # "none" => starts[a].session \in DOMAIN session

\* Queued starts wait for a timer, for one that runs, or for the pump.
PumpIsComing ==
  startQueue # <<>> => paced \/ active > 0 \/ \E j \in Range(jobs) : j.kind = "pump"

-----------------------------------------------------------------------------
(* Where a delivery is.                                                    *)

\* Two jobs that may not be there at once: they would go on with the same
\* delivery, or settle the same start.
Clash(j, k) ==
  /\ \/ j.kind \in {"give", "deliver"} /\ k.kind \in {"give", "deliver"}
     \/ j.kind \in {"turns", "settled"} /\ k.kind = j.kind
  /\ j.arg = k.arg
NoClash(q) == \A m, n \in DOMAIN q : Clash(q[m], q[n]) => m = n

AwaitsStart(d) == \E a \in Agents : d \in Range(starts[a].waiters)

WaitingOnce == Once(waiting) /\ \A d \in Range(waiting) : call[d].phase = "waiting"

WaitersStart ==
  \A a \in Agents :
    /\ Once(starts[a].waiters)
    /\ \A d \in Range(starts[a].waiters) :
         call[d].phase = "starting" /\ call[d].session # 0 /\ AgentOfCall(d) = a

PromptsWait ==
  \A i \in DOMAIN session :
    /\ Once(session[i].prompts)
    /\ \A d \in Range(session[i].prompts) : call[d].phase = "prompts" /\ call[d].session = i

ListsWait ==
  \A e \in Deliveries :
    /\ Once(call[e].rest)
    /\ \A d \in Range(call[e].rest) : call[d].phase = "listed" /\ call[d].session # 0
    /\ \A f \in Deliveries \ {e} : Range(call[e].rest) \cap Range(call[f].rest) = {}
    /\ call[e].rest # <<>> => call[e].phase = "images" \/ Job("turns", e) \in Range(jobs)

AskedWait ==
  \A i \in DOMAIN session : \A d \in session[i].asked :
    call[d].phase = "asked" /\ call[d].session = i

Prepared == \A d \in Deliveries : call[d].phase \in {"preparing", "images"} => call[d].session # 0

\* A job that goes on with a delivery finds it as it left it.
JobFits(j) ==
  /\ j.kind \in {"give", "deliver", "turns", "drained"} => j.arg \in Deliveries
  /\ j.kind = "give" => call[j.arg].phase = "given"
  /\ j.kind = "deliver" =>
       /\ call[j.arg].phase \in {"given", "starting"} /\ call[j.arg].session # 0
       /\ ~AwaitsStart(j.arg)
  /\ j.kind = "turns" => call[j.arg].phase \in {"asked", "dropped"} /\ call[j.arg].rest # <<>>

CallJobs == NoClash(jobs) /\ \A j \in Range(jobs) : JobFits(j)

-----------------------------------------------------------------------------
(* Sessions and slots.                                                     *)

SessionsFit ==
  /\ \A l \in Lanes : lane[l] # 0 => session[lane[l]].lane = l
  /\ \A i \in DOMAIN session :
       /\ session[i].started => session[i].children > 0
       /\ session[i].started /\ ~session[i].ready => session[i].opening > 0
  /\ \A j \in Range(jobs) :
       j.kind = "splice" => j.arg \in DOMAIN session /\ session[j.arg].children > 0

\* A turn is to begin on a runtime that runs.
TurnIsComing ==
  \E d \in Deliveries : call[d].phase = "images" /\ session[call[d].session].children > 0

DrainIsComing ==
  Usable # {} =>
    \/ drain.on \/ \E j \in Range(jobs) : j.kind = "drain"
    \/ TurnIsComing
    \/ \E d \in Deliveries : call[d].phase = "lost"
    \/ \E i \in DOMAIN session : session[i].status = "stopping"

Typed == DaemonTypeOK /\ jobs \in Seq(Jobs)
StartsInv == QueueIsQueued /\ CountIsExact /\ StartJobs /\ PumpIsComing
CallsInv ==
  WaitingOnce /\ WaitersStart /\ PromptsWait /\ ListsWait /\ AskedWait /\ Prepared /\ CallJobs
Inv == Typed /\ StartsInv /\ CallsInv /\ SessionsFit /\ DrainIsComing

-----------------------------------------------------------------------------
(* Sequences.                                                              *)

\* Sequences put together hold what the two hold.
LEMMA ConcatRange ==
  ASSUME NEW S, NEW p \in Seq(S), NEW q \in Seq(S)
  PROVE  /\ p \o q \in Seq(S) /\ Range(p \o q) = Range(p) \cup Range(q)
         /\ \A n \in DOMAIN p : (p \o q)[n] = p[n]
         /\ \A n \in DOMAIN q : (p \o q)[Len(p) + n] = q[n]
<1>1. /\ p \o q \in Seq(S) /\ Len(p \o q) = Len(p) + Len(q)
      /\ \A n \in 1 .. Len(p) + Len(q) : (p \o q)[n] = IF n <= Len(p) THEN p[n] ELSE q[n - Len(p)]
  BY ConcatProperties
<1>2. \A n \in DOMAIN p : n \in DOMAIN (p \o q) /\ (p \o q)[n] = p[n]
  BY <1>1
<1>3. ASSUME NEW n \in DOMAIN q
      PROVE  Len(p) + n \in DOMAIN (p \o q) /\ (p \o q)[Len(p) + n] = q[n]
  BY <1>1
<1>4. ASSUME NEW n \in DOMAIN (p \o q)
      PROVE  (p \o q)[n] \in Range(p) \cup Range(q)
  BY <1>1 DEF Range
<1>5. Range(p \o q) \subseteq Range(p) \cup Range(q)
  BY <1>4 DEF Range
<1>6. Range(p) \subseteq Range(p \o q)
  BY <1>2 DEF Range
<1>7. Range(q) \subseteq Range(p \o q)
  <2>1. ASSUME NEW n \in DOMAIN q PROVE q[n] \in Range(p \o q)
    BY <1>3 DEF Range
  <2>2. QED BY <2>1 DEF Range
<1>8. QED BY <1>1, <1>2, <1>3, <1>5, <1>6, <1>7

\* What an element holds is in the set the sequence is of.
LEMMA RangeIn == ASSUME NEW S, NEW s \in Seq(S) PROVE Range(s) \subseteq S
  BY DEF Range

\* Sequences of no, one and two elements, and one more at the end.
LEMMA FewRange ==
  ASSUME NEW S, NEW x \in S, NEW y \in S, NEW s \in Seq(S)
  PROVE  /\ <<>> \in Seq(S) /\ Range(<<>>) = {}
         /\ <<x>> \in Seq(S) /\ Range(<<x>>) = {x}
         /\ <<x, y>> \in Seq(S) /\ Range(<<x, y>>) = {x, y}
         /\ Append(s, x) \in Seq(S) /\ Range(Append(s, x)) = Range(s) \cup {x}
<1>1. /\ <<>> \in Seq(S) /\ Range(<<>>) = {}
      /\ <<x>> \in Seq(S) /\ Range(<<x>>) = {x}
  BY DEF Range
<1>2. <<x, y>> \in Seq(S) /\ Range(<<x, y>>) = {x, y}
  <2>1. <<x, y>> \in Seq(S) /\ DOMAIN <<x, y>> = {1, 2}
    OBVIOUS
  <2>2. QED BY <2>1 DEF Range
<1>3. Append(s, x) \in Seq(S) /\ Range(Append(s, x)) = Range(s) \cup {x}
  <2>1. /\ Append(s, x) \in Seq(S) /\ Len(Append(s, x)) = Len(s) + 1
        /\ \A n \in 1 .. Len(s) : Append(s, x)[n] = s[n]
        /\ Append(s, x)[Len(s) + 1] = x
    BY AppendProperties
  <2>2. DOMAIN Append(s, x) = DOMAIN s \cup {Len(s) + 1}
    BY <2>1
  <2>3. QED BY <2>1, <2>2 DEF Range
<1>4. QED BY <1>1, <1>2, <1>3

\* A sequence holds its head and what its tail holds.
LEMMA TailRange ==
  ASSUME NEW S, NEW s \in Seq(S), s # <<>>
  PROVE  /\ Tail(s) \in Seq(S) /\ Head(s) \in S
         /\ Range(s) = {Head(s)} \cup Range(Tail(s))
         /\ s = <<Head(s)>> \o Tail(s)
<1>1. /\ Tail(s) \in Seq(S) /\ Head(s) \in S /\ Len(Tail(s)) = Len(s) - 1 /\ Len(s) > 0
      /\ \A n \in 1 .. Len(Tail(s)) : Tail(s)[n] = s[n + 1]
      /\ Head(s) = s[1]
  BY HeadTailProperties, EmptySeq
<1>2. s = <<Head(s)>> \o Tail(s)
  <2>1. PICK t : t = Tail(s)
    OBVIOUS
  <2>2. t \in Seq(S) /\ Len(t) = Len(s) - 1 /\ \A n \in 1 .. Len(t) : t[n] = s[n + 1]
    BY <1>1, <2>1
  <2>3. PICK u : u = <<Head(s)>> \o t
    OBVIOUS
  <2>4. /\ u \in Seq(S) /\ Len(u) = 1 + Len(t)
        /\ \A n \in 1 .. 1 + Len(t) : u[n] = IF n <= 1 THEN Head(s) ELSE t[n - 1]
    <3>1. <<Head(s)>> \in Seq(S) /\ Len(<<Head(s)>>) = 1
      BY <1>1
    <3>2. \A n \in 1 .. 1 : <<Head(s)>>[n] = Head(s)
      OBVIOUS
    <3>3. /\ u \in Seq(S) /\ Len(u) = 1 + Len(t)
          /\ \A n \in 1 .. 1 + Len(t) : u[n] = IF n <= 1 THEN <<Head(s)>>[n] ELSE t[n - 1]
      BY <2>2, <2>3, <3>1, ConcatProperties
    <3>4. QED BY <2>2, <3>2, <3>3
  <2>5. ASSUME NEW n \in 1 .. Len(u) PROVE u[n] = s[n]
    BY <1>1, <2>2, <2>4
  <2>6. Len(u) = Len(s)
    BY <1>1, <2>2, <2>4
  <2>7. u = s
    BY <2>4, <2>5, <2>6, SeqEqual
  <2>8. QED BY <2>1, <2>3, <2>7
<1>3. <<Head(s)>> \in Seq(S) /\ Range(<<Head(s)>>) = {Head(s)}
  BY <1>1, FewRange
<1>4. Range(<<Head(s)>> \o Tail(s)) = {Head(s)} \cup Range(Tail(s))
  <2>1. PICK h, t : h = <<Head(s)>> /\ t = Tail(s)
    OBVIOUS
  <2>2. h \in Seq(S) /\ t \in Seq(S) /\ Range(h) = {Head(s)}
    BY <1>1, <1>3, <2>1
  <2>3. Range(h \o t) = Range(h) \cup Range(t)
    BY <2>2, ConcatRange
  <2>4. QED BY <2>1, <2>2, <2>3
<1>5. Range(s) = {Head(s)} \cup Range(Tail(s))
  <2>1. PICK t : t = <<Head(s)>> \o Tail(s)
    OBVIOUS
  <2>2. s = t
    BY <1>2, <2>1
  <2>3. QED BY <1>4, <2>1, <2>2
<1>6. QED BY <1>1, <1>2, <1>5

\* A sequence without repetition, one element longer or one shorter.
LEMMA OnceLonger ==
  ASSUME NEW S, NEW s \in Seq(S), NEW x \in S, Once(s), x \notin Range(s)
  PROVE  Once(Append(s, x))
<1>1. PICK t : t = Append(s, x)
  OBVIOUS
<1>2. /\ DOMAIN t = 1 .. Len(s) + 1 /\ DOMAIN s = 1 .. Len(s) /\ Len(s) \in Nat
      /\ \A n \in 1 .. Len(s) : t[n] = s[n]
      /\ t[Len(s) + 1] = x
  BY <1>1, AppendProperties
<1>3. \A n \in 1 .. Len(s) : s[n] # x
  BY <1>2 DEF Range
<1>4. Once(t)
  BY <1>2, <1>3 DEF Once
<1>5. QED BY <1>1, <1>4

\* Its tail does not hold its head.
LEMMA OnceShorter ==
  ASSUME NEW S, NEW s \in Seq(S), s # <<>>, Once(s)
  PROVE  Once(Tail(s)) /\ Head(s) \notin Range(Tail(s)) /\ Head(s) \in Range(s) /\ Head(s) = s[1]
<1>1. PICK t : t = Tail(s)
  OBVIOUS
<1>2. /\ t \in Seq(S) /\ Head(s) = s[1] /\ Len(s) \in Nat /\ Len(s) > 0 /\ Len(t) = Len(s) - 1
      /\ \A n \in 1 .. Len(t) : t[n] = s[n + 1]
      /\ DOMAIN t = 1 .. Len(t) /\ DOMAIN s = 1 .. Len(s)
  BY <1>1, HeadTailProperties, EmptySeq, LenProperties
<1>3. \A n \in DOMAIN t : n + 1 \in DOMAIN s /\ n + 1 # 1 /\ t[n] = s[n + 1]
  BY <1>2
<1>4. 1 \in DOMAIN s
  BY <1>2
<1>5. Once(t)
  <2>1. ASSUME NEW m \in DOMAIN t, NEW n \in DOMAIN t, t[m] = t[n] PROVE m = n
    <3>1. m + 1 = n + 1
      BY <1>3, <2>1 DEF Once
    <3>2. QED BY <1>2, <3>1
  <2>2. QED BY <2>1 DEF Once
<1>6. s[1] \notin Range(t)
  <2>1. ASSUME NEW n \in DOMAIN t, t[n] = s[1] PROVE FALSE
    BY <1>3, <1>4, <2>1 DEF Once
  <2>2. QED BY <2>1 DEF Range
<1>7. s[1] \in Range(s)
  BY <1>4 DEF Range
<1>8. QED BY <1>1, <1>2, <1>5, <1>6, <1>7

\* Two such sequences put together, when they hold nothing in common.
LEMMA OnceConcat ==
  ASSUME NEW S, NEW p \in Seq(S), NEW q \in Seq(S), Once(p), Once(q),
         Range(p) \cap Range(q) = {}
  PROVE  Once(p \o q)
<1>1. PICK t : t = p \o q
  OBVIOUS
<1>2. /\ Len(p) \in Nat /\ Len(q) \in Nat /\ DOMAIN t = 1 .. Len(p) + Len(q)
      /\ DOMAIN p = 1 .. Len(p) /\ DOMAIN q = 1 .. Len(q)
      /\ \A n \in 1 .. Len(p) + Len(q) : t[n] = IF n <= Len(p) THEN p[n] ELSE q[n - Len(p)]
  BY <1>1, ConcatProperties, LenProperties
<1>3. \A m \in DOMAIN p : \A n \in DOMAIN q : p[m] # q[n]
  BY DEF Range
<1>4. ASSUME NEW m \in DOMAIN t, NEW n \in DOMAIN t, t[m] = t[n] PROVE m = n
  <2>1. CASE m <= Len(p) /\ n <= Len(p)
    BY <1>2, <1>4, <2>1 DEF Once
  <2>2. CASE m > Len(p) /\ n > Len(p)
    <3>1. m - Len(p) \in DOMAIN q /\ n - Len(p) \in DOMAIN q /\ q[m - Len(p)] = q[n - Len(p)]
      BY <1>2, <1>4, <2>2
    <3>2. m - Len(p) = n - Len(p)
      BY <3>1 DEF Once
    <3>3. QED BY <1>2, <3>2
  <2>3. CASE m <= Len(p) /\ n > Len(p)
    <3>1. m \in DOMAIN p /\ n - Len(p) \in DOMAIN q /\ p[m] = q[n - Len(p)]
      BY <1>2, <1>4, <2>3
    <3>2. QED BY <1>3, <3>1
  <2>4. CASE m > Len(p) /\ n <= Len(p)
    <3>1. n \in DOMAIN p /\ m - Len(p) \in DOMAIN q /\ p[n] = q[m - Len(p)]
      BY <1>2, <1>4, <2>4
    <3>2. QED BY <1>3, <3>1
  <2>5. QED BY <1>2, <2>1, <2>2, <2>3, <2>4
<1>5. QED BY <1>1, <1>4 DEF Once

\* Without its k-th element it holds what it held otherwise.
LEMMA OnceWithout ==
  ASSUME NEW S, NEW s \in Seq(S), Once(s), NEW k \in DOMAIN s
  PROVE  /\ RemoveAt(s, k) \in Seq(S) /\ Once(RemoveAt(s, k))
         /\ Range(RemoveAt(s, k)) = Range(s) \ {s[k]}
<1>1. Len(s) \in Nat /\ DOMAIN s = 1 .. Len(s) /\ k \in 1 .. Len(s) /\ s \in [1 .. Len(s) -> S]
  BY LenProperties
<1>2. PICK p, q : p = SubSeq(s, 1, k - 1) /\ q = SubSeq(s, k + 1, Len(s))
  OBVIOUS
<1>3. /\ p \in Seq(S) /\ Len(p) = k - 1 /\ \A n \in 1 .. k - 1 : p[n] = s[n]
  <2>1. \A n \in 1 .. k - 1 : s[n] \in S
    BY <1>1
  <2>2. /\ p \in Seq(S) /\ Len(p) = (IF 1 <= k - 1 THEN k - 1 - 1 + 1 ELSE 0)
        /\ \A n \in 1 .. k - 1 - 1 + 1 : p[n] = s[1 + n - 1]
    BY <1>1, <1>2, <2>1, SubSeqProperties
  <2>3. \A n \in 1 .. k - 1 : n \in 1 .. k - 1 - 1 + 1 /\ 1 + n - 1 = n
    BY <1>1
  <2>4. QED BY <1>1, <2>2, <2>3
<1>4. /\ q \in Seq(S) /\ Len(q) = Len(s) - k /\ \A n \in 1 .. Len(s) - k : q[n] = s[k + n]
  <2>1. \A n \in k + 1 .. Len(s) : s[n] \in S
    BY <1>1
  <2>2. /\ q \in Seq(S) /\ Len(q) = (IF k + 1 <= Len(s) THEN Len(s) - (k + 1) + 1 ELSE 0)
        /\ \A n \in 1 .. Len(s) - (k + 1) + 1 : q[n] = s[(k + 1) + n - 1]
    BY <1>1, <1>2, <2>1, SubSeqProperties
  <2>3. \A n \in 1 .. Len(s) - k : n \in 1 .. Len(s) - (k + 1) + 1 /\ (k + 1) + n - 1 = k + n
    BY <1>1
  <2>4. QED BY <1>1, <2>2, <2>3
<1>5. DOMAIN p = 1 .. k - 1 /\ DOMAIN q = 1 .. Len(s) - k
  BY <1>3, <1>4, LenProperties
<1>6. Once(p)
  BY <1>1, <1>3, <1>5 DEF Once
<1>7. Once(q)
  <2>1. ASSUME NEW m \in DOMAIN q, NEW n \in DOMAIN q, q[m] = q[n] PROVE m = n
    <3>1. k + m \in DOMAIN s /\ k + n \in DOMAIN s /\ s[k + m] = s[k + n]
      <4>1. m \in 1 .. Len(s) - k /\ n \in 1 .. Len(s) - k
        BY <1>5
      <4>2. q[m] = s[k + m] /\ q[n] = s[k + n]
        BY <1>4, <4>1
      <4>3. k + m \in DOMAIN s /\ k + n \in DOMAIN s
        BY <1>1, <4>1
      <4>4. QED BY <2>1, <4>2, <4>3
    <3>2. k + m = k + n
      BY <3>1 DEF Once
    <3>3. QED BY <1>1, <1>5, <3>2
  <2>2. QED BY <2>1 DEF Once
<1>8. Range(p) \cap Range(q) = {}
  <2>1. ASSUME NEW m \in DOMAIN p, NEW n \in DOMAIN q, p[m] = q[n] PROVE FALSE
    <3>1. m \in DOMAIN s /\ k + n \in DOMAIN s /\ m # k + n /\ s[m] = s[k + n]
      BY <1>1, <1>3, <1>4, <1>5, <2>1
    <3>2. QED BY <3>1 DEF Once
  <2>2. QED BY <2>1 DEF Range
<1>9. Range(p) \cup Range(q) \subseteq Range(s) \ {s[k]}
  <2>1. ASSUME NEW n \in DOMAIN p PROVE p[n] \in Range(s) \ {s[k]}
    <3>1. n \in DOMAIN s /\ n # k /\ p[n] = s[n]
      BY <1>1, <1>3, <1>5
    <3>2. QED BY <1>1, <3>1 DEF Once, Range
  <2>2. ASSUME NEW n \in DOMAIN q PROVE q[n] \in Range(s) \ {s[k]}
    <3>1. k + n \in DOMAIN s /\ k + n # k /\ q[n] = s[k + n]
      BY <1>1, <1>4, <1>5
    <3>2. QED BY <1>1, <3>1 DEF Once, Range
  <2>3. QED BY <2>1, <2>2 DEF Range
<1>10. Range(s) \ {s[k]} \subseteq Range(p) \cup Range(q)
  <2>1. ASSUME NEW n \in DOMAIN s, s[n] # s[k] PROVE s[n] \in Range(p) \cup Range(q)
    <3>1. CASE n < k
      <4>1. n \in DOMAIN p /\ p[n] = s[n]
        BY <1>1, <1>3, <1>5, <3>1
      <4>2. QED BY <4>1 DEF Range
    <3>2. CASE n > k
      <4>1. n - k \in 1 .. Len(s) - k /\ k + (n - k) = n
        BY <1>1, <3>2
      <4>2. n - k \in DOMAIN q /\ q[n - k] = s[n]
        BY <1>4, <1>5, <4>1
      <4>3. QED BY <4>2 DEF Range
    <3>3. QED BY <1>1, <2>1, <3>1, <3>2
  <2>2. QED BY <2>1 DEF Range
<1>11. p \o q \in Seq(S) /\ Range(p \o q) = Range(p) \cup Range(q) /\ Once(p \o q)
  BY <1>3, <1>4, <1>6, <1>7, <1>8, ConcatRange, OnceConcat
<1>12. QED BY <1>2, <1>9, <1>10, <1>11 DEF RemoveAt

-----------------------------------------------------------------------------
(* Jobs.                                                                   *)

\* A set of numbers that is not empty has a least one.
LEMMA LeastOf ==
  ASSUME NEW T, T \subseteq Nat, T # {}
  PROVE  \E x \in T : \A y \in T : ~ (y < x)
<1>1. PICK R : R = {ss \in Nat \X Nat : ss[1] < ss[2]}
  OBVIOUS
<1>2. IsWellFoundedOn(R, Nat)
  BY <1>1, NatLessThanWellFounded DEF OpToRel
<1>3. PICK x \in T : \A y \in T : ~ (<<y, x>> \in R)
  BY <1>2, WFMin
<1>4. QED BY <1>1, <1>3

\* Jobs in two lists, of which no two clash, do not clash when put together.
LEMMA NoClashConcat ==
  ASSUME NEW p \in Seq(Jobs), NEW q \in Seq(Jobs), NoClash(p), NoClash(q),
         \A j \in Range(p) : \A k \in Range(q) : ~Clash(j, k)
  PROVE  NoClash(p \o q)
<1>1. PICK t : t = p \o q
  OBVIOUS
<1>2. /\ Len(p) \in Nat /\ Len(q) \in Nat /\ DOMAIN t = 1 .. Len(p) + Len(q)
      /\ DOMAIN p = 1 .. Len(p) /\ DOMAIN q = 1 .. Len(q)
      /\ \A n \in 1 .. Len(p) + Len(q) : t[n] = IF n <= Len(p) THEN p[n] ELSE q[n - Len(p)]
  BY <1>1, ConcatProperties, LenProperties
<1>3. \A j, k : Clash(j, k) => Clash(k, j)
  BY DEF Clash
<1>4. \A m \in DOMAIN p : \A n \in DOMAIN q : ~Clash(p[m], q[n]) /\ ~Clash(q[n], p[m])
  <2>1. \A m \in DOMAIN p : p[m] \in Range(p)
    BY DEF Range
  <2>2. \A n \in DOMAIN q : q[n] \in Range(q)
    BY DEF Range
  <2>3. QED BY <1>3, <2>1, <2>2
<1>5. ASSUME NEW m \in DOMAIN t, NEW n \in DOMAIN t, Clash(t[m], t[n]) PROVE m = n
  <2>1. CASE m <= Len(p) /\ n <= Len(p)
    <3>1. m \in DOMAIN p /\ n \in DOMAIN p /\ t[m] = p[m] /\ t[n] = p[n]
      BY <1>2, <2>1
    <3>2. QED BY <1>5, <3>1 DEF NoClash
  <2>2. CASE m > Len(p) /\ n > Len(p)
    <3>1. /\ m - Len(p) \in DOMAIN q /\ n - Len(p) \in DOMAIN q
          /\ t[m] = q[m - Len(p)] /\ t[n] = q[n - Len(p)]
      BY <1>2, <2>2
    <3>2. m - Len(p) = n - Len(p)
      BY <1>5, <3>1 DEF NoClash
    <3>3. QED BY <1>2, <3>2
  <2>3. CASE m <= Len(p) /\ n > Len(p)
    <3>1. m \in DOMAIN p /\ n - Len(p) \in DOMAIN q /\ t[m] = p[m] /\ t[n] = q[n - Len(p)]
      BY <1>2, <2>3
    <3>2. QED BY <1>4, <1>5, <3>1
  <2>4. CASE m > Len(p) /\ n <= Len(p)
    <3>1. n \in DOMAIN p /\ m - Len(p) \in DOMAIN q /\ t[n] = p[n] /\ t[m] = q[m - Len(p)]
      BY <1>2, <2>4
    <3>2. QED BY <1>4, <1>5, <3>1
  <2>5. QED BY <1>2, <2>1, <2>2, <2>3, <2>4
<1>6. QED BY <1>1, <1>5 DEF NoClash

\* What is left when the first job is taken does not clash with it.
LEMMA NoClashTail ==
  ASSUME NEW q \in Seq(Jobs), q # <<>>, NoClash(q)
  PROVE  NoClash(Tail(q)) /\ \A j \in Range(Tail(q)) : ~Clash(Head(q), j) /\ ~Clash(j, Head(q))
<1>1. PICK t : t = Tail(q)
  OBVIOUS
<1>2. /\ t \in Seq(Jobs) /\ Head(q) = q[1] /\ Len(q) \in Nat /\ Len(q) > 0 /\ Len(t) = Len(q) - 1
      /\ \A n \in 1 .. Len(t) : t[n] = q[n + 1]
      /\ DOMAIN t = 1 .. Len(t) /\ DOMAIN q = 1 .. Len(q)
  BY <1>1, HeadTailProperties, EmptySeq, LenProperties
<1>3. \A n \in DOMAIN t : n + 1 \in DOMAIN q /\ n + 1 # 1 /\ t[n] = q[n + 1]
  BY <1>2
<1>4. 1 \in DOMAIN q
  BY <1>2
<1>5. ASSUME NEW m \in DOMAIN t, NEW n \in DOMAIN t, Clash(t[m], t[n]) PROVE m = n
  <2>1. m + 1 = n + 1
    BY <1>3, <1>5 DEF NoClash
  <2>2. QED BY <1>2, <2>1
<1>6. ASSUME NEW n \in DOMAIN t PROVE ~Clash(q[1], t[n]) /\ ~Clash(t[n], q[1])
  BY <1>3, <1>4 DEF NoClash
<1>7. QED BY <1>1, <1>2, <1>5, <1>6 DEF NoClash, Range

\* The starts that have yet to count down, of jobs put together.
LEMMA FinishingConcat ==
  ASSUME NEW p \in Seq(Jobs), NEW q \in Seq(Jobs)
  PROVE  /\ Cardinality(Finishing(p)) \in Nat /\ Cardinality(Finishing(q)) \in Nat
         /\ Cardinality(Finishing(p \o q)) = Cardinality(Finishing(p)) + Cardinality(Finishing(q))
<1>1. PICK t : t = p \o q
  OBVIOUS
<1>2. /\ Len(p) \in Nat /\ Len(q) \in Nat /\ DOMAIN t = 1 .. Len(p) + Len(q)
      /\ DOMAIN p = 1 .. Len(p) /\ DOMAIN q = 1 .. Len(q)
      /\ \A n \in 1 .. Len(p) + Len(q) : t[n] = IF n <= Len(p) THEN p[n] ELSE q[n - Len(p)]
  BY <1>1, ConcatProperties, LenProperties
<1>3. PICK late : late = {n \in Len(p) + 1 .. Len(p) + Len(q) : t[n].kind = "finally"}
  OBVIOUS
<1>4. Finishing(t) = Finishing(p) \cup late /\ Finishing(p) \cap late = {}
  BY <1>2, <1>3 DEF Finishing
<1>5. IsFiniteSet(Finishing(p)) /\ IsFiniteSet(Finishing(q))
  <2>1. IsFiniteSet(DOMAIN p) /\ IsFiniteSet(DOMAIN q)
    BY <1>2, FS_Interval
  <2>2. Finishing(p) \in SUBSET DOMAIN p /\ Finishing(q) \in SUBSET DOMAIN q
    BY DEF Finishing
  <2>3. QED BY <2>1, <2>2, FS_Subset
<1>6. ExistsBijection(Finishing(q), late)
  <2>1. PICK f : f = [n \in Finishing(q) |-> Len(p) + n]
    OBVIOUS
  <2>2. \A n \in Finishing(q) : f[n] = Len(p) + n /\ n \in 1 .. Len(q)
    BY <1>2, <2>1 DEF Finishing
  <2>3. ASSUME NEW n \in Finishing(q) PROVE f[n] \in late
    <3>1. n \in 1 .. Len(q) /\ q[n].kind = "finally" /\ f[n] = Len(p) + n
      <4>1. q[n].kind = "finally"
        BY DEF Finishing
      <4>2. QED BY <2>2, <4>1
    <3>2. Len(p) + n \in Len(p) + 1 .. Len(p) + Len(q) /\ ~ (Len(p) + n <= Len(p))
          /\ Len(p) + n - Len(p) = n /\ Len(p) + n \in 1 .. Len(p) + Len(q)
      BY <1>2, <3>1
    <3>3. t[Len(p) + n] = q[n]
      <4>1. PICK m : m = Len(p) + n
        OBVIOUS
      <4>2. m \in 1 .. Len(p) + Len(q) /\ ~ (m <= Len(p)) /\ m - Len(p) = n
        BY <1>2, <3>1, <4>1
      <4>3. t[m] = q[m - Len(p)]
        BY <1>2, <4>2
      <4>4. QED BY <4>1, <4>2, <4>3
    <3>4. Len(p) + n \in late
      BY <1>3, <3>1, <3>2, <3>3
    <3>5. QED BY <3>1, <3>4
  <2>4. f \in [Finishing(q) -> late]
    BY <2>1, <2>3
  <2>5. \A m, n \in Finishing(q) : f[m] = f[n] => m = n
    BY <1>2, <2>2
  <2>6. ASSUME NEW x \in late PROVE \E n \in Finishing(q) : f[n] = x
    <3>1. x - Len(p) \in Finishing(q)
      BY <1>2, <1>3 DEF Finishing
    <3>2. f[x - Len(p)] = x
      BY <1>2, <1>3, <2>2, <3>1
    <3>3. QED BY <3>1, <3>2
  <2>7. f \in Bijection(Finishing(q), late)
    BY <2>4, <2>5, <2>6, Fun_IsBij
  <2>8. QED BY <2>7 DEF ExistsBijection
<1>7. IsFiniteSet(late) /\ Cardinality(late) = Cardinality(Finishing(q))
  BY <1>5, <1>6, FS_Bijection
<1>8. Cardinality(Finishing(p) \cup late) = Cardinality(Finishing(p)) + Cardinality(late)
  <2>1. PICK a, b : a = Finishing(p) /\ b = late
    OBVIOUS
  <2>2. IsFiniteSet(a) /\ IsFiniteSet(b) /\ a \cap b = {}
    BY <1>4, <1>5, <1>7, <2>1
  <2>3. Cardinality(a \cup b) = Cardinality(a) + Cardinality(b) - Cardinality(a \cap b)
    BY <2>2, FS_Union
  <2>4. Cardinality(a \cap b) = 0 /\ Cardinality(a) \in Nat /\ Cardinality(b) \in Nat
    BY <2>2, FS_EmptySet, FS_CardinalityType
  <2>5. QED BY <2>1, <2>3, <2>4
<1>9. Cardinality(Finishing(p)) \in Nat /\ Cardinality(Finishing(q)) \in Nat
  BY <1>5, FS_CardinalityType
<1>10. QED BY <1>1, <1>4, <1>7, <1>8, <1>9

\* No job, one job.
LEMMA FinishingFew ==
  /\ Cardinality(Finishing(<<>>)) = 0
  /\ \A j \in Jobs : Cardinality(Finishing(<<j>>)) = IF j.kind = "finally" THEN 1 ELSE 0
<1>1. Finishing(<<>>) = {}
  BY DEF Finishing
<1>2. ASSUME NEW j \in Jobs
      PROVE  Finishing(<<j>>) = IF j.kind = "finally" THEN {1} ELSE {}
  BY DEF Finishing
<1>3. QED BY <1>1, <1>2, FS_EmptySet, FS_Singleton

-----------------------------------------------------------------------------
(* The state after a step.                                                 *)

\* Session i is changed to r and nothing else of the sessions.
Sets(i, r) ==
  /\ i \in DOMAIN session /\ r \in SessionType /\ Len(session') = Len(session)
  /\ session' \in Seq(SessionType)
  /\ \A k \in DOMAIN session : session'[k] = IF k = i THEN r ELSE session[k]

\* A session is changed by one EXCEPT.
LEMMA SetsOne ==
  ASSUME session \in Seq(SessionType), NEW i \in DOMAIN session, NEW r \in SessionType,
         session' = [session EXCEPT ![i] = r]
  PROVE  Sets(i, r)
<1>1. i \in 1 .. Len(session) /\ DOMAIN session = 1 .. Len(session)
  BY LenProperties
<1>2. PICK new : new = [session EXCEPT ![i] = r]
  OBVIOUS
<1>3. /\ new \in Seq(SessionType) /\ Len(new) = Len(session)
      /\ \A k \in 1 .. Len(session) : new[k] = IF k = i THEN r ELSE session[k]
  BY <1>1, <1>2, ExceptSeq
<1>4. QED BY <1>1, <1>2, <1>3 DEF Sets

\* A runtime is spawned for a session.
SpawnedOne(i) ==
  [session[i] EXCEPT !.children = @ + 1, !.started = TRUE,
                     !.status = "starting", !.ready = FALSE, !.opening = @ + 1]

\* Spawning changes the session whose runtime it is.
LEMMA SpawnedSets ==
  ASSUME session \in Seq(SessionType), NEW i \in DOMAIN session, session' = Spawned(i)
  PROVE  Sets(i, SpawnedOne(i))
<1>1. PICK r : r = SpawnedOne(i)
  OBVIOUS
<1>2. session[i] \in SessionType
  BY ElementOfSeq, LenProperties
<1>3. r \in SessionType
  <2>1. PICK s : s = session[i]
    OBVIOUS
  <2>2. s \in SessionType /\ s.children + 1 \in Nat /\ s.opening + 1 \in Nat
    BY <1>2, <2>1 DEF SessionType
  <2>3. r = [s EXCEPT !.children = s.children + 1, !.started = TRUE,
                      !.status = "starting", !.ready = FALSE, !.opening = s.opening + 1]
    BY <1>1, <2>1, <2>2 DEF SpawnedOne, SessionType
  <2>4. QED BY <2>2, <2>3 DEF SessionType
<1>4. session' = [session EXCEPT ![i] = r]
  BY <1>1, <1>2 DEF Spawned, SpawnedOne, SessionType
<1>5. QED BY <1>1, <1>3, <1>4, SetsOne

\* A prompt is put in the list of a session.
LEMMA PromptedSets ==
  ASSUME session \in Seq(SessionType), NEW i \in DOMAIN session, NEW d \in Deliveries,
         session' = [session EXCEPT ![i].prompts = Append(@, d)]
  PROVE  Sets(i, [session[i] EXCEPT !.prompts = Append(@, d)])
<1>1. PICK s : s = session[i]
  OBVIOUS
<1>2. s \in SessionType
  BY <1>1, ElementOfSeq, LenProperties
<1>3. PICK r : r = [session[i] EXCEPT !.prompts = Append(@, d)]
  OBVIOUS
<1>4. r = [s EXCEPT !.prompts = Append(s.prompts, d)]
  BY <1>1, <1>2, <1>3 DEF SessionType
<1>5. Append(s.prompts, d) \in Seq(Deliveries)
  BY <1>2 DEF SessionType
<1>6. r \in SessionType
  BY <1>2, <1>4, <1>5 DEF SessionType
<1>7. session' = [session EXCEPT ![i] = r]
  BY <1>1, <1>2, <1>3 DEF SessionType
<1>8. QED BY <1>3, <1>6, <1>7, SetsOne

\* A thread is ready.
LEMMA ReadySets ==
  ASSUME session \in Seq(SessionType), NEW i \in DOMAIN session, session[i].opening > 0,
         session' = [session EXCEPT ![i].ready = TRUE, ![i].opening = @ - 1, ![i].status = "idle"]
  PROVE  Sets(i, [session[i] EXCEPT !.ready = TRUE, !.opening = @ - 1, !.status = "idle"])
<1>1. PICK s : s = session[i]
  OBVIOUS
<1>2. s \in SessionType
  BY <1>1, ElementOfSeq, LenProperties
<1>3. PICK r : r = [session[i] EXCEPT !.ready = TRUE, !.opening = @ - 1, !.status = "idle"]
  OBVIOUS
<1>4. r = [s EXCEPT !.ready = TRUE, !.opening = s.opening - 1, !.status = "idle"]
  BY <1>1, <1>2, <1>3 DEF SessionType
<1>5. s.opening - 1 \in Nat
  BY <1>2, <1>1 DEF SessionType
<1>6. r \in SessionType
  BY <1>2, <1>4, <1>5 DEF SessionType
<1>7. session' = [session EXCEPT ![i] = r]
  BY <1>1, <1>2, <1>3 DEF SessionType
<1>8. QED BY <1>3, <1>6, <1>7, SetsOne

\* The prompts of a session are taken.
LEMMA SplicedSets ==
  ASSUME session \in Seq(SessionType), NEW i \in DOMAIN session,
         session' = [session EXCEPT ![i].prompts = <<>>]
  PROVE  Sets(i, [session[i] EXCEPT !.prompts = <<>>])
<1>1. PICK s : s = session[i]
  OBVIOUS
<1>2. s \in SessionType
  BY <1>1, ElementOfSeq, LenProperties
<1>3. PICK r : r = [session[i] EXCEPT !.prompts = <<>>]
  OBVIOUS
<1>4. r = [s EXCEPT !.prompts = <<>>]
  BY <1>1, <1>2, <1>3 DEF SessionType
<1>5. <<>> \in Seq(Deliveries)
  BY <1>2 DEF SessionType
<1>6. r \in SessionType
  BY <1>2, <1>4, <1>5 DEF SessionType
<1>7. session' = [session EXCEPT ![i] = r]
  BY <1>1, <1>2, <1>3 DEF SessionType
<1>8. QED BY <1>3, <1>6, <1>7, SetsOne

\* A turn is asked for.
LEMMA AskedSets ==
  ASSUME session \in Seq(SessionType), NEW i \in DOMAIN session, NEW d \in Deliveries,
         session' = [session EXCEPT ![i].asked = @ \cup {d}, ![i].status = "thinking"]
  PROVE  Sets(i, [session[i] EXCEPT !.asked = @ \cup {d}, !.status = "thinking"])
<1>1. PICK s : s = session[i]
  OBVIOUS
<1>2. s \in SessionType
  BY <1>1, ElementOfSeq, LenProperties
<1>3. PICK r : r = [session[i] EXCEPT !.asked = @ \cup {d}, !.status = "thinking"]
  OBVIOUS
<1>4. r = [s EXCEPT !.asked = s.asked \cup {d}, !.status = "thinking"]
  BY <1>1, <1>2, <1>3 DEF SessionType
<1>5. s.asked \cup {d} \in SUBSET Deliveries
  BY <1>2 DEF SessionType
<1>6. r \in SessionType
  BY <1>2, <1>4, <1>5 DEF SessionType
<1>7. session' = [session EXCEPT ![i] = r]
  BY <1>1, <1>2, <1>3 DEF SessionType
<1>8. QED BY <1>3, <1>6, <1>7, SetsOne

\* A turn is taken.
LEMMA TakenSets ==
  ASSUME session \in Seq(SessionType), NEW i \in DOMAIN session, NEW d,
         session' = [session EXCEPT ![i].asked = @ \ {d}, ![i].turn = TRUE, ![i].status = "working"]
  PROVE  Sets(i, [session[i] EXCEPT !.asked = @ \ {d}, !.turn = TRUE, !.status = "working"])
<1>1. PICK s : s = session[i]
  OBVIOUS
<1>2. s \in SessionType
  BY <1>1, ElementOfSeq, LenProperties
<1>3. PICK r : r = [session[i] EXCEPT !.asked = @ \ {d}, !.turn = TRUE, !.status = "working"]
  OBVIOUS
<1>4. r = [s EXCEPT !.asked = s.asked \ {d}, !.turn = TRUE, !.status = "working"]
  BY <1>1, <1>2, <1>3 DEF SessionType
<1>5. s.asked \ {d} \in SUBSET Deliveries
  BY <1>2 DEF SessionType
<1>6. r \in SessionType
  BY <1>2, <1>4, <1>5 DEF SessionType
<1>7. session' = [session EXCEPT ![i] = r]
  BY <1>1, <1>2, <1>3 DEF SessionType
<1>8. QED BY <1>3, <1>6, <1>7, SetsOne

\* A turn has ended.
LEMMA EndedSets ==
  ASSUME session \in Seq(SessionType), NEW i \in DOMAIN session, NEW x \in {"idle", "error"},
         session' = [session EXCEPT ![i].turn = FALSE, ![i].status = x]
  PROVE  Sets(i, [session[i] EXCEPT !.turn = FALSE, !.status = x])
<1>1. PICK s : s = session[i]
  OBVIOUS
<1>2. s \in SessionType
  BY <1>1, ElementOfSeq, LenProperties
<1>3. PICK r : r = [session[i] EXCEPT !.turn = FALSE, !.status = x]
  OBVIOUS
<1>4. r = [s EXCEPT !.turn = FALSE, !.status = x]
  BY <1>1, <1>2, <1>3 DEF SessionType
<1>5. x \in {"idle", "error"}
  BY <1>2 DEF SessionType
<1>6. r \in SessionType
  BY <1>2, <1>4, <1>5 DEF SessionType
<1>7. session' = [session EXCEPT ![i] = r]
  BY <1>1, <1>2, <1>3 DEF SessionType
<1>8. QED BY <1>3, <1>6, <1>7, SetsOne

\* A runtime has exited.
LEMMA ExitedSets ==
  ASSUME session \in Seq(SessionType), NEW i \in DOMAIN session, session[i].children > 0,
         session' = [session EXCEPT
                       ![i].children = @ - 1, ![i].started = FALSE,
                       ![i].status = IF @ = "stopping" THEN "offline" ELSE "error"]
  PROVE  Sets(i, [session[i] EXCEPT
                    !.children = @ - 1, !.started = FALSE,
                    !.status = IF @ = "stopping" THEN "offline" ELSE "error"])
<1>1. PICK s : s = session[i]
  OBVIOUS
<1>2. s \in SessionType
  BY <1>1, ElementOfSeq, LenProperties
<1>3. PICK r : r = [session[i] EXCEPT
                      !.children = @ - 1, !.started = FALSE,
                      !.status = IF @ = "stopping" THEN "offline" ELSE "error"]
  OBVIOUS
<1>4. r = [s EXCEPT !.children = s.children - 1, !.started = FALSE,
                    !.status = IF s.status = "stopping" THEN "offline" ELSE "error"]
  BY <1>1, <1>2, <1>3 DEF SessionType
<1>5. s.children - 1 \in Nat
  BY <1>2, <1>1 DEF SessionType
<1>6. r \in SessionType
  BY <1>2, <1>4, <1>5 DEF SessionType
<1>7. session' = [session EXCEPT ![i] = r]
  BY <1>1, <1>2, <1>3 DEF SessionType
<1>8. QED BY <1>3, <1>6, <1>7, SetsOne

\* The sessions are kept, and a lane that has none is given a new one.
MadeOne(l) ==
  /\ session' \in Seq(SessionType) /\ Len(session) <= Len(session')
  /\ lane' \in [Lanes -> 0 .. Len(session')]
  /\ SessionFor(l) \in 1 .. Len(session') /\ lane'[l] = SessionFor(l)
  /\ lane[l] # 0 => lane'[l] = lane[l]
  /\ \A k \in Lanes \ {l} : lane'[k] = lane[k]
  /\ \A i \in DOMAIN session : session'[i] = session[i]
  /\ \A i \in DOMAIN session' : i \notin DOMAIN session =>
       lane[l] = 0 /\ i = lane'[l] /\ session'[i] = NewSession(l)

\* A new session fits.
LEMMA NewSessionTyped == \A l \in Lanes : NewSession(l) \in SessionType
<1>1. <<>> \in Seq(Deliveries) /\ {} \in SUBSET Deliveries
  OBVIOUS
<1>2. QED BY <1>1 DEF NewSession, SessionType

\* sessionFor keeps what there is.
LEMMA MadeFits ==
  ASSUME session \in Seq(SessionType), lane \in [Lanes -> 0 .. Len(session)],
         NEW l \in Lanes, Made(l)
  PROVE  MadeOne(l)
<1>1. Len(session) \in Nat /\ DOMAIN session = 1 .. Len(session)
  BY LenProperties
<1>2. CASE lane[l] # 0
  <2>1. session' = session /\ lane' = lane
    BY <1>2 DEF Made, sessions
  <2>2. lane[l] \in 1 .. Len(session) /\ SessionFor(l) = lane[l]
    BY <1>1, <1>2 DEF SessionFor
  <2>3. QED BY <1>1, <2>1, <2>2 DEF MadeOne
<1>3. CASE lane[l] = 0
  <2>1. PICK n : n = Append(session, NewSession(l))
    OBVIOUS
  <2>2. /\ n \in Seq(SessionType) /\ Len(n) = Len(session) + 1
        /\ \A i \in 1 .. Len(session) : n[i] = session[i]
        /\ n[Len(session) + 1] = NewSession(l)
        /\ DOMAIN n = 1 .. Len(session) + 1
    BY <2>1, NewSessionTyped, AppendProperties, LenProperties
  <2>3. session' = n /\ lane' = [lane EXCEPT ![l] = Len(session) + 1]
    BY <1>3, <2>1 DEF Made
  <2>4. SessionFor(l) = Len(session) + 1
    BY <1>3 DEF SessionFor
  <2>5. lane' \in [Lanes -> 0 .. Len(session) + 1]
    <3>1. 0 .. Len(session) \subseteq 0 .. Len(session) + 1
      BY <1>1
    <3>2. Len(session) + 1 \in 0 .. Len(session) + 1
      BY <1>1
    <3>3. QED BY <2>3, <3>1, <3>2
  <2>6. Len(session) + 1 \in 1 .. Len(session) + 1 /\ Len(session) <= Len(session) + 1
    BY <1>1
  <2>7. lane'[l] = Len(session) + 1 /\ \A k \in Lanes \ {l} : lane'[k] = lane[k]
    BY <2>3
  <2>8. /\ session' \in Seq(SessionType) /\ Len(session') = Len(session) + 1
        /\ \A i \in DOMAIN session : session'[i] = session[i]
    BY <1>1, <2>2, <2>3
  <2>9. ASSUME NEW i \in DOMAIN session', i \notin DOMAIN session
        PROVE  i = lane'[l] /\ session'[i] = NewSession(l)
    <3>1. i = Len(session) + 1
      BY <1>1, <2>2, <2>3, <2>9
    <3>2. QED BY <2>2, <2>3, <2>7, <3>1
  <2>10. QED BY <1>3, <2>4, <2>5, <2>6, <2>7, <2>8, <2>9 DEF MadeOne
<1>4. QED BY <1>2, <1>3

\* A stop changes nothing but the status of sessions, and only to stopping.
OnlyStopped(new) ==
  /\ new \in Seq(SessionType) /\ Len(new) = Len(session)
  /\ \A i \in DOMAIN session :
       new[i] = session[i] \/ new[i] = [session[i] EXCEPT !.status = "stopping"]

\* handleAgentStop's sessions are stopped, and the others as they were.
LEMMA StoppedFits ==
  ASSUME session \in Seq(SessionType), NEW a
  PROVE  OnlyStopped(Stopped(a))
<1>1. Len(session) \in Nat /\ DOMAIN session = 1 .. Len(session)
  BY LenProperties
<1>2. PICK new : new = Stopped(a)
  OBVIOUS
<1>3. \A i \in DOMAIN session :
        new[i] = session[i] \/ new[i] = [session[i] EXCEPT !.status = "stopping"]
  BY <1>2 DEF Stopped
<1>4. ASSUME NEW i \in DOMAIN session PROVE new[i] \in SessionType
  <2>1. session[i] \in SessionType
    BY ElementOfSeq, LenProperties
  <2>2. [session[i] EXCEPT !.status = "stopping"] \in SessionType
    BY <2>1 DEF SessionType
  <2>3. QED BY <1>3, <2>1, <2>2
<1>5. new \in [1 .. Len(session) -> SessionType]
  BY <1>1, <1>2, <1>4 DEF Stopped
<1>6. new \in Seq(SessionType) /\ Len(new) = Len(session)
  BY <1>1, <1>5
<1>7. QED BY <1>2, <1>3, <1>6 DEF OnlyStopped

\* enqueueAgentStart: the start of one agent, the queue and the jobs.
Enqueued(a, i, waiters, rest) ==
  /\ \A b \in Agents \ {a} : starts'[b] = starts[b]
  /\ \/ /\ starts[a].state # "none"
        /\ starts'[a] = [starts[a] EXCEPT !.waiters = starts[a].waiters \o waiters]
        /\ startQueue' = startQueue /\ jobs' = rest
     \/ /\ starts[a].state = "none"
        /\ starts'[a] = [state |-> "queued", session |-> i, waiters |-> waiters]
        /\ startQueue' = Append(startQueue, a)
        /\ jobs' = <<Job("pump", Nobody)>> \o rest

\* enqueueAgentStart is one of the two.
LEMMA EnqueueFits ==
  ASSUME NEW a \in Agents, NEW i, NEW waiters, NEW rest,
         starts \in [Agents -> [state : {"none", "queued", "running"},
                                session : 0 .. Len(session), waiters : Seq(Deliveries)]],
         EnqueueAgentStart(a, i, waiters, rest)
  PROVE  Enqueued(a, i, waiters, rest)
<1>1. CASE starts[a].state # "none"
  <2>1. /\ starts' = [starts EXCEPT ![a].waiters = @ \o waiters]
        /\ jobs' = rest /\ startQueue' = startQueue
    BY <1>1 DEF EnqueueAgentStart
  <2>2. /\ \A b \in Agents \ {a} : starts'[b] = starts[b]
        /\ starts'[a] = [starts[a] EXCEPT !.waiters = starts[a].waiters \o waiters]
    BY <2>1
  <2>3. QED BY <1>1, <2>1, <2>2 DEF Enqueued
<1>2. CASE starts[a].state = "none"
  <2>1. /\ starts' = [starts EXCEPT ![a] =
                        [state |-> "queued", session |-> i, waiters |-> waiters]]
        /\ startQueue' = Append(startQueue, a)
        /\ jobs' = <<Job("pump", Nobody)>> \o rest
    BY <1>2 DEF EnqueueAgentStart
  <2>2. /\ \A b \in Agents \ {a} : starts'[b] = starts[b]
        /\ starts'[a] = [state |-> "queued", session |-> i, waiters |-> waiters]
    BY <2>1
  <2>3. QED BY <1>2, <2>1, <2>2 DEF Enqueued
<1>3. QED BY <1>1, <1>2

-----------------------------------------------------------------------------
(* The jobs after a step.                                                  *)

\* What the jobs are made of, p and t in some order.
Joined(new, p, t) ==
  /\ new \in Seq(Jobs) /\ Range(new) = Range(p) \cup Range(t)
  /\ Cardinality(Finishing(new)) = Cardinality(Finishing(p)) + Cardinality(Finishing(t))
  /\ Cardinality(Finishing(p)) \in Nat /\ Cardinality(Finishing(t)) \in Nat
  /\ NoClash(p) /\ NoClash(t) /\ (\A j \in Range(p) : \A k \in Range(t) : ~Clash(j, k))
       => NoClash(new)

\* Jobs put in front of others.
LEMMA JoinedFront ==
  ASSUME NEW p \in Seq(Jobs), NEW t \in Seq(Jobs)
  PROVE  Joined(p \o t, p, t)
<1>1. PICK new : new = p \o t
  OBVIOUS
<1>2. new \in Seq(Jobs) /\ Range(new) = Range(p) \cup Range(t)
  BY <1>1, ConcatRange
<1>3. /\ Cardinality(Finishing(new)) = Cardinality(Finishing(p)) + Cardinality(Finishing(t))
      /\ Cardinality(Finishing(p)) \in Nat /\ Cardinality(Finishing(t)) \in Nat
  BY <1>1, FinishingConcat
<1>4. NoClash(p) /\ NoClash(t) /\ (\A j \in Range(p) : \A k \in Range(t) : ~Clash(j, k))
        => NoClash(new)
  BY <1>1, NoClashConcat
<1>5. QED BY <1>1, <1>2, <1>3, <1>4 DEF Joined

\* Jobs put behind others.
LEMMA JoinedBack ==
  ASSUME NEW p \in Seq(Jobs), NEW t \in Seq(Jobs)
  PROVE  Joined(t \o p, p, t)
<1>1. PICK new : new = t \o p
  OBVIOUS
<1>2. new \in Seq(Jobs) /\ Range(new) = Range(p) \cup Range(t)
  BY <1>1, ConcatRange
<1>3. /\ Cardinality(Finishing(new)) = Cardinality(Finishing(p)) + Cardinality(Finishing(t))
      /\ Cardinality(Finishing(p)) \in Nat /\ Cardinality(Finishing(t)) \in Nat
  BY <1>1, FinishingConcat
<1>4. NoClash(p) /\ NoClash(t) /\ (\A j \in Range(p) : \A k \in Range(t) : ~Clash(j, k))
        => NoClash(new)
  <2>1. (\A j \in Range(p) : \A k \in Range(t) : ~Clash(j, k))
          => \A j \in Range(t) : \A k \in Range(p) : ~Clash(j, k)
    BY DEF Clash
  <2>2. QED BY <1>1, <2>1, NoClashConcat
<1>5. QED BY <1>1, <1>2, <1>3, <1>4 DEF Joined

\* The first job is taken, t are the others.
Taken(q, t) ==
  /\ t \in Seq(Jobs) /\ Range(q) = {Head(q)} \cup Range(t) /\ Head(q) \in Range(q)
  /\ Cardinality(Finishing(t)) \in Nat
  /\ Cardinality(Finishing(q)) =
       Cardinality(Finishing(t)) + (IF Head(q).kind = "finally" THEN 1 ELSE 0)
  /\ NoClash(q) => NoClash(t) /\ \A j \in Range(t) : ~Clash(Head(q), j) /\ ~Clash(j, Head(q))

\* The first job is taken off.
LEMMA TakesJob ==
  ASSUME NEW q \in Seq(Jobs), q # <<>>
  PROVE  Taken(q, Tail(q))
<1>1. PICK t, h, one : t = Tail(q) /\ h = Head(q) /\ one = <<h>>
  OBVIOUS
<1>2. t \in Seq(Jobs) /\ h \in Jobs /\ Range(q) = {h} \cup Range(t) /\ q = one \o t
  BY <1>1, TailRange
<1>3. one \in Seq(Jobs) /\ Cardinality(Finishing(one)) = IF h.kind = "finally" THEN 1 ELSE 0
  BY <1>1, <1>2, FinishingFew, FewRange
<1>4. /\ Cardinality(Finishing(q)) = Cardinality(Finishing(one)) + Cardinality(Finishing(t))
      /\ Cardinality(Finishing(t)) \in Nat
  BY <1>2, <1>3, FinishingConcat
<1>5. NoClash(q) => NoClash(t) /\ \A j \in Range(t) : ~Clash(h, j) /\ ~Clash(j, h)
  BY <1>1, NoClashTail
<1>6. Cardinality(Finishing(q)) = Cardinality(Finishing(t)) + (IF h.kind = "finally" THEN 1 ELSE 0)
  BY <1>3, <1>4
<1>7. QED BY <1>1, <1>2, <1>4, <1>5, <1>6 DEF Taken

\* Jobs that clash with nothing, of which none counts a start down.
Harmless(p) ==
  /\ p \in Seq(Jobs) /\ NoClash(p) /\ Cardinality(Finishing(p)) = 0
  /\ \A j \in Range(p) : j.kind \notin {"give", "deliver", "turns", "settled", "finally"}

\* The kinds of a list say that it is harmless.
LEMMA KindsHarmless ==
  ASSUME NEW p \in Seq(Jobs),
         \A j \in Range(p) : j.kind \notin {"give", "deliver", "turns", "settled", "finally"}
  PROVE  Harmless(p)
<1>1. \A n \in DOMAIN p : p[n] \in Range(p)
  BY DEF Range
<1>2. NoClash(p)
  BY <1>1 DEF NoClash, Clash
<1>3. Finishing(p) = {}
  BY <1>1 DEF Finishing
<1>4. Cardinality(Finishing(p)) = 0
  BY <1>3, FS_EmptySet
<1>5. QED BY <1>2, <1>4 DEF Harmless

\* One job.
LEMMA OneJob ==
  ASSUME NEW j \in Jobs
  PROVE  /\ <<j>> \in Seq(Jobs) /\ Range(<<j>>) = {j} /\ NoClash(<<j>>)
         /\ Cardinality(Finishing(<<j>>)) = IF j.kind = "finally" THEN 1 ELSE 0
<1>1. NoClash(<<j>>)
  BY DEF NoClash
<1>2. <<>> \in Seq(Jobs)
  OBVIOUS
<1>3. <<j>> \in Seq(Jobs) /\ Range(<<j>>) = {j}
  BY <1>2, FewRange
<1>4. QED BY <1>1, <1>3, FinishingFew

\* A sequence of two elements.
LEMMA TwoRange ==
  ASSUME NEW S, NEW x \in S, NEW y \in S
  PROVE  <<x, y>> \in Seq(S) /\ Range(<<x, y>>) = {x, y}
<1>1. <<x, y>> \in Seq(S) /\ DOMAIN <<x, y>> = {1, 2}
  OBVIOUS
<1>2. QED BY <1>1 DEF Range

\* What a change of status makes, and no job at all.
LEMMA StatusJobs ==
  /\ Harmless(StatusChange)
  /\ Range(StatusChange) = {Job("drain", Nobody), Job("upgrade", Nobody)}
  /\ Job("drain", Nobody).kind = "drain" /\ Job("upgrade", Nobody).kind = "upgrade"
<1>1. Job("drain", Nobody) \in Jobs /\ Job("upgrade", Nobody) \in Jobs
  BY DEF Job, Jobs, JobKinds
<1>2. PICK x, y : x = Job("drain", Nobody) /\ y = Job("upgrade", Nobody)
  OBVIOUS
<1>3. <<x, y>> \in Seq(Jobs) /\ Range(<<x, y>>) = {x, y}
  <2>1. x \in Jobs /\ y \in Jobs /\ <<>> \in Seq(Jobs)
    BY <1>1, <1>2
  <2>2. QED BY <2>1, TwoRange
<1>4. x.kind = "drain" /\ y.kind = "upgrade"
  BY <1>2 DEF Job
<1>5. PICK q : q = <<x, y>>
  OBVIOUS
<1>6. Harmless(q)
  BY <1>3, <1>4, <1>5, KindsHarmless
<1>7. StatusChange = q
  BY <1>2, <1>5 DEF StatusChange
<1>8. QED BY <1>2, <1>3, <1>4, <1>5, <1>6, <1>7

\* No jobs do no harm.
LEMMA NoJobs == Harmless(<<>>) /\ Range(<<>>) = {} /\ <<>> \in Seq(Jobs)
<1>1. <<>> \in Seq(Jobs) /\ Range(<<>>) = {}
  BY DEF Range
<1>2. QED BY <1>1, KindsHarmless

\* The jobs of a call that has returned.
LEMMA ReturnedJobs ==
  ASSUME NEW d \in Deliveries
  PROVE  /\ Returned(d) \in Seq(Jobs) /\ NoClash(Returned(d))
         /\ Cardinality(Finishing(Returned(d))) = 0
         /\ Range(Returned(d)) =
              (IF drain.item = d THEN {Job("drained", d)} ELSE {})
                \cup (IF call[d].rest # <<>> THEN {Job("turns", d)} ELSE {})
         /\ Job("drained", d).kind = "drained" /\ Job("turns", d).kind = "turns"
         /\ Job("drained", d).arg = d /\ Job("turns", d).arg = d
<1>1. PICK x, y : x = Job("drained", d) /\ y = Job("turns", d)
  OBVIOUS
<1>2. x \in Jobs /\ y \in Jobs /\ x.kind = "drained" /\ y.kind = "turns" /\ x.arg = d /\ y.arg = d
  BY <1>1 DEF Job, Jobs, JobKinds
<1>3. PICK p, q : /\ p = IF drain.item = d THEN <<x>> ELSE <<>>
                  /\ q = IF call[d].rest # <<>> THEN <<y>> ELSE <<>>
  OBVIOUS
<1>4. Returned(d) = p \o q
  BY <1>1, <1>3 DEF Returned
<1>5. /\ p \in Seq(Jobs) /\ Range(p) = (IF drain.item = d THEN {x} ELSE {}) /\ NoClash(p)
      /\ Cardinality(Finishing(p)) = 0
  <2>1. CASE drain.item = d
    BY <1>2, <1>3, <2>1, OneJob
  <2>2. CASE drain.item # d
    BY <1>3, <2>2, NoJobs DEF Harmless
  <2>3. QED BY <2>1, <2>2
<1>6. /\ q \in Seq(Jobs) /\ Range(q) = (IF call[d].rest # <<>> THEN {y} ELSE {}) /\ NoClash(q)
      /\ Cardinality(Finishing(q)) = 0
  <2>1. CASE call[d].rest # <<>>
    BY <1>2, <1>3, <2>1, OneJob
  <2>2. CASE call[d].rest = <<>>
    BY <1>3, <2>2, NoJobs DEF Harmless
  <2>3. QED BY <2>1, <2>2
<1>7. Joined(p \o q, p, q)
  BY <1>5, <1>6, JoinedFront
<1>8. \A j \in Range(p) : \A k \in Range(q) : ~Clash(j, k)
  BY <1>2, <1>5, <1>6 DEF Clash
<1>9. /\ p \o q \in Seq(Jobs) /\ Range(p \o q) = Range(p) \cup Range(q)
      /\ NoClash(p \o q) /\ Cardinality(Finishing(p \o q)) = 0
  BY <1>5, <1>6, <1>7, <1>8 DEF Joined
<1>10. QED BY <1>1, <1>2, <1>4, <1>5, <1>6, <1>9

-----------------------------------------------------------------------------
(* Types.                                                                  *)

Calls(n) == [Deliveries -> [phase : Phases, session : 0 .. n, rest : Seq(Deliveries)]]
Starts(n) == [Agents -> [state : {"none", "queued", "running"},
                         session : 0 .. n, waiters : Seq(Deliveries)]]

\* More sessions leave what refers to a session as it is.
LEMMA MoreSessions ==
  ASSUME NEW m \in Nat, NEW n \in Nat, m <= n
  PROVE  Calls(m) \subseteq Calls(n) /\ Starts(m) \subseteq Starts(n)
<1>1. 0 .. m \subseteq 0 .. n
  OBVIOUS
<1>2. PICK p, q : p = 0 .. m /\ q = 0 .. n
  OBVIOUS
<1>3. p \subseteq q
  BY <1>1, <1>2
<1>4. [phase : Phases, session : p, rest : Seq(Deliveries)]
        \subseteq [phase : Phases, session : q, rest : Seq(Deliveries)]
  BY <1>3
<1>5. [state : {"none", "queued", "running"}, session : p, waiters : Seq(Deliveries)]
        \subseteq [state : {"none", "queued", "running"}, session : q, waiters : Seq(Deliveries)]
  BY <1>3
<1>6. QED BY <1>2, <1>4, <1>5 DEF Calls, Starts

\* What every proof needs of the types.
LEMMA Types ==
  ASSUME Typed
  PROVE  /\ call \in Calls(Len(session)) /\ starts \in Starts(Len(session))
         /\ session \in Seq(SessionType) /\ Len(session) \in Nat
         /\ DOMAIN session = 1 .. Len(session)
         /\ lane \in [Lanes -> 0 .. Len(session)]
         /\ waiting \in Seq(Deliveries) /\ jobs \in Seq(Jobs) /\ startQueue \in Seq(Agents)
         /\ \A i \in DOMAIN session : session[i] \in SessionType
         /\ \A d \in Deliveries :
              /\ call[d].phase \in Phases /\ call[d].session \in 0 .. Len(session)
              /\ call[d].rest \in Seq(Deliveries)
              /\ call[d] = [phase |-> call[d].phase, session |-> call[d].session,
                            rest |-> call[d].rest]
         /\ \A a \in Agents :
              /\ starts[a].state \in {"none", "queued", "running"}
              /\ starts[a].session \in 0 .. Len(session) /\ starts[a].waiters \in Seq(Deliveries)
<1>1. /\ call \in Calls(Len(session)) /\ starts \in Starts(Len(session))
      /\ session \in Seq(SessionType) /\ lane \in [Lanes -> 0 .. Len(session)]
      /\ waiting \in Seq(Deliveries) /\ jobs \in Seq(Jobs) /\ startQueue \in Seq(Agents)
  BY DEF Typed, DaemonTypeOK, Calls, Starts
<1>2. Len(session) \in Nat /\ DOMAIN session = 1 .. Len(session)
  BY <1>1, LenProperties
<1>3. \A i \in DOMAIN session : session[i] \in SessionType
  BY <1>1, <1>2, ElementOfSeq
<1>4. ASSUME NEW d \in Deliveries
      PROVE  /\ call[d].phase \in Phases /\ call[d].session \in 0 .. Len(session)
             /\ call[d].rest \in Seq(Deliveries)
             /\ call[d] = [phase |-> call[d].phase, session |-> call[d].session,
                           rest |-> call[d].rest]
  BY <1>1 DEF Calls
<1>5. ASSUME NEW a \in Agents
      PROVE  /\ starts[a].state \in {"none", "queued", "running"}
             /\ starts[a].session \in 0 .. Len(session) /\ starts[a].waiters \in Seq(Deliveries)
  BY <1>1 DEF Starts
<1>6. QED BY <1>1, <1>2, <1>3, <1>4, <1>5

\* The deliveries other than d are left alone.
Others(M) == \A e \in Deliveries \ M : call'[e] = call[e]

\* A delivery moves.
MovesTo(d, phase) ==
  /\ call'[d].phase = phase /\ call'[d].session = call[d].session
  /\ call'[d].rest = call[d].rest /\ Others({d})
  /\ call' \in Calls(Len(session))

\* Moved says so.
LEMMA MovedOne ==
  ASSUME Typed, NEW d \in Deliveries, NEW phase \in Phases, Moved(d, phase)
  PROVE  MovesTo(d, phase)
<1>1. PICK c : c = call[d]
  OBVIOUS
<1>2. /\ c \in [phase : Phases, session : 0 .. Len(session), rest : Seq(Deliveries)]
      /\ call \in Calls(Len(session))
  BY <1>1, Types DEF Calls
<1>3. PICK n : n = [c EXCEPT !.phase = phase]
  OBVIOUS
<1>4. /\ n.phase = phase /\ n.session = c.session /\ n.rest = c.rest
      /\ n \in [phase : Phases, session : 0 .. Len(session), rest : Seq(Deliveries)]
  BY <1>2, <1>3
<1>5. call' = [call EXCEPT ![d] = n]
  BY <1>1, <1>2, <1>3 DEF Moved, Calls
<1>6. call' \in Calls(Len(session)) /\ call'[d] = n /\ Others({d})
  BY <1>2, <1>4, <1>5 DEF Calls, Others
<1>7. QED BY <1>1, <1>4, <1>6 DEF MovesTo

\* The types after a step, from those of its parts.
LEMMA TypedAfter ==
  ASSUME Typed,
         session' \in Seq(SessionType), Len(session) <= Len(session'),
         lane' \in [Lanes -> 0 .. Len(session')],
         call' \in Calls(Len(session)) \/ call' \in Calls(Len(session')),
         starts' \in Starts(Len(session)) \/ starts' \in Starts(Len(session')),
         waiting' \in Seq(Deliveries),
         drain' \in [on : BOOLEAN, item : Deliveries \cup {Nobody}, at : Nat],
         startQueue' \in Seq(Agents), active' \in 0 .. MaxStarts,
         lastStart' \in Agents \cup {Nobody}, paced' \in BOOLEAN,
         upgrade' \in {"none", "asked", "pending", "starting", "worker", "refused"},
         trouble' \in 0 .. MaxTrouble, jobs' \in Seq(Jobs)
  PROVE  Typed'
<1>1. Len(session) \in Nat /\ Len(session') \in Nat
  BY Types, LenProperties
<1>2. PICK m, n : m = Len(session) /\ n = Len(session')
  OBVIOUS
<1>3. Calls(m) \subseteq Calls(n) /\ Starts(m) \subseteq Starts(n)
  BY <1>1, <1>2, MoreSessions
<1>4. call' \in Calls(n) /\ starts' \in Starts(n)
  BY <1>2, <1>3
<1>5. /\ call' \in [Deliveries ->
                      [phase : Phases, session : 0 .. Len(session'), rest : Seq(Deliveries)]]
      /\ starts' \in [Agents -> [state : {"none", "queued", "running"},
                                 session : 0 .. Len(session'), waiters : Seq(Deliveries)]]
  BY <1>2, <1>4 DEF Calls, Starts
<1>6. QED BY <1>5 DEF Typed, DaemonTypeOK

\* The types of what a step leaves alone.
LEMMA TypedBefore ==
  ASSUME Typed
  PROVE  /\ drain \in [on : BOOLEAN, item : Deliveries \cup {Nobody}, at : Nat]
         /\ active \in 0 .. MaxStarts /\ lastStart \in Agents \cup {Nobody}
         /\ paced \in BOOLEAN /\ trouble \in 0 .. MaxTrouble
         /\ upgrade \in {"none", "asked", "pending", "starting", "worker", "refused"}
  BY DEF Typed, DaemonTypeOK

\* One more trouble.
LEMMA MoreTrouble ==
  ASSUME Bounds, Typed, trouble < MaxTrouble, trouble' = trouble + 1
  PROVE  trouble' \in 0 .. MaxTrouble
<1>1. MaxTrouble \in Nat /\ trouble \in 0 .. MaxTrouble
  BY TypedBefore DEF Bounds
<1>2. QED BY <1>1

\* The lane and the agent of a delivery.
LEMMA LaneAndAgent ==
  ASSUME Bounds
  PROVE  /\ \A d \in Deliveries : LaneOf[d] \in Lanes /\ AgentOfCall(d) \in Agents
         /\ \A l \in Lanes : AgentOf[l] \in Agents
  BY DEF Bounds, AgentOfCall, Agents

-----------------------------------------------------------------------------
(* One step's jobs.                                                        *)

\* After a step the jobs are p, which are new, and t, which are left.
Onward(p, t) ==
  /\ p \in Seq(Jobs) /\ t \in Seq(Jobs) /\ Joined(jobs', p, t)
  /\ Range(t) \subseteq Range(jobs) /\ (NoClash(jobs) => NoClash(t))

\* A step of its own: there were no jobs.
IdleStep(p) ==
  /\ Onward(p, <<>>) /\ Range(<<>>) = {} /\ Range(jobs) = {} /\ jobs' = p
  /\ Range(jobs') = Range(p)
  /\ Cardinality(Finishing(jobs)) = 0 /\ Cardinality(Finishing(<<>>)) = 0
  /\ Cardinality(Finishing(jobs')) = Cardinality(Finishing(p))

\* A step without jobs leaves what it says.
LEMMA IdleOnward ==
  ASSUME jobs = <<>>, NEW p \in Seq(Jobs), jobs' = p
  PROVE  IdleStep(p)
<1>1. PICK e : e = <<>>
  OBVIOUS
<1>2. /\ e \in Seq(Jobs) /\ Range(e) = {} /\ NoClash(e) /\ Cardinality(Finishing(e)) = 0
  <2>1. <<>> \in Seq(Jobs) /\ Range(<<>>) = {}
    BY DEF Range
  <2>2. NoClash(<<>>)
    BY DEF NoClash
  <2>3. QED BY <1>1, <2>1, <2>2, FinishingFew
<1>3. Joined(p \o e, p, e)
  BY <1>2, JoinedFront
<1>4. p \o e = p
  BY <1>1, ConcatEmptySeq
<1>5. Joined(p, p, e)
  BY <1>3, <1>4
<1>6. Range(p) = Range(p) \cup Range(e)
  BY <1>2
<1>7. QED BY <1>1, <1>2, <1>5, <1>6 DEF IdleStep, Onward

\* A job is done: p, in front of the others or behind them, is new.
JobStep(p) ==
  /\ Onward(p, Tail(jobs)) /\ Taken(jobs, Tail(jobs)) /\ jobs \in Seq(Jobs)
  /\ Range(jobs') = Range(p) \cup Range(Tail(jobs))
  /\ Head(jobs) \in Range(jobs) /\ Head(jobs) \in Jobs

\* The next job is taken.
LEMMA JobOnward ==
  ASSUME jobs \in Seq(Jobs), jobs # <<>>, NEW p \in Seq(Jobs),
         jobs' = p \o Tail(jobs) \/ jobs' = Tail(jobs) \o p
  PROVE  JobStep(p)
<1>1. PICK t : t = Tail(jobs)
  OBVIOUS
<1>2. Taken(jobs, t)
  BY <1>1, TakesJob
<1>3. t \in Seq(Jobs) /\ Range(t) \subseteq Range(jobs) /\ (NoClash(jobs) => NoClash(t))
  BY <1>2 DEF Taken
<1>4. Joined(p \o t, p, t) /\ Joined(t \o p, p, t)
  BY <1>3, JoinedFront, JoinedBack
<1>5. Joined(jobs', p, t)
  BY <1>1, <1>4
<1>6. Range(jobs') = Range(p) \cup Range(t)
  BY <1>5 DEF Joined
<1>7. Head(jobs) \in Range(jobs) /\ Head(jobs) \in Jobs
  BY <1>2, TailRange DEF Taken
<1>8. QED BY <1>1, <1>2, <1>3, <1>5, <1>6, <1>7 DEF JobStep, Onward

\* Nothing new, or one job more at the end.
LEMMA JobDone ==
  ASSUME jobs \in Seq(Jobs), jobs # <<>>
  PROVE  /\ jobs' = Tail(jobs) => JobStep(<<>>)
         /\ \A j \in Jobs : jobs' = Append(Tail(jobs), j) => JobStep(<<j>>)
<1>1. PICK t : t = Tail(jobs)
  OBVIOUS
<1>2. t \in Seq(Jobs)
  BY <1>1, TailRange
<1>3. <<>> \in Seq(Jobs) /\ <<>> \o t = t
  BY <1>2, ConcatEmptySeq
<1>4. jobs' = t => JobStep(<<>>)
  BY <1>1, <1>3, JobOnward
<1>5. ASSUME NEW j \in Jobs, jobs' = Append(t, j) PROVE JobStep(<<j>>)
  <2>1. <<j>> \in Seq(Jobs) /\ Append(t, j) = t \o <<j>>
    BY <1>2
  <2>2. QED BY <1>1, <1>5, <2>1, JobOnward
<1>6. QED BY <1>1, <1>4, <1>5

\* A change of status and one job more.
LEMMA StatusAnd ==
  ASSUME NEW j \in Jobs
  PROVE  /\ Append(StatusChange, j) \in Seq(Jobs)
         /\ Range(Append(StatusChange, j)) = {Job("drain", Nobody), Job("upgrade", Nobody), j}
         /\ NoClash(Append(StatusChange, j))
         /\ Cardinality(Finishing(Append(StatusChange, j))) = IF j.kind = "finally" THEN 1 ELSE 0
<1>1. PICK p, q : p = StatusChange /\ q = <<j>>
  OBVIOUS
<1>2. /\ p \in Seq(Jobs) /\ NoClash(p) /\ Cardinality(Finishing(p)) = 0
      /\ Range(p) = {Job("drain", Nobody), Job("upgrade", Nobody)}
      /\ \A k \in Range(p) : k.kind \notin {"give", "deliver", "turns", "settled", "finally"}
  BY <1>1, StatusJobs DEF Harmless
<1>3. /\ q \in Seq(Jobs) /\ Range(q) = {j} /\ NoClash(q)
      /\ Cardinality(Finishing(q)) = IF j.kind = "finally" THEN 1 ELSE 0
  BY <1>1, OneJob
<1>4. Joined(q \o p, q, p) /\ Joined(p \o q, q, p)
  BY <1>2, <1>3, JoinedFront, JoinedBack
<1>5. \A k \in Range(q) : \A h \in Range(p) : ~Clash(k, h)
  BY <1>2 DEF Clash
<1>6. /\ p \o q \in Seq(Jobs) /\ Range(p \o q) = Range(q) \cup Range(p) /\ NoClash(p \o q)
      /\ Cardinality(Finishing(p \o q)) = Cardinality(Finishing(q)) + Cardinality(Finishing(p))
  BY <1>2, <1>3, <1>4, <1>5 DEF Joined
<1>7. Append(p, j) = p \o q
  BY <1>1, <1>2
<1>8. Cardinality(Finishing(p \o q)) = IF j.kind = "finally" THEN 1 ELSE 0
  BY <1>2, <1>3, <1>6
<1>9. QED BY <1>1, <1>2, <1>3, <1>6, <1>7, <1>8

-----------------------------------------------------------------------------
(* The start queue: what each step does to it.                             *)

\* Finitely many starts run.
LEMMA RunningFinite ==
  ASSUME Bounds
  PROVE  IsFiniteSet(Running) /\ Cardinality(Running) \in Nat
<1>1. Agents = {AgentOf[l] : l \in Lanes} /\ AgentOf \in [Lanes -> Agents] /\ IsFiniteSet(Lanes)
  BY DEF Bounds, Agents
<1>2. AgentOf \in Surjection(Lanes, Agents)
  BY <1>1 DEF Surjection
<1>3. IsFiniteSet(Agents)
  BY <1>1, <1>2, FS_Surjection
<1>4. Running \in SUBSET Agents
  BY DEF Running
<1>5. IsFiniteSet(Running)
  BY <1>3, <1>4, FS_Subset
<1>6. QED BY <1>5, FS_CardinalityType

\* What the invariant says of the starts, and that the count is a number.
LEMMA StartsFacts ==
  ASSUME Bounds, Typed, StartsInv
  PROVE  /\ active = Cardinality(Running) + Cardinality(Finishing(jobs))
         /\ Cardinality(Running) \in Nat /\ IsFiniteSet(Running)
         /\ Cardinality(Finishing(jobs)) \in Nat /\ active \in Nat
<1>1. Cardinality(Finishing(jobs)) \in Nat
  <2>1. jobs \in Seq(Jobs) /\ <<>> \in Seq(Jobs)
    BY Types
  <2>2. QED BY <2>1, FinishingConcat
<1>2. active = Cardinality(Running) + Cardinality(Finishing(jobs))
  BY DEF StartsInv, CountIsExact
<1>3. QED BY <1>1, <1>2, RunningFinite

\* No start, nor the queue, is changed by the step.
StartsSame ==
  /\ \A a \in Agents :
       starts'[a].state = starts[a].state /\ starts'[a].session = starts[a].session
  /\ startQueue' = startQueue /\ active' = active /\ paced' = paced

\* Left jobs and new ones that count no start down, with the pump among them when
\* it was to come.
JobsKept(p, t) ==
  /\ Onward(p, t)
  /\ Cardinality(Finishing(t)) = Cardinality(Finishing(jobs))
  /\ Cardinality(Finishing(p)) = 0
  /\ \A j \in Range(p) : (j.kind = "settled" => j.arg \in Running) /\ j.kind # "finally"
  /\ (\E j \in Range(jobs) : j.kind = "pump") => \E j \in Range(t) : j.kind = "pump"

\* Such a step keeps the queue's part of the invariant.
LEMMA StartsFrame ==
  ASSUME Bounds, Typed, StartsInv, StartsSame, NEW p, NEW t, JobsKept(p, t),
         DOMAIN session \subseteq DOMAIN session'
  PROVE  StartsInv'
<1>1. Running' = Running
  BY DEF StartsSame, Running
<1>2. /\ Range(jobs') = Range(p) \cup Range(t) /\ Range(t) \subseteq Range(jobs)
      /\ Cardinality(Finishing(jobs')) = Cardinality(Finishing(p)) + Cardinality(Finishing(t))
  BY DEF JobsKept, Onward, Joined
<1>3. Cardinality(Finishing(jobs')) = Cardinality(Finishing(jobs))
  BY <1>2, StartsFacts DEF JobsKept
<1>4. CountIsExact'
  <2>1. active' = Cardinality(Running) + Cardinality(Finishing(jobs'))
    BY <1>3, StartsFacts DEF StartsSame
  <2>2. QED BY <1>1, <2>1 DEF CountIsExact
<1>5. QueueIsQueued'
  BY DEF StartsInv, QueueIsQueued, StartsSame
<1>6. StartJobs'
  <2>1. \A j \in Range(jobs') : j.kind = "settled" => j.arg \in Running'
    BY <1>1, <1>2 DEF StartsInv, StartJobs, JobsKept
  <2>2. \A j \in Range(jobs') : j.kind = "finally" => j.arg \in Agents
    BY <1>2 DEF StartsInv, StartJobs, JobsKept
  <2>3. \A a \in Agents : starts'[a].state # "none" => starts'[a].session \in DOMAIN session'
    BY DEF StartsInv, StartJobs, StartsSame
  <2>4. QED BY <2>1, <2>2, <2>3 DEF StartJobs
<1>7. PumpIsComing'
  BY <1>2 DEF StartsInv, PumpIsComing, StartsSame, JobsKept
<1>8. QED BY <1>4, <1>5, <1>6, <1>7 DEF StartsInv

\* A step of its own that makes no job of a start.
LEMMA IdleKept ==
  ASSUME NEW p, IdleStep(p), Cardinality(Finishing(p)) = 0,
         \A j \in Range(p) : (j.kind = "settled" => j.arg \in Running) /\ j.kind # "finally"
  PROVE  JobsKept(p, <<>>)
<1>1. ~ \E j \in Range(jobs) : j.kind = "pump"
  BY DEF IdleStep
<1>2. Onward(p, <<>>) /\ Cardinality(Finishing(<<>>)) = Cardinality(Finishing(jobs))
  BY DEF IdleStep
<1>3. QED BY <1>1, <1>2 DEF JobsKept

\* A job that is neither of the pump nor of a start that ends.
LEMMA JobKept ==
  ASSUME NEW p, JobStep(p), Head(jobs).kind \notin {"pump", "finally"},
         Cardinality(Finishing(p)) = 0,
         \A j \in Range(p) : (j.kind = "settled" => j.arg \in Running) /\ j.kind # "finally"
  PROVE  JobsKept(p, Tail(jobs))
<1>1. PICK t : t = Tail(jobs)
  OBVIOUS
<1>2. Taken(jobs, t) /\ Onward(p, t)
  BY <1>1 DEF JobStep
<1>3. Cardinality(Finishing(t)) = Cardinality(Finishing(jobs))
  BY <1>2 DEF Taken
<1>4. (\E j \in Range(jobs) : j.kind = "pump") => \E j \in Range(t) : j.kind = "pump"
  BY <1>2 DEF Taken
<1>5. QED BY <1>1, <1>2, <1>3, <1>4 DEF JobsKept

\* No jobs before, no jobs after.
LEMMA NothingKept ==
  ASSUME jobs = <<>>, jobs' = jobs
  PROVE  IdleStep(<<>>) /\ JobsKept(<<>>, <<>>)
<1>1. IdleStep(<<>>)
  BY NoJobs, IdleOnward
<1>2. QED BY <1>1, NoJobs, IdleKept DEF Harmless

\* A start is asked for.
LEMMA EnqueueStarts ==
  ASSUME Bounds, Typed, StartsInv, NEW a \in Agents, NEW i \in DOMAIN session', NEW w, NEW rest,
         Enqueued(a, i, w, rest), active' = active, paced' = paced,
         rest \in Seq(Jobs), Range(rest) \subseteq Range(jobs),
         Cardinality(Finishing(rest)) = Cardinality(Finishing(jobs)),
         (\E j \in Range(jobs) : j.kind = "pump") => \E j \in Range(rest) : j.kind = "pump",
         DOMAIN session \subseteq DOMAIN session'
  PROVE  StartsInv'
<1>1. \A b \in Agents \ {a} : starts'[b] = starts[b]
  BY DEF Enqueued
<1>2. CASE starts[a].state # "none"
  <2>1. /\ starts'[a] = [starts[a] EXCEPT !.waiters = starts[a].waiters \o w]
        /\ startQueue' = startQueue /\ jobs' = rest
    BY <1>2 DEF Enqueued
  <2>2. starts'[a].state = starts[a].state /\ starts'[a].session = starts[a].session
    <3>1. PICK s : s = starts[a]
      OBVIOUS
    <3>2. s \in [state : {"none", "queued", "running"},
                 session : 0 .. Len(session), waiters : Seq(Deliveries)]
      BY <3>1, Types DEF Starts
    <3>3. QED BY <2>1, <3>1, <3>2
  <2>3. StartsSame
    BY <1>1, <2>1, <2>2 DEF StartsSame
  <2>4. Running' = Running
    BY <2>3 DEF StartsSame, Running
  <2>5. CountIsExact'
    BY <2>1, <2>4, StartsFacts DEF CountIsExact
  <2>6. QueueIsQueued'
    BY <2>3 DEF StartsInv, QueueIsQueued, StartsSame
  <2>7. StartJobs'
    BY <2>1, <2>3, <2>4 DEF StartsInv, StartJobs, StartsSame
  <2>8. PumpIsComing'
    BY <2>1, <2>3 DEF StartsInv, PumpIsComing, StartsSame
  <2>9. QED BY <2>5, <2>6, <2>7, <2>8 DEF StartsInv
<1>3. CASE starts[a].state = "none"
  <2>1. /\ starts'[a] = [state |-> "queued", session |-> i, waiters |-> w]
        /\ startQueue' = Append(startQueue, a) /\ jobs' = <<Job("pump", Nobody)>> \o rest
    BY <1>3 DEF Enqueued
  <2>14. starts'[a].state = "queued" /\ starts'[a].session = i
    BY <2>1
  <2>2. Running' = Running
    <3>1. \A b \in Agents : starts'[b].state = "running" <=> starts[b].state = "running"
      BY <1>1, <1>3, <2>14
    <3>2. QED BY <3>1 DEF Running
  <2>3. PICK j : j = Job("pump", Nobody)
    OBVIOUS
  <2>4. j \in Jobs /\ j.kind = "pump"
    BY <2>3 DEF Job, Jobs, JobKinds
  <2>5. PICK p : p = <<j>>
    OBVIOUS
  <2>6. p \in Seq(Jobs) /\ Range(p) = {j} /\ Cardinality(Finishing(p)) = 0
    BY <2>4, <2>5, OneJob
  <2>7. Joined(p \o rest, p, rest)
    BY <2>6, JoinedFront
  <2>8. /\ Range(jobs') = {j} \cup Range(rest)
        /\ Cardinality(Finishing(jobs')) = Cardinality(Finishing(p)) + Cardinality(Finishing(rest))
    BY <2>1, <2>3, <2>5, <2>6, <2>7 DEF Joined
  <2>9. CountIsExact'
    <3>1. Cardinality(Finishing(jobs')) = Cardinality(Finishing(jobs))
      BY <2>6, <2>8, StartsFacts
    <3>2. QED BY <2>2, <3>1, StartsFacts DEF CountIsExact
  <2>10. QueueIsQueued'
    <3>1. startQueue \in Seq(Agents) /\ Once(startQueue) /\ a \notin Range(startQueue)
      BY <1>3, Types DEF StartsInv, QueueIsQueued
    <3>2. PICK q : q = Append(startQueue, a)
      OBVIOUS
    <3>3. Once(q) /\ Range(q) = Range(startQueue) \cup {a}
      BY <3>1, <3>2, OnceLonger, FewRange
    <3>4. \A b \in Agents : b \in Range(q) <=> starts'[b].state = "queued"
      BY <1>1, <2>1, <3>3 DEF StartsInv, QueueIsQueued
    <3>5. QED BY <2>1, <3>2, <3>3, <3>4 DEF QueueIsQueued
  <2>11. StartJobs'
    <3>1. \A b \in Agents : starts'[b].state # "none" => starts'[b].session \in DOMAIN session'
      BY <1>1, <2>14 DEF StartsInv, StartJobs
    <3>2. /\ \A k \in Range(jobs') : k.kind = "settled" => k.arg \in Running'
          /\ \A k \in Range(jobs') : k.kind = "finally" => k.arg \in Agents
      BY <2>2, <2>4, <2>8 DEF StartsInv, StartJobs
    <3>3. QED BY <3>1, <3>2 DEF StartJobs
  <2>12. PumpIsComing'
    BY <2>4, <2>8 DEF PumpIsComing
  <2>13. QED BY <2>9, <2>10, <2>11, <2>12 DEF StartsInv
<1>4. QED BY <1>2, <1>3

\* The pump: it has nothing to do, waits for its timer, or lets the next start
\* run.
LEMMA PumpStarts ==
  ASSUME Bounds, Typed, StartsInv, Pump
  PROVE  StartsInv' /\ \E p : JobStep(p) /\ Cardinality(Finishing(p)) = 0 /\ NoClash(p)
                         /\ (\A j \in Range(p) : j.kind = "settled" /\ j.arg \in Running')
                         /\ (\A j \in Range(p) : j.arg \notin Running)
<1>1. jobs \in Seq(Jobs) /\ jobs # <<>> /\ Head(jobs).kind = "pump" /\ session' = session
  BY Types DEF Pump, Doing, sessions
<1>2. PICK t : t = Tail(jobs)
  OBVIOUS
<1>3. ASSUME NEW p, JobStep(p), Cardinality(Finishing(p)) = 0
      PROVE  /\ Cardinality(Finishing(jobs')) = Cardinality(Finishing(jobs))
             /\ Range(jobs') = Range(p) \cup Range(t) /\ Range(t) \subseteq Range(jobs)
  <2>1. Taken(jobs, t) /\ Joined(jobs', p, t) /\ Range(t) \subseteq Range(jobs)
    BY <1>2, <1>3 DEF JobStep, Onward
  <2>2. QED BY <1>1, <1>3, <2>1 DEF Taken, Joined
<1>4. CASE jobs' = Tail(jobs) /\ startQueue' = startQueue /\ active' = active /\ starts' = starts
           /\ (startQueue # <<>> => paced' \/ active \notin {0})
  <2>1. PICK p : p = <<>>
    OBVIOUS
  <2>2. JobStep(p) /\ Cardinality(Finishing(p)) = 0 /\ Range(p) = {} /\ NoClash(p)
    BY <1>1, <1>4, <2>1, JobDone, NoJobs DEF Harmless
  <2>3. Cardinality(Finishing(jobs')) = Cardinality(Finishing(jobs)) /\ Range(jobs') \subseteq Range(jobs)
    BY <1>3, <2>2
  <2>4. Running' = Running
    BY <1>4 DEF Running
  <2>5. CountIsExact'
    BY <1>4, <2>3, <2>4, StartsFacts DEF CountIsExact
  <2>6. QueueIsQueued'
    BY <1>4 DEF StartsInv, QueueIsQueued
  <2>7. StartJobs'
    BY <1>1, <1>4, <2>3, <2>4 DEF StartsInv, StartJobs
  <2>8. PumpIsComing'
    <3>1. active \in Nat
      BY StartsFacts
    <3>2. QED BY <1>4, <3>1 DEF PumpIsComing
  <2>9. QED BY <2>2, <2>5, <2>6, <2>7, <2>8 DEF StartsInv
<1>5. ASSUME MayPump, NEW a, a = Head(startQueue),
             startQueue' = Tail(startQueue), active' = active + 1,
             starts' = [starts EXCEPT ![a].state = "running"],
             jobs' = IF session[starts[a].session].started
                     THEN Append(Tail(jobs), Job("settled", a)) ELSE Tail(jobs)
      PROVE  StartsInv' /\ \E p : JobStep(p) /\ Cardinality(Finishing(p)) = 0 /\ NoClash(p)
                             /\ (\A j \in Range(p) : j.kind = "settled" /\ j.arg \in Running')
                             /\ (\A j \in Range(p) : j.arg \notin Running)
  <2>1. startQueue \in Seq(Agents) /\ startQueue # <<>> /\ Once(startQueue)
    BY <1>5, Types DEF MayPump, StartsInv, QueueIsQueued
  <2>2. PICK q : q = Tail(startQueue)
    OBVIOUS
  <2>3. /\ q \in Seq(Agents) /\ a \in Agents /\ Range(startQueue) = {a} \cup Range(q)
        /\ Once(q) /\ a \notin Range(q)
    BY <1>5, <2>1, <2>2, TailRange, OnceShorter
  <2>4. starts[a].state = "queued"
    BY <2>3 DEF StartsInv, QueueIsQueued
  <2>5. /\ \A b \in Agents \ {a} : starts'[b] = starts[b]
        /\ starts'[a].state = "running" /\ starts'[a].session = starts[a].session
    <3>1. PICK s : s = starts[a]
      OBVIOUS
    <3>2. /\ s \in [state : {"none", "queued", "running"},
                    session : 0 .. Len(session), waiters : Seq(Deliveries)]
          /\ starts \in Starts(Len(session))
      BY <2>3, <3>1, Types DEF Starts
    <3>3. starts' = [starts EXCEPT ![a] = [s EXCEPT !.state = "running"]]
      BY <1>5, <3>1
    <3>4. starts'[a] = [s EXCEPT !.state = "running"] /\ \A b \in Agents \ {a} : starts'[b] = starts[b]
      BY <2>3, <3>2, <3>3 DEF Starts
    <3>5. QED BY <3>1, <3>2, <3>4
  <2>6. Running' = Running \cup {a} /\ a \notin Running
    <3>1. \A b \in Agents : starts'[b].state = "running" <=> starts[b].state = "running" \/ b = a
      BY <2>5
    <3>2. QED BY <2>3, <2>4, <3>1 DEF Running
  <2>7. Cardinality(Running') = Cardinality(Running) + 1
    BY <2>6, StartsFacts, FS_AddElement
  <2>8. PICK j : j = Job("settled", a)
    OBVIOUS
  <2>9. j \in Jobs /\ j.kind = "settled" /\ j.arg = a
    BY <2>3, <2>8 DEF Job, Jobs, JobKinds
  <2>10. PICK p : p = IF session[starts[a].session].started THEN <<j>> ELSE <<>>
    OBVIOUS
  <2>11. JobStep(p) /\ Cardinality(Finishing(p)) = 0 /\ NoClash(p) /\ Range(p) \subseteq {j}
    <3>1. CASE session[starts[a].session].started
      <4>1. p = <<j>> /\ jobs' = Append(Tail(jobs), j)
        BY <1>5, <2>8, <2>10, <3>1
      <4>2. JobStep(p)
        BY <1>1, <2>9, <4>1, JobDone
      <4>3. QED BY <2>9, <4>1, <4>2, OneJob
    <3>2. CASE ~session[starts[a].session].started
      <4>1. p = <<>> /\ jobs' = Tail(jobs)
        BY <1>5, <2>10, <3>2
      <4>2. QED BY <1>1, <4>1, JobDone, NoJobs DEF Harmless
    <3>3. QED BY <3>1, <3>2
  <2>12. /\ Cardinality(Finishing(jobs')) = Cardinality(Finishing(jobs))
         /\ Range(jobs') \subseteq {j} \cup Range(jobs)
    BY <1>3, <2>11
  <2>13. CountIsExact'
    BY <1>5, <2>7, <2>12, StartsFacts DEF CountIsExact
  <2>14. QueueIsQueued'
    <3>1. \A b \in Agents : b \in Range(q) <=> starts'[b].state = "queued"
      BY <2>3, <2>5 DEF StartsInv, QueueIsQueued
    <3>2. QED BY <1>5, <2>2, <2>3, <3>1 DEF QueueIsQueued
  <2>15. StartJobs'
    <3>1. \A b \in Agents : starts'[b].state # "none" => starts'[b].session \in DOMAIN session'
      BY <1>1, <2>4, <2>5 DEF StartsInv, StartJobs
    <3>2. QED BY <2>6, <2>9, <2>12, <3>1 DEF StartsInv, StartJobs
  <2>16. PumpIsComing'
    BY <1>5, StartsFacts DEF PumpIsComing
  <2>17. \A k \in Range(p) : k.kind = "settled" /\ k.arg \in Running' /\ k.arg \notin Running
    BY <2>6, <2>9, <2>11
  <2>18. QED BY <2>11, <2>13, <2>14, <2>15, <2>16, <2>17 DEF StartsInv
<1>6. CASE ~MayPump
  <2>1. jobs' = Tail(jobs) /\ startQueue' = startQueue /\ active' = active /\ starts' = starts
        /\ paced' = paced
    BY <1>6 DEF Pump, starting
  <2>2. startQueue # <<>> => paced \/ active \notin {0}
    BY <1>6 DEF MayPump, Bounds
  <2>3. QED BY <1>4, <2>1, <2>2
<1>7. CASE MayPump
  <2>1. \/ /\ paced' = TRUE /\ jobs' = Tail(jobs)
           /\ UNCHANGED <<starts, startQueue, active, lastStart>>
        \/ /\ startQueue' = Tail(startQueue) /\ active' = active + 1
           /\ starts' = [starts EXCEPT ![Head(startQueue)].state = "running"]
           /\ jobs' = IF session[starts[Head(startQueue)].session].started
                      THEN Append(Tail(jobs), Job("settled", Head(startQueue))) ELSE Tail(jobs)
    BY <1>7 DEF Pump
  <2>2. QED BY <1>4, <1>5, <1>7, <2>1
<1>8. QED BY <1>6, <1>7

\* The calls of a list of deliveries go on.
CallsOf(w) == [n \in DOMAIN w |-> Job("deliver", w[n])]
EndJobs(w, a) == CallsOf(w) \o <<Job("finally", a)>>

\* The jobs of a start that is settled: a call goes on for each that waited, then
\* the count goes down.
LEMMA SettledJobs ==
  ASSUME NEW w \in Seq(Deliveries), Once(w), NEW a \in Agents
  PROVE  /\ CallsOf(w) \in Seq(Jobs) /\ <<Job("finally", a)>> \in Seq(Jobs)
         /\ EndJobs(w, a) \in Seq(Jobs) /\ NoClash(EndJobs(w, a))
         /\ Cardinality(Finishing(EndJobs(w, a))) = 1
         /\ \A j \in Range(EndJobs(w, a)) :
              \/ j.kind = "deliver" /\ j.arg \in Range(w)
              \/ j.kind = "finally" /\ j.arg = a
<1>19. PICK next, p : next = CallsOf(w) /\ p = EndJobs(w, a)
  OBVIOUS
<1>1. DOMAIN w = 1 .. Len(w) /\ Len(w) \in Nat /\ \A n \in DOMAIN w : w[n] \in Deliveries
  BY LenProperties, ElementOfSeq
<1>2. \A d \in Deliveries :
        Job("deliver", d) \in Jobs /\ Job("deliver", d).kind = "deliver" /\ Job("deliver", d).arg = d
  BY DEF Job, Jobs, JobKinds
<1>3. \A n \in DOMAIN w : next[n] = Job("deliver", w[n]) /\ next[n] \in Jobs
  BY <1>1, <1>2, <1>19 DEF CallsOf
<1>4. next \in [1 .. Len(w) -> Jobs] /\ DOMAIN next = DOMAIN w
  BY <1>1, <1>3, <1>19 DEF CallsOf
<1>5. next \in Seq(Jobs)
  BY <1>1, <1>4
<1>6. \A n \in DOMAIN w : next[n].kind = "deliver" /\ next[n].arg = w[n]
  BY <1>1, <1>2, <1>3
<1>7. NoClash(next)
  BY <1>4, <1>6 DEF NoClash, Clash, Once
<1>8. \A j \in Range(next) : j.kind = "deliver" /\ j.arg \in Range(w)
  BY <1>4, <1>6 DEF Range
<1>9. Finishing(next) = {}
  BY <1>4, <1>6 DEF Finishing
<1>10. Cardinality(Finishing(next)) = 0
  BY <1>9, FS_EmptySet
<1>11. PICK f, q : f = Job("finally", a) /\ q = <<f>>
  OBVIOUS
<1>12. f \in Jobs /\ f.kind = "finally" /\ f.arg = a
  BY <1>11 DEF Job, Jobs, JobKinds
<1>13. q \in Seq(Jobs) /\ Range(q) = {f} /\ NoClash(q) /\ Cardinality(Finishing(q)) = 1
  BY <1>11, <1>12, OneJob
<1>14. Joined(next \o q, next, q)
  BY <1>5, <1>13, JoinedFront
<1>15. \A j \in Range(next) : \A k \in Range(q) : ~Clash(j, k)
  BY <1>8, <1>12, <1>13 DEF Clash
<1>16. p = next \o q
  BY <1>11, <1>19 DEF EndJobs
<1>17. /\ p \in Seq(Jobs) /\ NoClash(p) /\ Range(p) = Range(next) \cup Range(q)
       /\ Cardinality(Finishing(p)) = 1
  BY <1>7, <1>10, <1>13, <1>14, <1>15, <1>16 DEF Joined
<1>18. QED BY <1>5, <1>8, <1>11, <1>12, <1>13, <1>17, <1>19

\* What StartSettled does, for the start a and those who wait for it.
SettledOne(a, p) ==
  /\ a \in Running /\ Head(jobs) = Job("settled", a) /\ Job("settled", a) \in Range(jobs)
  /\ JobStep(p) /\ NoClash(p) /\ Cardinality(Finishing(p)) = 1
  /\ \A j \in Range(p) : \/ j.kind = "deliver" /\ j.arg \in Range(starts[a].waiters)
                         \/ j.kind = "finally" /\ j.arg = a
  /\ starts'[a] = NoStart /\ \A b \in Agents \ {a} : starts'[b] = starts[b]
  /\ \A j \in Range(Tail(jobs)) : j.kind = "settled" => j.arg # a

\* It does so.
LEMMA SettledFits ==
  ASSUME Typed, StartsInv, WaitersStart, NoClash(jobs), StartSettled
  PROVE  \E a \in Agents, p \in Seq(Jobs) : SettledOne(a, p)
<1>1. jobs \in Seq(Jobs) /\ jobs # <<>> /\ Head(jobs).kind = "settled"
  BY Types DEF StartSettled, Doing
<1>2. PICK a : a = Head(jobs).arg
  OBVIOUS
<1>3. PICK t : t = Tail(jobs)
  OBVIOUS
<1>4. Taken(jobs, t)
  BY <1>1, <1>3, TakesJob
<1>5. Head(jobs) \in Jobs /\ Head(jobs) \in Range(jobs) /\ t \in Seq(Jobs)
  BY <1>1, <1>3, <1>4, TailRange DEF Taken
<1>6. a \in Running /\ a \in Agents
  BY <1>1, <1>2, <1>5 DEF StartsInv, StartJobs, Running
<1>7. Head(jobs) = Job("settled", a)
  BY <1>1, <1>2, <1>5 DEF Jobs, Job
<1>8. PICK w : w = starts[a].waiters
  OBVIOUS
<1>9. w \in Seq(Deliveries) /\ Once(w)
  BY <1>6, <1>8, Types DEF WaitersStart
<1>10. PICK next : next = CallsOf(w)
  OBVIOUS
<1>11. PICK p : p = EndJobs(w, a)
  OBVIOUS
<1>12. /\ next \in Seq(Jobs) /\ <<Job("finally", a)>> \in Seq(Jobs)
       /\ p \in Seq(Jobs) /\ NoClash(p) /\ Cardinality(Finishing(p)) = 1
       /\ \A j \in Range(p) : \/ j.kind = "deliver" /\ j.arg \in Range(w)
                              \/ j.kind = "finally" /\ j.arg = a
  BY <1>6, <1>9, <1>10, <1>11, SettledJobs
<1>13. jobs' = t \o next \o <<Job("finally", a)>> /\ starts' = [starts EXCEPT ![a] = NoStart]
  BY <1>2, <1>3, <1>8, <1>10 DEF StartSettled, Arg, CallsOf
<1>14. jobs' = t \o p
  BY <1>5, <1>10, <1>11, <1>12, <1>13, ConcatAssociative DEF EndJobs
<1>15. JobStep(p)
  BY <1>1, <1>3, <1>12, <1>14, JobOnward
<1>16. starts'[a] = NoStart /\ \A b \in Agents \ {a} : starts'[b] = starts[b]
  BY <1>6, <1>13, Types DEF Starts
<1>17. \A j \in Range(t) : j.kind = "settled" => j.arg # a
  <2>1. \A j \in Range(t) : ~Clash(Head(jobs), j)
    BY <1>4 DEF Taken
  <2>2. QED BY <1>1, <1>2, <2>1 DEF Clash
<1>18. SettledOne(a, p)
  BY <1>3, <1>5, <1>6, <1>7, <1>8, <1>12, <1>15, <1>16, <1>17 DEF SettledOne
<1>19. QED BY <1>6, <1>12, <1>18

\* A start ends: those who wait go on, and one start less runs.
LEMMA SettledStarts ==
  ASSUME Bounds, Typed, StartsInv, NEW a \in Agents, NEW p \in Seq(Jobs), SettledOne(a, p), StartSettled
  PROVE  StartsInv'
<1>1. startQueue' = startQueue /\ active' = active /\ paced' = paced /\ session' = session
  BY DEF StartSettled, sessions
<1>2. PICK t : t = Tail(jobs)
  OBVIOUS
<1>3. /\ Taken(jobs, t) /\ Joined(jobs', p, t) /\ Range(jobs') = Range(p) \cup Range(t)
      /\ Range(t) \subseteq Range(jobs)
  BY <1>2 DEF SettledOne, JobStep, Onward
<1>4. Head(jobs).kind = "settled"
  BY DEF SettledOne, Job
<1>5. Cardinality(Finishing(jobs')) = Cardinality(Finishing(jobs)) + 1
  BY <1>3, <1>4, StartsFacts DEF Taken, Joined, SettledOne
<1>6. starts'[a].state = "none" /\ starts[a].state = "running"
  BY DEF SettledOne, NoStart, Running
<1>7. Running' = Running \ {a}
  <2>1. \A b \in Agents : starts'[b].state = "running" <=> starts[b].state = "running" /\ b # a
    BY <1>6 DEF SettledOne
  <2>2. QED BY <2>1 DEF Running
<1>8. Cardinality(Running') = Cardinality(Running) - 1
  BY <1>7, StartsFacts, FS_RemoveElement DEF SettledOne
<1>9. CountIsExact'
  <2>1. active = Cardinality(Running') + Cardinality(Finishing(jobs'))
    BY <1>5, <1>8, StartsFacts
  <2>2. QED BY <1>1, <2>1 DEF CountIsExact
<1>10. QueueIsQueued'
  <2>1. \A b \in Agents : starts'[b].state = "queued" <=> starts[b].state = "queued"
    BY <1>6 DEF SettledOne
  <2>2. QED BY <1>1, <2>1 DEF StartsInv, QueueIsQueued
<1>11. StartJobs'
  <2>1. \A b \in Agents : starts'[b].state # "none" => starts'[b].session \in DOMAIN session'
    BY <1>1, <1>6 DEF StartsInv, StartJobs, SettledOne
  <2>2. \A j \in Range(jobs') : j.kind = "settled" => j.arg \in Running'
    BY <1>2, <1>3, <1>7 DEF StartsInv, StartJobs, SettledOne
  <2>3. \A j \in Range(jobs') : j.kind = "finally" => j.arg \in Agents
    BY <1>3 DEF StartsInv, StartJobs, SettledOne
  <2>4. QED BY <2>1, <2>2, <2>3 DEF StartJobs
<1>12. PumpIsComing'
  <2>1. active > 0
    <3>1. Cardinality(Running') \in Nat
      <4>1. IsFiniteSet(Running \ {a})
        BY StartsFacts, FS_RemoveElement
      <4>2. QED BY <1>7, <4>1, FS_CardinalityType
    <3>2. QED BY <1>8, <3>1, StartsFacts
  <2>2. QED BY <1>1, <2>1 DEF PumpIsComing
<1>13. QED BY <1>9, <1>10, <1>11, <1>12 DEF StartsInv

\* What Finally does: the first jobs are the pump and a look at the upgrade.
LEMMA FinallyFits ==
  ASSUME Typed, Finally
  PROVE  \E p \in Seq(Jobs) : JobStep(p) /\ Harmless(p) /\ Job("pump", Nobody) \in Range(p)
                                /\ \A j \in Range(p) : j.kind \in {"pump", "upgrade"}
<1>1. PICK x, y : x = Job("pump", Nobody) /\ y = Job("upgrade", Nobody)
  OBVIOUS
<1>2. x \in Jobs /\ y \in Jobs /\ x.kind = "pump" /\ y.kind = "upgrade"
  BY <1>1 DEF Job, Jobs, JobKinds
<1>3. PICK p : p = <<x, y>>
  OBVIOUS
<1>4. p \in Seq(Jobs) /\ Range(p) = {x, y}
  BY <1>2, <1>3, TwoRange
<1>5. Harmless(p)
  BY <1>2, <1>4, KindsHarmless
<1>6. jobs \in Seq(Jobs) /\ jobs # <<>> /\ jobs' = p \o Tail(jobs)
  BY <1>1, <1>3, Types DEF Finally, Doing
<1>7. JobStep(p)
  BY <1>4, <1>6, JobOnward
<1>8. QED BY <1>1, <1>2, <1>4, <1>5, <1>7

\* The count goes down.
LEMMA FinallyStarts ==
  ASSUME Bounds, Typed, StartsInv, Finally
  PROVE  StartsInv' /\ active' \in Nat /\ active' <= active
<1>1. /\ startQueue' = startQueue /\ active' = active - 1 /\ paced' = paced /\ session' = session
      /\ starts' = starts /\ Head(jobs).kind = "finally"
  BY DEF Finally, sessions, Doing
<1>2. PICK p \in Seq(Jobs) :
        /\ JobStep(p) /\ Harmless(p) /\ Job("pump", Nobody) \in Range(p)
        /\ \A j \in Range(p) : j.kind \in {"pump", "upgrade"}
  BY FinallyFits
<1>3. PICK t : t = Tail(jobs)
  OBVIOUS
<1>4. /\ Taken(jobs, t) /\ Joined(jobs', p, t) /\ Range(jobs') = Range(p) \cup Range(t)
      /\ Range(t) \subseteq Range(jobs)
  BY <1>2, <1>3 DEF JobStep, Onward
<1>5. /\ Cardinality(Finishing(jobs')) = Cardinality(Finishing(jobs)) - 1
      /\ Cardinality(Finishing(jobs)) \in Nat /\ Cardinality(Finishing(jobs)) > 0
  <2>1. /\ Cardinality(Finishing(jobs)) = Cardinality(Finishing(t)) + 1
        /\ Cardinality(Finishing(t)) \in Nat
    BY <1>1, <1>4 DEF Taken
  <2>2. Cardinality(Finishing(jobs')) = Cardinality(Finishing(t))
    BY <1>2, <1>4, <2>1 DEF Joined, Harmless
  <2>3. QED BY <2>1, <2>2
<1>6. Running' = Running
  BY <1>1 DEF Running
<1>7. CountIsExact' /\ active' \in Nat /\ active' <= active
  <2>1. active - 1 = Cardinality(Running) + Cardinality(Finishing(jobs')) /\ active - 1 \in Nat
    BY <1>5, StartsFacts
  <2>2. active' \in Nat /\ active' <= active
    BY <1>1, <2>1, StartsFacts
  <2>3. QED BY <1>1, <1>6, <2>1, <2>2 DEF CountIsExact
<1>8. QueueIsQueued'
  BY <1>1 DEF StartsInv, QueueIsQueued
<1>9. StartJobs'
  BY <1>1, <1>2, <1>4, <1>6 DEF StartsInv, StartJobs
<1>10. PumpIsComing'
  <2>1. Job("pump", Nobody).kind = "pump"
    BY DEF Job
  <2>2. QED BY <1>2, <1>4, <2>1 DEF PumpIsComing
<1>11. QED BY <1>7, <1>8, <1>9, <1>10 DEF StartsInv

-----------------------------------------------------------------------------
(* Deliveries: what a step leaves where it is.                             *)

\* The deliveries of a phase stay in it.
Kept(phase) ==
  \A d \in Deliveries :
    call[d].phase = phase => call'[d].phase = phase /\ call'[d].session = call[d].session

\* The deliveries that wait for a slot.
LEMMA WaitingFrame ==
  ASSUME Typed, WaitingOnce, waiting' = waiting, Kept("waiting")
  PROVE  WaitingOnce'
<1>1. Range(waiting) \subseteq Deliveries
  BY Types, RangeIn
<1>2. QED BY <1>1 DEF WaitingOnce, Kept

\* Those that wait for a start.
LEMMA WaitersFrame ==
  ASSUME Typed, WaitersStart,
         \A d \in Deliveries : AwaitsStart(d) =>
           call'[d].phase = call[d].phase /\ call'[d].session = call[d].session,
         \A a \in Agents : starts'[a].waiters = starts[a].waiters \/ starts'[a].waiters = <<>>
  PROVE  WaitersStart' /\ \A d : AwaitsStart(d)' => AwaitsStart(d)
<1>1. Once(<<>>) /\ Range(<<>>) = {}
  BY DEF Once, Range
<1>2. \A a \in Agents : Range(starts[a].waiters) \subseteq Deliveries
  BY Types, RangeIn
<1>3. \A a \in Agents :
        /\ Once(starts'[a].waiters) /\ Range(starts'[a].waiters) \subseteq Range(starts[a].waiters)
  BY <1>1 DEF WaitersStart
<1>4. ASSUME NEW a \in Agents, NEW d \in Range(starts'[a].waiters)
      PROVE  call'[d].phase = "starting" /\ call'[d].session # 0 /\ AgentOfCall(d) = a
  <2>1. d \in Deliveries /\ d \in Range(starts[a].waiters)
    BY <1>2, <1>3
  <2>2. AwaitsStart(d)
    BY <2>1 DEF AwaitsStart
  <2>3. QED BY <2>1, <2>2 DEF WaitersStart
<1>5. WaitersStart'
  BY <1>3, <1>4 DEF WaitersStart
<1>6. \A d : AwaitsStart(d)' => AwaitsStart(d)
  BY <1>3 DEF AwaitsStart
<1>7. QED BY <1>5, <1>6

\* Those in the list of prompts of a session.
LEMMA PromptsFrame ==
  ASSUME Typed, PromptsWait, Kept("prompts"),
         \A i \in DOMAIN session' :
           \/ i \in DOMAIN session /\ session'[i].prompts = session[i].prompts
           \/ session'[i].prompts = <<>>
  PROVE  PromptsWait'
<1>1. Once(<<>>) /\ Range(<<>>) = {}
  BY DEF Once, Range
<1>2. \A i \in DOMAIN session : Range(session[i].prompts) \subseteq Deliveries
  <2>1. ASSUME NEW i \in DOMAIN session PROVE session[i].prompts \in Seq(Deliveries)
    BY Types DEF SessionType
  <2>2. QED BY <2>1, RangeIn
<1>3. ASSUME NEW i \in DOMAIN session'
      PROVE  /\ Once(session'[i].prompts)
             /\ \A d \in Range(session'[i].prompts) :
                  call'[d].phase = "prompts" /\ call'[d].session = i
  BY <1>1, <1>2 DEF PromptsWait, Kept
<1>4. QED BY <1>3 DEF PromptsWait

\* Those in a list that is being worked off.
LEMMA ListsFrame ==
  ASSUME Typed, ListsWait, Kept("listed"),
         \A e \in Deliveries : call'[e].rest = call[e].rest \/ call'[e].rest = <<>>,
         \A e \in Deliveries :
           call'[e].rest # <<>> => call'[e].phase = "images" \/ Job("turns", e) \in Range(jobs')
  PROVE  ListsWait'
<1>1. Once(<<>>) /\ Range(<<>>) = {}
  BY DEF Once, Range
<1>2. \A e \in Deliveries : Range(call[e].rest) \subseteq Deliveries
  BY Types, RangeIn
<1>3. \A e \in Deliveries :
        Once(call'[e].rest) /\ Range(call'[e].rest) \subseteq Range(call[e].rest)
  BY <1>1 DEF ListsWait
<1>4. ASSUME NEW e \in Deliveries, NEW d \in Range(call'[e].rest)
      PROVE  call'[d].phase = "listed" /\ call'[d].session # 0
  BY <1>2, <1>3, <1>4 DEF ListsWait, Kept
<1>5. \A e \in Deliveries : \A f \in Deliveries \ {e} : Range(call'[e].rest) \cap Range(call'[f].rest) = {}
  BY <1>3 DEF ListsWait
<1>6. QED BY <1>3, <1>4, <1>5 DEF ListsWait

\* Those that a runtime was asked for.
LEMMA AskedFrame ==
  ASSUME AskedWait,
         \A i \in DOMAIN session' : \A d \in session'[i].asked :
           /\ i \in DOMAIN session /\ d \in session[i].asked
           /\ call'[d].phase = call[d].phase /\ call'[d].session = call[d].session
  PROVE  AskedWait'
  BY DEF AskedWait

\* The jobs after a step.
LEMMA JobsFrame ==
  ASSUME CallJobs, NEW p, NEW t, Onward(p, t), NoClash(p),
         \A j \in Range(p) : \A k \in Range(t) : ~Clash(j, k),
         \A j \in Range(p) : JobFits(j)', \A j \in Range(t) : JobFits(j)'
  PROVE  CallJobs'
<1>1. Range(jobs') = Range(p) \cup Range(t)
  BY DEF Onward, Joined
<1>2. NoClash(jobs')
  BY DEF Onward, Joined, CallJobs
<1>3. QED BY <1>1, <1>2 DEF CallJobs

\* The jobs that are left fit when their deliveries are where they were.
LEMMA LeftJobs ==
  ASSUME CallJobs, NEW p, NEW t, Onward(p, t),
         \A j \in Range(t) : j.kind \in {"give", "deliver", "turns"} /\ j.arg \in Deliveries =>
           call'[j.arg] = call[j.arg],
         \A j \in Range(t) : j.kind = "deliver" /\ j.arg \in Deliveries =>
           (AwaitsStart(j.arg)' => AwaitsStart(j.arg))
  PROVE  \A j \in Range(t) : JobFits(j)'
<1>1. ASSUME NEW j \in Range(t) PROVE JobFits(j)'
  <2>1. JobFits(j)
    BY DEF Onward, CallJobs
  <2>2. j.kind = "deliver" => ~AwaitsStart(j.arg)'
    BY <2>1 DEF JobFits
  <2>3. QED BY <2>1, <2>2 DEF JobFits
<1>2. QED BY <1>1

\* The places where deliveries wait, but for those that wait for a slot, are as they
\* were, or empty.
SamePlaces ==
  /\ \A a \in Agents : starts'[a].waiters = starts[a].waiters \/ starts'[a].waiters = <<>>
  /\ \A i \in DOMAIN session' :
       \/ /\ i \in DOMAIN session
          /\ session'[i].prompts = session[i].prompts /\ session'[i].asked = session[i].asked
       \/ session'[i].prompts = <<>> /\ session'[i].asked = {}

\* The deliveries that a step moves were in none of these places.
FreeMove(M) ==
  /\ Others(M)
  /\ \A d \in M \cap Deliveries :
       /\ call[d].phase \notin {"prompts", "listed", "asked"} /\ ~AwaitsStart(d)
       /\ \/ call'[d].rest = <<>>
          \/ /\ call'[d].rest = call[d].rest
             /\ call'[d].phase = "images" \/ Job("turns", d) \in Range(jobs')
       /\ call'[d].phase \in {"preparing", "images"} => call'[d].session # 0
  /\ \A d \in Deliveries \ M :
       Job("turns", d) \in Range(jobs) => Job("turns", d) \in Range(jobs')

\* What is in a place stays there.
PlacesInv == WaitersStart /\ PromptsWait /\ ListsWait /\ AskedWait /\ Prepared

\* A step that changes no place, and moves only what is in none.
LEMMA PlacesFrame ==
  ASSUME Typed, CallsInv, SamePlaces, NEW M, FreeMove(M)
  PROVE  PlacesInv' /\ \A d : AwaitsStart(d)' => AwaitsStart(d)
<1>1. ASSUME NEW phase \in {"prompts", "listed", "asked"} PROVE Kept(phase)
  BY DEF FreeMove, Others, Kept
<1>2. ASSUME NEW d \in Deliveries, AwaitsStart(d)
      PROVE  call'[d].phase = call[d].phase /\ call'[d].session = call[d].session
  BY <1>2 DEF FreeMove, Others
<1>3. WaitersStart' /\ \A d : AwaitsStart(d)' => AwaitsStart(d)
  BY <1>2, WaitersFrame DEF CallsInv, SamePlaces
<1>4. PromptsWait'
  <2>1. \A i \in DOMAIN session' :
          \/ i \in DOMAIN session /\ session'[i].prompts = session[i].prompts
          \/ session'[i].prompts = <<>>
    BY DEF SamePlaces
  <2>2. QED BY <1>1, <2>1, PromptsFrame DEF CallsInv
<1>5. ListsWait'
  <2>1. \A e \in Deliveries : call'[e].rest = call[e].rest \/ call'[e].rest = <<>>
    BY DEF FreeMove, Others
  <2>2. ASSUME NEW e \in Deliveries, call'[e].rest # <<>>
        PROVE  call'[e].phase = "images" \/ Job("turns", e) \in Range(jobs')
    <3>1. CASE e \in M
      BY <2>2, <3>1 DEF FreeMove
    <3>2. CASE e \notin M
      <4>1. call'[e] = call[e]
        BY <3>2 DEF FreeMove, Others
      <4>2. call[e].phase = "images" \/ Job("turns", e) \in Range(jobs)
        BY <2>2, <4>1 DEF CallsInv, ListsWait
      <4>3. QED BY <3>2, <4>1, <4>2 DEF FreeMove
    <3>3. QED BY <3>1, <3>2
  <2>3. QED BY <1>1, <2>1, <2>2, ListsFrame DEF CallsInv
<1>6. AskedWait'
  <2>1. ASSUME NEW i \in DOMAIN session', NEW d \in session'[i].asked
        PROVE  /\ i \in DOMAIN session /\ d \in session[i].asked
               /\ call'[d].phase = call[d].phase /\ call'[d].session = call[d].session
    <3>1. i \in DOMAIN session /\ d \in session[i].asked
      BY <2>1 DEF SamePlaces
    <3>2. d \in Deliveries
      BY <3>1, Types DEF SessionType
    <3>3. call[d].phase = "asked"
      BY <3>1 DEF CallsInv, AskedWait
    <3>4. QED BY <1>1, <3>1, <3>2, <3>3 DEF Kept
  <2>2. QED BY <2>1, AskedFrame DEF CallsInv
<1>7. Prepared'
  BY DEF FreeMove, Others, CallsInv, Prepared
<1>8. QED BY <1>3, <1>4, <1>5, <1>6, <1>7 DEF PlacesInv

\* The step leaves the deliveries that wait for a slot.
LEMMA WaitingKept ==
  ASSUME Typed, CallsInv, waiting' = waiting, NEW M, Others(M),
         \A d \in M \cap Deliveries : call[d].phase # "waiting"
  PROVE  WaitingOnce'
<1>1. Kept("waiting")
  BY DEF Others, Kept
<1>2. QED BY <1>1, WaitingFrame DEF CallsInv

\* A delivery that no start waits for, and one that has no list behind it.
LEMMA FreeOnes ==
  ASSUME CallsInv, NEW d \in Deliveries
  PROVE  /\ call[d].phase # "starting" => ~AwaitsStart(d)
         /\ call[d].phase \notin {"images", "asked", "dropped"} => call[d].rest = <<>>
         /\ jobs = <<>> /\ call[d].phase # "images" => call[d].rest = <<>>
<1>1. call[d].phase # "starting" => ~AwaitsStart(d)
  BY DEF CallsInv, WaitersStart, AwaitsStart
<1>2. call[d].rest # <<>> => call[d].phase = "images" \/ Job("turns", d) \in Range(jobs)
  BY DEF CallsInv, ListsWait
<1>3. Job("turns", d) \in Range(jobs) => call[d].phase \in {"asked", "dropped"}
  <2>1. Job("turns", d).kind = "turns" /\ Job("turns", d).arg = d
    BY DEF Job
  <2>2. QED BY <2>1 DEF CallsInv, CallJobs, JobFits
<1>4. jobs = <<>> => Range(jobs) = {}
  BY NoJobs
<1>5. QED BY <1>1, <1>2, <1>3, <1>4

\* The jobs' part of such a step: a step of its own, and one that does a job.
LEMMA IdleCalls ==
  ASSUME Typed, CallsInv, SamePlaces, NEW M, FreeMove(M), NEW p, IdleStep(p), NoClash(p),
         WaitingOnce', \A j \in Range(p) : JobFits(j)'
  PROVE  CallsInv'
<1>1. Onward(p, <<>>) /\ Range(<<>>) = {}
  BY DEF IdleStep
<1>2. PICK t : t = <<>>
  OBVIOUS
<1>3. Onward(p, t) /\ Range(t) = {}
  BY <1>1, <1>2
<1>4. CallJobs'
  BY <1>3, JobsFrame DEF CallsInv
<1>5. QED BY <1>4, PlacesFrame DEF CallsInv, PlacesInv

\* The other jobs have nothing to do with the deliveries that are moved.
LEMMA JobCalls ==
  ASSUME Typed, CallsInv, SamePlaces, NEW M, FreeMove(M), NEW p, JobStep(p), NoClash(p),
         WaitingOnce',
         \A j \in Range(p) : JobFits(j)',
         \A j \in Range(p) : \A k \in Range(Tail(jobs)) : ~Clash(j, k),
         \A j \in Range(Tail(jobs)) : j.kind \in {"give", "deliver", "turns"} => j.arg \notin M
  PROVE  CallsInv'
<1>1. PICK t : t = Tail(jobs)
  OBVIOUS
<1>2. Onward(p, t) /\ \A j \in Range(t) : j.kind \in {"give", "deliver", "turns"} => j.arg \notin M
  BY <1>1 DEF JobStep
<1>3. PlacesInv' /\ \A d : AwaitsStart(d)' => AwaitsStart(d)
  BY PlacesFrame
<1>4. \A j \in Range(t) : JobFits(j)'
  <2>1. \A j \in Range(t) : j.kind \in {"give", "deliver", "turns"} /\ j.arg \in Deliveries =>
          call'[j.arg] = call[j.arg]
    BY <1>2 DEF FreeMove, Others
  <2>2. QED BY <1>2, <1>3, <2>1, LeftJobs DEF CallsInv
<1>5. CallJobs'
  BY <1>1, <1>2, <1>4, JobsFrame DEF CallsInv
<1>6. QED BY <1>3, <1>5 DEF CallsInv, PlacesInv

-----------------------------------------------------------------------------
(* Sessions and slots: what a step leaves as it is.                        *)

\* A session holds a slot.
HoldsSlot(s) ==
  \/ s.turn \/ s.prompts # <<>> \/ s.asked # {} \/ s.opening > 0
  \/ s.status \in {"starting", "thinking", "working"}

\* A session that runs has a runtime, and one whose thread is not ready opens one.
Fits(s) ==
  /\ s.started => s.children > 0
  /\ s.started /\ ~s.ready => s.opening > 0

\* Why a drain is coming.
Comes ==
  \/ drain.on \/ \E j \in Range(jobs) : j.kind = "drain"
  \/ TurnIsComing
  \/ \E d \in Deliveries : call[d].phase = "lost"
  \/ \E i \in DOMAIN session : session[i].status = "stopping"

\* A change of status comes with a drain.
LEMMA DrainJob ==
  ASSUME Job("drain", Nobody) \in Range(jobs')
  PROVE  DrainIsComing'
<1>1. Job("drain", Nobody).kind = "drain"
  BY DEF Job
<1>2. QED BY <1>1 DEF DrainIsComing

\* A lane keeps its session, or gets one that is new.
LaneAsBefore(k) ==
  \/ /\ lane'[k] = lane[k]
     /\ lane[k] # 0 => (HoldsSlot(session'[lane[k]]) <=> HoldsSlot(session[lane[k]]))
  \/ lane[k] = 0 /\ lane'[k] # 0 /\ session'[lane'[k]] = NewSession(k)

\* Then the lanes that hold a slot are the same.
LEMMA SameSlots ==
  ASSUME \A k \in Lanes : LaneAsBefore(k)
  PROVE  ActiveLanes' = ActiveLanes
<1>1. \A k : ~HoldsSlot(NewSession(k))
  BY DEF HoldsSlot, NewSession
<1>2. \A i : SessionIsActive(i) <=> HoldsSlot(session[i])
  BY DEF SessionIsActive, HoldsSlot
<1>3. \A i : SessionIsActive(i)' <=> HoldsSlot(session'[i])
  BY DEF SessionIsActive, HoldsSlot
<1>4. \A k \in Lanes :
        lane'[k] # 0 /\ HoldsSlot(session'[lane'[k]]) <=> lane[k] # 0 /\ HoldsSlot(session[lane[k]])
  BY <1>1 DEF LaneAsBefore
<1>5. ActiveLanes = {k \in Lanes : lane[k] # 0 /\ HoldsSlot(session[lane[k]])}
  BY <1>2 DEF ActiveLanes
<1>6. ActiveLanes' = {k \in Lanes : lane'[k] # 0 /\ HoldsSlot(session'[lane'[k]])}
  BY <1>3 DEF ActiveLanes
<1>7. QED BY <1>4, <1>5, <1>6

\* The same lanes hold a slot and the same deliveries wait.
LEMMA DrainFrame ==
  ASSUME DrainIsComing, waiting' = waiting, ActiveLanes' = ActiveLanes, Comes => Comes'
  PROVE  DrainIsComing'
<1>1. \A l : CanUseSessionSlot(l)' <=> CanUseSessionSlot(l)
  BY DEF CanUseSessionSlot
<1>2. Usable' = Usable
  BY <1>1 DEF Usable
<1>3. DrainIsComing <=> (Usable # {} => Comes)
  BY DEF DrainIsComing, Comes
<1>4. DrainIsComing' <=> (Usable' # {} => Comes')
  BY DEF DrainIsComing, Comes
<1>5. QED BY <1>2, <1>3, <1>4

\* No session is changed.
LEMMA SameSessions ==
  ASSUME SessionsFit, session' = session, lane' = lane,
         \A j \in Range(jobs') : j.kind = "splice" =>
           j \in Range(jobs) \/ (j.arg \in DOMAIN session /\ session[j.arg].children > 0)
  PROVE  SessionsFit' /\ ActiveLanes' = ActiveLanes
<1>1. SessionsFit'
  BY DEF SessionsFit
<1>2. \A k \in Lanes : LaneAsBefore(k)
  BY DEF LaneAsBefore
<1>3. QED BY <1>1, <1>2, SameSlots

\* One session is changed.
LEMMA SetsFit ==
  ASSUME Typed, SessionsFit, NEW i, NEW r, Sets(i, r), lane' = lane,
         r.lane = session[i].lane, Fits(r),
         \A j \in Range(jobs') : j.kind = "splice" =>
           \/ j.arg = i /\ r.children > 0
           \/ j \in Range(jobs) /\ (j.arg = i => r.children = session[i].children)
  PROVE  SessionsFit'
<1>1. DOMAIN session' = DOMAIN session /\ i \in DOMAIN session
  BY Types, LenProperties DEF Sets
<1>2. \A k \in DOMAIN session : session'[k] = IF k = i THEN r ELSE session[k]
  BY DEF Sets
<1>3. ASSUME NEW l \in Lanes, lane'[l] # 0 PROVE session'[lane'[l]].lane = l
  <2>1. lane[l] \in DOMAIN session
    BY <1>3, Types
  <2>2. QED BY <1>2, <1>3, <2>1 DEF SessionsFit
<1>4. \A k \in DOMAIN session' :
        /\ session'[k].started => session'[k].children > 0
        /\ session'[k].started /\ ~session'[k].ready => session'[k].opening > 0
  BY <1>1, <1>2 DEF SessionsFit, Fits
<1>5. ASSUME NEW j \in Range(jobs'), j.kind = "splice"
      PROVE  j.arg \in DOMAIN session' /\ session'[j.arg].children > 0
  BY <1>1, <1>2, <1>5 DEF SessionsFit
<1>6. QED BY <1>3, <1>4, <1>5 DEF SessionsFit

\* One session is changed and holds a slot when it did before.
LEMMA SetsSlots ==
  ASSUME Typed, NEW i, NEW r, Sets(i, r), lane' = lane, HoldsSlot(r) <=> HoldsSlot(session[i])
  PROVE  ActiveLanes' = ActiveLanes
<1>1. \A k \in Lanes : LaneAsBefore(k)
  BY Types DEF Sets, LaneAsBefore
<1>2. QED BY <1>1, SameSlots

\* A lane has a session, a new one when it had none.
LEMMA MadeSessions ==
  ASSUME Typed, SessionsFit, NEW l \in Lanes, MadeOne(l),
         \A j \in Range(jobs') : j.kind = "splice" => j \in Range(jobs)
  PROVE  /\ SessionsFit' /\ ActiveLanes' = ActiveLanes /\ DOMAIN session \subseteq DOMAIN session'
         /\ lane'[l] \in DOMAIN session'
         /\ \A i \in DOMAIN session' :
              \/ i \in DOMAIN session /\ session'[i] = session[i]
              \/ session'[i] = NewSession(l)
<1>1. /\ Len(session') \in Nat /\ DOMAIN session' = 1 .. Len(session')
      /\ Len(session) \in Nat /\ DOMAIN session = 1 .. Len(session) /\ Len(session) <= Len(session')
  BY Types, LenProperties DEF MadeOne
<1>2. DOMAIN session \subseteq DOMAIN session' /\ lane'[l] \in DOMAIN session'
  BY <1>1 DEF MadeOne
<1>3. \A i \in DOMAIN session : session'[i] = session[i]
  BY DEF MadeOne
<1>4. ASSUME NEW i \in DOMAIN session', i \notin DOMAIN session
      PROVE  lane[l] = 0 /\ i = lane'[l] /\ session'[i] = NewSession(l)
  BY <1>4 DEF MadeOne
<1>5. \A k \in Lanes : lane[k] # 0 => lane[k] \in DOMAIN session
  BY <1>1, Types
<1>6. lane[l] = 0 => lane'[l] \notin DOMAIN session
  BY <1>1 DEF MadeOne, SessionFor
<1>7. /\ NewSession(l).lane = l /\ ~NewSession(l).started
  BY DEF NewSession
<1>8. ASSUME NEW k \in Lanes, lane'[k] # 0 PROVE session'[lane'[k]].lane = k
  <2>1. CASE k # l \/ lane[l] # 0
    <3>1. lane'[k] = lane[k]
      BY <2>1 DEF MadeOne
    <3>2. QED BY <1>3, <1>5, <1>8, <3>1 DEF SessionsFit
  <2>2. CASE k = l /\ lane[l] = 0
    BY <1>2, <1>4, <1>6, <1>7, <2>2
  <2>3. QED BY <2>1, <2>2
<1>9. ASSUME NEW i \in DOMAIN session'
      PROVE  /\ session'[i].started => session'[i].children > 0
             /\ session'[i].started /\ ~session'[i].ready => session'[i].opening > 0
  BY <1>3, <1>4, <1>7 DEF SessionsFit
<1>10. \A j \in Range(jobs') :
         j.kind = "splice" => j.arg \in DOMAIN session' /\ session'[j.arg].children > 0
  BY <1>2, <1>3 DEF SessionsFit
<1>11. SessionsFit'
  BY <1>8, <1>9, <1>10 DEF SessionsFit
<1>12. ASSUME NEW k \in Lanes PROVE LaneAsBefore(k)
  <2>1. CASE k # l \/ lane[l] # 0
    <3>1. lane'[k] = lane[k]
      BY <2>1 DEF MadeOne
    <3>2. QED BY <1>3, <1>5, <3>1 DEF LaneAsBefore
  <2>2. CASE k = l /\ lane[l] = 0
    <3>1. lane'[l] \in DOMAIN session' /\ lane'[l] # 0 /\ session'[lane'[l]] = NewSession(l)
      BY <1>1, <1>2, <1>4, <1>6, <2>2
    <3>2. QED BY <2>2, <3>1 DEF LaneAsBefore
  <2>3. QED BY <2>1, <2>2
<1>13. ActiveLanes' = ActiveLanes
  BY <1>12, SameSlots
<1>14. QED BY <1>2, <1>3, <1>4, <1>11, <1>13

\* No start is touched.
LEMMA SameStarting ==
  ASSUME Bounds, Typed, StartsInv, starting' = starting, NEW p, NEW t, JobsKept(p, t),
         DOMAIN session \subseteq DOMAIN session'
  PROVE  StartsInv'
<1>1. StartsSame
  BY DEF starting, StartsSame
<1>2. QED BY <1>1, StartsFrame

-----------------------------------------------------------------------------
(* The invariant, step by step.                                            *)

\* At the start nothing has happened.
LEMMA InitInv == ASSUME Bounds, DaemonInit PROVE Inv
<1>1. MaxStarts \in Nat /\ MaxTrouble \in Nat
  BY DEF Bounds
<1>2. /\ session = <<>> /\ waiting = <<>> /\ startQueue = <<>> /\ jobs = <<>>
      /\ drain = NoDrain /\ active = 0 /\ trouble = 0 /\ upgrade = "none"
      /\ lastStart = Nobody /\ paced = FALSE
      /\ \A a \in Agents : starts[a] = NoStart
      /\ \A l \in Lanes : lane[l] = 0
      /\ \A d \in Deliveries : call[d] = [phase |-> "new", session |-> 0, rest |-> <<>>]
  BY DEF DaemonInit
<1>3. /\ Len(session) = 0 /\ DOMAIN session = {} /\ Range(<<>>) = {} /\ Once(<<>>)
      /\ DOMAIN waiting = {} /\ DOMAIN jobs = {} /\ NoClash(jobs)
  BY <1>2 DEF Range, Once, NoClash
<1>4. /\ \A a \in Agents : /\ starts[a].state = "none" /\ starts[a].waiters = <<>>
      /\ \A d \in Deliveries : call[d].phase = "new" /\ call[d].rest = <<>>
  BY <1>2 DEF NoStart
<1>5. Typed
  <2>1. 0 \in 0 .. 0 /\ 0 \in 0 .. MaxStarts /\ 0 \in 0 .. MaxTrouble
    BY <1>1
  <2>2. <<>> \in Seq(Deliveries) /\ <<>> \in Seq(Agents) /\ <<>> \in Seq(Jobs)
        /\ <<>> \in Seq(SessionType)
    OBVIOUS
  <2>3. call \in [Deliveries -> [phase : Phases, session : 0 .. 0, rest : Seq(Deliveries)]]
    <3>1. [phase |-> "new", session |-> 0, rest |-> <<>>]
            \in [phase : Phases, session : 0 .. 0, rest : Seq(Deliveries)]
      BY <2>1, <2>2 DEF Phases
    <3>2. QED BY <3>1 DEF DaemonInit
  <2>4. starts \in [Agents -> [state : {"none", "queued", "running"},
                               session : 0 .. 0, waiters : Seq(Deliveries)]]
    <3>1. NoStart \in [state : {"none", "queued", "running"},
                       session : 0 .. 0, waiters : Seq(Deliveries)]
      BY <2>1, <2>2 DEF NoStart
    <3>2. QED BY <3>1 DEF DaemonInit
  <2>5. lane \in [Lanes -> 0 .. 0]
    BY <2>1 DEF DaemonInit
  <2>6. drain \in [on : BOOLEAN, item : Deliveries \cup {Nobody}, at : Nat]
    BY <1>2 DEF NoDrain
  <2>7. Len(session) = 0
    BY <1>3
  <2>8. QED BY <1>2, <2>1, <2>2, <2>3, <2>4, <2>5, <2>6, <2>7 DEF Typed, DaemonTypeOK
<1>6. StartsInv
  <2>1. Running = {}
    BY <1>4 DEF Running
  <2>2. Finishing(jobs) = {}
    BY <1>3 DEF Finishing
  <2>3. CountIsExact
    BY <1>2, <2>1, <2>2, FS_EmptySet DEF CountIsExact
  <2>4. QueueIsQueued
    BY <1>2, <1>3, <1>4 DEF QueueIsQueued
  <2>5. StartJobs
    BY <1>2, <1>3, <1>4 DEF StartJobs
  <2>6. PumpIsComing
    BY <1>2 DEF PumpIsComing
  <2>7. QED BY <2>3, <2>4, <2>5, <2>6 DEF StartsInv
<1>7. CallsInv
  <2>1. WaitingOnce /\ CallJobs
    BY <1>2, <1>3 DEF WaitingOnce, CallJobs
  <2>2. WaitersStart
    BY <1>3, <1>4 DEF WaitersStart
  <2>3. PromptsWait /\ AskedWait
    BY <1>3 DEF PromptsWait, AskedWait
  <2>4. ListsWait
    BY <1>3, <1>4 DEF ListsWait
  <2>5. Prepared
    BY <1>4 DEF Prepared
  <2>6. QED BY <2>1, <2>2, <2>3, <2>4, <2>5 DEF CallsInv
<1>8. SessionsFit
  BY <1>2, <1>3 DEF SessionsFit
<1>9. DrainIsComing
  BY <1>3 DEF DrainIsComing, Usable
<1>10. QED BY <1>5, <1>6, <1>7, <1>8, <1>9 DEF Inv

\* A step that changes nothing but the upgrade.
LEMMA QuietKeeps ==
  ASSUME Inv, UNCHANGED <<call, sessions, waits, starting, jobs, trouble>>,
         upgrade' \in {"none", "asked", "pending", "starting", "worker", "refused"}
  PROVE  Inv'
<1>1. /\ call' = call /\ lane' = lane /\ session' = session /\ waiting' = waiting
      /\ drain' = drain /\ starts' = starts /\ startQueue' = startQueue /\ active' = active
      /\ lastStart' = lastStart /\ paced' = paced /\ jobs' = jobs /\ trouble' = trouble
  BY DEF sessions, waits, starting
<1>2. Typed'
  BY <1>1 DEF Inv, Typed, DaemonTypeOK
<1>3. StartsInv'
  BY <1>1 DEF Inv, StartsInv, QueueIsQueued, CountIsExact, StartJobs, PumpIsComing, Running
<1>4. CallsInv'
  <2>1. WaitingOnce' /\ WaitersStart' /\ PromptsWait' /\ ListsWait' /\ AskedWait' /\ Prepared'
    BY <1>1 DEF Inv, CallsInv, WaitingOnce, WaitersStart, PromptsWait, ListsWait, AskedWait, Prepared
  <2>2. \A d : AwaitsStart(d)' <=> AwaitsStart(d)
    BY <1>1 DEF AwaitsStart
  <2>3. CallJobs'
    BY <1>1, <2>2 DEF Inv, CallsInv, CallJobs, JobFits
  <2>4. QED BY <2>1, <2>3 DEF CallsInv
<1>5. SessionsFit' /\ ActiveLanes' = ActiveLanes
  BY <1>1, SameSessions DEF Inv
<1>6. DrainIsComing'
  <2>1. Comes => Comes'
    BY <1>1 DEF Comes, TurnIsComing
  <2>2. QED BY <1>1, <1>5, <2>1, DrainFrame DEF Inv
<1>7. QED BY <1>2, <1>3, <1>4, <1>5, <1>6 DEF Inv

\* What a drain comes from stays.
LEMMA ComesKept ==
  ASSUME Typed, CallsInv, drain.on => drain'.on,
         \A j \in Range(jobs) : j.kind = "drain" => j \in Range(jobs'),
         \A e \in Deliveries : call[e].phase \in {"images", "lost"} =>
           call'[e].phase = call[e].phase /\ call'[e].session = call[e].session,
         \A i \in DOMAIN session : /\ i \in DOMAIN session'
                                   /\ session'[i].status = session[i].status
                                   /\ session'[i].children = session[i].children
  PROVE  Comes => Comes'
<1>1. ASSUME NEW e \in Deliveries, call[e].phase = "images"
      PROVE  call[e].session \in DOMAIN session
  <2>1. call[e].session \in 0 .. Len(session) /\ DOMAIN session = 1 .. Len(session)
        /\ Len(session) \in Nat
    BY Types
  <2>2. call[e].session # 0
    BY <1>1 DEF CallsInv, Prepared
  <2>3. QED BY <2>1, <2>2
<1>2. TurnIsComing => TurnIsComing'
  BY <1>1 DEF TurnIsComing
<1>3. QED BY <1>2 DEF Comes

\* A message arrives.
LEMMA DeliverKeeps ==
  ASSUME Bounds, Inv, NEW d \in Deliveries, Deliver(d)
  PROVE  Inv'
<1>1. /\ lane' = lane /\ session' = session /\ waiting' = waiting /\ starting' = starting
      /\ drain' = drain /\ starts' = starts /\ startQueue' = startQueue /\ active' = active
      /\ lastStart' = lastStart /\ paced' = paced /\ jobs' = jobs /\ trouble' = trouble
      /\ upgrade' = upgrade /\ jobs = <<>> /\ call[d].phase = "new"
  BY DEF Deliver, sessions, waits, starting
<1>2. Typed /\ StartsInv /\ CallsInv /\ SessionsFit /\ DrainIsComing
  BY DEF Inv
<1>3. MovesTo(d, "accepting")
  <2>1. "accepting" \in Phases
    BY DEF Phases
  <2>2. QED BY <1>2, <2>1, MovedOne DEF Deliver
<1>4. Typed'
  BY <1>1, <1>2, <1>3, Types, TypedBefore, TypedAfter DEF MovesTo
<1>5. IdleStep(<<>>) /\ JobsKept(<<>>, <<>>)
  BY <1>1, NothingKept
<1>6. StartsInv'
  BY <1>1, <1>2, <1>5, SameStarting
<1>7. CallsInv'
  <2>1. WaitingOnce'
    BY <1>1, <1>2, <1>3, WaitingKept DEF MovesTo
  <2>2. SamePlaces
    BY <1>1 DEF SamePlaces
  <2>3. ~AwaitsStart(d) /\ call[d].rest = <<>>
    BY <1>1, <1>2, FreeOnes
  <2>4. FreeMove({d})
    BY <1>1, <1>3, <2>3 DEF FreeMove, MovesTo
  <2>5. NoClash(<<>>) /\ \A j \in Range(<<>>) : JobFits(j)'
    BY NoJobs DEF Harmless
  <2>6. QED BY <1>2, <1>5, <2>1, <2>2, <2>4, <2>5, IdleCalls
<1>8. SessionsFit' /\ ActiveLanes' = ActiveLanes
  BY <1>1, <1>2, SameSessions
<1>9. DrainIsComing'
  <2>1. Comes => Comes'
    BY <1>1, <1>2, <1>3, ComesKept DEF MovesTo, Others
  <2>2. QED BY <1>1, <1>2, <1>8, <2>1, DrainFrame
<1>10. QED BY <1>4, <1>6, <1>7, <1>8, <1>9 DEF Inv

\* The ledger has the delivery: it goes to its session or waits for a slot.
LEMMA AcceptedKeeps ==
  ASSUME Bounds, Inv, NEW d \in Deliveries, Accepted(d)
  PROVE  Inv'
<1>1. /\ lane' = lane /\ session' = session /\ starting' = starting
      /\ drain' = drain /\ starts' = starts /\ startQueue' = startQueue /\ active' = active
      /\ lastStart' = lastStart /\ paced' = paced /\ trouble' = trouble
      /\ upgrade' = upgrade /\ jobs = <<>> /\ call[d].phase = "accepting"
  BY DEF Accepted, sessions, starting
<1>2. Typed /\ StartsInv /\ CallsInv /\ SessionsFit /\ DrainIsComing
  BY DEF Inv
<1>3. "given" \in Phases /\ "waiting" \in Phases
  BY DEF Phases
<1>4. ~AwaitsStart(d) /\ call[d].rest = <<>>
  BY <1>1, <1>2, FreeOnes
<1>5. SamePlaces
  BY <1>1 DEF SamePlaces
<1>6. ASSUME NEW phase \in {"given", "waiting"}, MovesTo(d, phase) PROVE FreeMove({d})
  <2>1. Range(jobs) = {}
    BY <1>1, NoJobs
  <2>2. QED BY <1>1, <1>4, <1>6, <2>1 DEF FreeMove, MovesTo
<1>7. CASE CanUseSessionSlot(LaneOf[d])
  <2>1. Moved(d, "given") /\ jobs' = <<Job("give", d)>> /\ waiting' = waiting
    BY <1>7 DEF Accepted
  <2>2. MovesTo(d, "given")
    BY <1>2, <1>3, <2>1, MovedOne
  <2>3. PICK j : j = Job("give", d)
    OBVIOUS
  <2>4. j \in Jobs /\ j.kind = "give" /\ j.arg = d
    BY <2>3 DEF Job, Jobs, JobKinds
  <2>5. PICK p : p = <<j>>
    OBVIOUS
  <2>6. p \in Seq(Jobs) /\ Range(p) = {j} /\ NoClash(p) /\ Cardinality(Finishing(p)) = 0
    BY <2>4, <2>5, OneJob
  <2>7. jobs' = p
    BY <2>1, <2>3, <2>5
  <2>8. IdleStep(p)
    BY <1>1, <2>6, <2>7, IdleOnward
  <2>9. JobsKept(p, <<>>)
    BY <2>4, <2>6, <2>8, IdleKept
  <2>10. Typed'
    <3>1. jobs' \in Seq(Jobs) /\ waiting' \in Seq(Deliveries) /\ call' \in Calls(Len(session))
      BY <1>2, <2>1, <2>2, <2>6, <2>7, Types DEF MovesTo
    <3>2. QED BY <1>1, <1>2, <3>1, Types, TypedBefore, TypedAfter
  <2>11. StartsInv'
    BY <1>1, <1>2, <2>9, SameStarting
  <2>12. CallsInv'
    <3>1. WaitingOnce'
      BY <1>1, <1>2, <2>1, <2>2, WaitingKept DEF MovesTo
    <3>2. FreeMove({d})
      BY <1>6, <2>2
    <3>3. \A k \in Range(p) : JobFits(k)'
      BY <2>2, <2>4, <2>6 DEF JobFits, MovesTo
    <3>4. QED BY <1>2, <1>5, <2>6, <2>8, <3>1, <3>2, <3>3, IdleCalls
  <2>13. SessionsFit' /\ ActiveLanes' = ActiveLanes
    <3>1. \A k \in Range(jobs') : k.kind # "splice"
      BY <2>4, <2>6, <2>7
    <3>2. QED BY <1>1, <1>2, <3>1, SameSessions
  <2>14. DrainIsComing'
    <3>1. \A k \in Range(jobs) : FALSE
      BY <1>1, NoJobs
    <3>2. Comes => Comes'
      BY <1>1, <1>2, <2>2, <3>1, ComesKept DEF MovesTo, Others
    <3>3. QED BY <1>2, <2>1, <2>13, <3>2, DrainFrame
  <2>15. QED BY <2>10, <2>11, <2>12, <2>13, <2>14 DEF Inv
<1>8. CASE ~CanUseSessionSlot(LaneOf[d])
  <2>1. Moved(d, "waiting") /\ jobs' = jobs /\ waiting' = Append(waiting, d)
    BY <1>8 DEF Accepted
  <2>2. MovesTo(d, "waiting")
    BY <1>2, <1>3, <2>1, MovedOne
  <2>3. IdleStep(<<>>) /\ JobsKept(<<>>, <<>>)
    BY <1>1, <2>1, NothingKept
  <2>4. PICK w : w = Append(waiting, d)
    OBVIOUS
  <2>5. /\ waiting \in Seq(Deliveries) /\ Once(waiting) /\ d \notin Range(waiting)
        /\ Range(waiting) \subseteq Deliveries
    BY <1>1, <1>2, Types, RangeIn DEF CallsInv, WaitingOnce
  <2>6. w \in Seq(Deliveries) /\ Once(w) /\ Range(w) = Range(waiting) \cup {d}
    BY <2>4, <2>5, OnceLonger, FewRange
  <2>7. Typed'
    BY <1>1, <1>2, <2>1, <2>2, <2>4, <2>6, Types, TypedBefore, TypedAfter DEF MovesTo
  <2>8. StartsInv'
    BY <1>1, <1>2, <2>3, SameStarting
  <2>9. CallsInv'
    <3>1. WaitingOnce'
      <4>1. \A e \in Range(w) : call'[e].phase = "waiting"
        BY <1>2, <2>2, <2>5, <2>6 DEF MovesTo, Others, CallsInv, WaitingOnce
      <4>2. QED BY <2>1, <2>4, <2>6, <4>1 DEF WaitingOnce
    <3>2. FreeMove({d})
      BY <1>6, <2>2
    <3>3. NoClash(<<>>) /\ \A j \in Range(<<>>) : JobFits(j)'
      BY NoJobs DEF Harmless
    <3>4. QED BY <1>2, <1>5, <2>3, <3>1, <3>2, <3>3, IdleCalls
  <2>10. SessionsFit' /\ ActiveLanes' = ActiveLanes
    BY <1>1, <1>2, <2>1, SameSessions
  <2>11. DrainIsComing'
    <3>1. Comes => Comes'
      BY <1>1, <1>2, <2>1, <2>2, ComesKept DEF MovesTo, Others
    <3>2. \A l : CanUseSessionSlot(l)' <=> CanUseSessionSlot(l)
      BY <2>10 DEF CanUseSessionSlot
    <3>3. /\ Len(waiting) \in Nat /\ DOMAIN w = 1 .. Len(waiting) + 1
          /\ DOMAIN waiting = 1 .. Len(waiting)
          /\ \A n \in 1 .. Len(waiting) : w[n] = waiting[n]
          /\ w[Len(waiting) + 1] = d
      BY <2>4, <2>5, AppendProperties, LenProperties
    <3>4. ASSUME NEW k \in DOMAIN w, CanUseSessionSlot(LaneOf[w[k]]) PROVE k \in Usable
      BY <1>8, <3>3, <3>4 DEF Usable
    <3>5. Usable' \subseteq Usable
      BY <2>1, <2>4, <3>2, <3>4 DEF Usable
    <3>6. QED BY <1>2, <3>1, <3>5 DEF DrainIsComing, Comes
  <2>12. QED BY <2>7, <2>8, <2>9, <2>10, <2>11 DEF Inv
<1>9. QED BY <1>7, <1>8

\* What a start that is asked for makes of the starts and the queue.
LEMMA EnqueueTypes ==
  ASSUME Bounds, Typed, NEW a \in Agents, NEW i \in 1 .. Len(session'), NEW w \in Seq(Deliveries),
         NEW rest, session' \in Seq(SessionType), Len(session) <= Len(session'),
         EnqueueAgentStart(a, i, w, rest)
  PROVE  /\ Enqueued(a, i, w, rest)
         /\ starts' \in Starts(Len(session')) /\ startQueue' \in Seq(Agents)
<1>1. Enqueued(a, i, w, rest)
  BY EnqueueFits DEF Typed, DaemonTypeOK
<1>2. PICK n : n = Len(session')
  OBVIOUS
<1>3. n \in Nat /\ Starts(Len(session)) \subseteq Starts(n) /\ i \in 0 .. n
  <2>1. Len(session) \in Nat /\ n \in Nat
    BY <1>2, Types, LenProperties
  <2>2. QED BY <1>2, <2>1, MoreSessions
<1>4. starts \in Starts(n) /\ startQueue \in Seq(Agents)
  BY <1>3, Types
<1>5. CASE starts[a].state # "none"
  <2>1. PICK v : v = starts[a].waiters \o w
    OBVIOUS
  <2>2. v \in Seq(Deliveries)
    BY <2>1, Types, ConcatProperties
  <2>3. starts' = [starts EXCEPT ![a].waiters = v] /\ startQueue' = startQueue
    BY <1>5, <2>1 DEF EnqueueAgentStart
  <2>4. starts' \in Starts(n)
    BY <1>4, <2>2, <2>3 DEF Starts
  <2>5. QED BY <1>1, <1>2, <1>4, <2>3, <2>4
<1>6. CASE starts[a].state = "none"
  <2>1. starts' = [starts EXCEPT ![a] = [state |-> "queued", session |-> i, waiters |-> w]]
        /\ startQueue' = Append(startQueue, a)
    BY <1>6 DEF EnqueueAgentStart
  <2>2. [state |-> "queued", session |-> i, waiters |-> w]
          \in [state : {"none", "queued", "running"}, session : 0 .. n, waiters : Seq(Deliveries)]
    BY <1>3
  <2>3. starts' \in Starts(n)
    BY <1>4, <2>1, <2>2 DEF Starts
  <2>4. startQueue' \in Seq(Agents)
    BY <1>4, <2>1, AppendProperties
  <2>5. QED BY <1>1, <1>2, <2>3, <2>4
<1>7. QED BY <1>5, <1>6

\* Its jobs: the pump, or none.
PumpOnly(p) == Harmless(p) /\ \A j \in Range(p) : j.kind = "pump"

\* With no jobs before.
LEMMA EnqueueIdle ==
  ASSUME jobs = <<>>, NEW a, NEW i, NEW w, Enqueued(a, i, w, <<>>)
  PROVE  \E p \in Seq(Jobs) : IdleStep(p) /\ PumpOnly(p)
<1>1. PICK j : j = Job("pump", Nobody)
  OBVIOUS
<1>2. j \in Jobs /\ j.kind = "pump"
  BY <1>1 DEF Job, Jobs, JobKinds
<1>3. PICK p : p = <<j>>
  OBVIOUS
<1>4. p \in Seq(Jobs) /\ Range(p) = {j}
  BY <1>2, <1>3, OneJob
<1>5. PumpOnly(p) /\ PumpOnly(<<>>)
  BY <1>2, <1>4, KindsHarmless, NoJobs DEF PumpOnly
<1>6. CASE jobs' = <<>>
  BY <1>5, <1>6, IdleOnward, NoJobs
<1>7. CASE jobs' = <<Job("pump", Nobody)>> \o <<>>
  <2>1. jobs' = p
    BY <1>1, <1>3, <1>4, <1>7, ConcatEmptySeq
  <2>2. QED BY <1>4, <1>5, <2>1, IdleOnward
<1>8. QED BY <1>6, <1>7 DEF Enqueued

\* As part of a job.
LEMMA EnqueueJob ==
  ASSUME jobs \in Seq(Jobs), jobs # <<>>, NEW a, NEW i, NEW w, Enqueued(a, i, w, Tail(jobs))
  PROVE  \E p \in Seq(Jobs) : JobStep(p) /\ PumpOnly(p)
<1>1. PICK j : j = Job("pump", Nobody)
  OBVIOUS
<1>2. j \in Jobs /\ j.kind = "pump"
  BY <1>1 DEF Job, Jobs, JobKinds
<1>3. PICK p : p = <<j>>
  OBVIOUS
<1>4. p \in Seq(Jobs) /\ Range(p) = {j}
  BY <1>2, <1>3, OneJob
<1>5. PumpOnly(p) /\ PumpOnly(<<>>)
  BY <1>2, <1>4, KindsHarmless, NoJobs DEF PumpOnly
<1>6. CASE jobs' = Tail(jobs)
  BY <1>5, <1>6, JobDone, NoJobs
<1>7. CASE jobs' = <<Job("pump", Nobody)>> \o Tail(jobs)
  <2>1. jobs' = p \o Tail(jobs)
    BY <1>1, <1>3, <1>7
  <2>2. QED BY <1>4, <1>5, <2>1, JobOnward
<1>8. QED BY <1>6, <1>7 DEF Enqueued

\* A start that nobody awaits changes no list of those who await one.
LEMMA EnqueueNobody ==
  ASSUME Typed, NEW a \in Agents, NEW i, NEW rest, Enqueued(a, i, <<>>, rest)
  PROVE  \A b \in Agents : starts'[b].waiters = starts[b].waiters \/ starts'[b].waiters = <<>>
<1>1. PICK s : s = starts[a]
  OBVIOUS
<1>2. s \in [state : {"none", "queued", "running"},
             session : 0 .. Len(session), waiters : Seq(Deliveries)]
  BY <1>1, Types DEF Starts
<1>3. s.waiters \o <<>> = s.waiters
  BY <1>2, ConcatEmptySeq
<1>4. starts'[a].waiters = s.waiters \/ starts'[a].waiters = <<>>
  <2>1. CASE starts'[a] = [s EXCEPT !.waiters = s.waiters \o <<>>]
    BY <1>2, <1>3, <2>1
  <2>2. CASE starts'[a] = [state |-> "queued", session |-> i, waiters |-> <<>>]
    BY <2>2
  <2>3. QED BY <1>1, <2>1, <2>2 DEF Enqueued
<1>5. QED BY <1>1, <1>4 DEF Enqueued

\* The server asks for a start.
LEMMA HandleAgentStartKeeps ==
  ASSUME Bounds, Inv, NEW l \in Lanes, HandleAgentStart(l)
  PROVE  Inv'
<1>1. /\ call' = call /\ waiting' = waiting /\ drain' = drain /\ active' = active
      /\ lastStart' = lastStart /\ paced' = paced /\ upgrade' = upgrade /\ jobs = <<>>
      /\ Made(l) /\ EnqueueAgentStart(AgentOf[l], SessionFor(l), <<>>, <<>>)
  BY DEF HandleAgentStart, waits
<1>2. Typed /\ StartsInv /\ CallsInv /\ SessionsFit /\ DrainIsComing
  BY DEF Inv
<1>3. trouble' \in 0 .. MaxTrouble
  BY <1>2, MoreTrouble DEF HandleAgentStart
<1>4. MadeOne(l)
  BY <1>1, <1>2, Types, MadeFits
<1>5. PICK a, i : a = AgentOf[l] /\ i = SessionFor(l)
  OBVIOUS
<1>6. a \in Agents /\ i \in 1 .. Len(session')
  BY <1>4, <1>5, LaneAndAgent DEF MadeOne
<1>7. Enqueued(a, i, <<>>, <<>>) /\ starts' \in Starts(Len(session')) /\ startQueue' \in Seq(Agents)
  <2>1. <<>> \in Seq(Deliveries) /\ session' \in Seq(SessionType) /\ Len(session) <= Len(session')
    BY <1>4 DEF MadeOne
  <2>2. QED BY <1>1, <1>2, <1>5, <1>6, <2>1, EnqueueTypes
<1>8. PICK p \in Seq(Jobs) : IdleStep(p) /\ PumpOnly(p)
  BY <1>1, <1>7, EnqueueIdle
<1>9. /\ Harmless(p) /\ Range(jobs') = Range(p) /\ jobs' = p
      /\ \A j \in Range(jobs') : j.kind = "pump"
  BY <1>8 DEF IdleStep, PumpOnly
<1>10. /\ SessionsFit' /\ ActiveLanes' = ActiveLanes /\ DOMAIN session \subseteq DOMAIN session'
       /\ \A k \in DOMAIN session' :
            \/ k \in DOMAIN session /\ session'[k] = session[k]
            \/ session'[k] = NewSession(l)
  BY <1>2, <1>4, <1>9, MadeSessions
<1>11. Typed'
  BY <1>1, <1>2, <1>3, <1>4, <1>7, <1>9, Types, TypedBefore, TypedAfter DEF MadeOne
<1>12. StartsInv'
  <2>1. i \in DOMAIN session'
    BY <1>4, <1>6, LenProperties DEF MadeOne
  <2>2. /\ <<>> \in Seq(Jobs) /\ Range(<<>>) = {}
        /\ Cardinality(Finishing(<<>>)) = Cardinality(Finishing(jobs))
        /\ ~ \E j \in Range(jobs) : j.kind = "pump"
    BY <1>1, NoJobs
  <2>3. PICK e : e = <<>>
    OBVIOUS
  <2>4. /\ Enqueued(a, i, e, e) /\ e \in Seq(Jobs) /\ Range(e) \subseteq Range(jobs)
        /\ Cardinality(Finishing(e)) = Cardinality(Finishing(jobs))
    BY <1>7, <2>2, <2>3
  <2>5. QED BY <1>1, <1>2, <1>6, <1>10, <2>1, <2>2, <2>4, EnqueueStarts
<1>13. CallsInv'
  <2>1. WaitingOnce'
    BY <1>1, <1>2 DEF CallsInv, WaitingOnce
  <2>2. NewSession(l).prompts = <<>> /\ NewSession(l).asked = {}
    BY DEF NewSession
  <2>3. SamePlaces
    BY <1>2, <1>6, <1>7, <1>10, <2>2, EnqueueNobody DEF SamePlaces
  <2>4. FreeMove({})
    BY <1>1, NoJobs DEF FreeMove, Others
  <2>5. NoClash(p) /\ \A j \in Range(p) : JobFits(j)'
    BY <1>9 DEF Harmless, JobFits
  <2>6. QED BY <1>2, <1>8, <2>1, <2>3, <2>4, <2>5, IdleCalls
<1>14. DrainIsComing'
  <2>1. \A j \in Range(jobs) : FALSE
    BY <1>1, NoJobs
  <2>2. \A k \in DOMAIN session : k \in DOMAIN session' /\ session'[k] = session[k]
    BY <1>4, <1>10 DEF MadeOne
  <2>3. Comes => Comes'
    BY <1>1, <1>2, <2>1, <2>2, ComesKept
  <2>4. QED BY <1>1, <1>2, <1>10, <2>3, DrainFrame
<1>15. QED BY <1>10, <1>11, <1>12, <1>13, <1>14 DEF Inv

\* A stop keeps everything of a session but its status.
LEMMA StoppedFields ==
  ASSUME Typed, NEW a, NEW k \in DOMAIN session
  PROVE  LET s == Stopped(a)[k] IN
           /\ s.lane = session[k].lane /\ s.children = session[k].children
           /\ s.started = session[k].started /\ s.ready = session[k].ready
           /\ s.opening = session[k].opening /\ s.prompts = session[k].prompts
           /\ s.asked = session[k].asked /\ s.turn = session[k].turn
           /\ (s.status = session[k].status \/ s.status = "stopping")
<1>1. PICK s, t : s = Stopped(a)[k] /\ t = session[k]
  OBVIOUS
<1>2. t \in SessionType
  BY <1>1, Types
<1>3. s = t \/ s = [t EXCEPT !.status = "stopping"]
  BY <1>1, Types, StoppedFits DEF OnlyStopped
<1>4. /\ s.lane = t.lane /\ s.children = t.children /\ s.started = t.started
      /\ s.ready = t.ready /\ s.opening = t.opening /\ s.prompts = t.prompts
      /\ s.asked = t.asked /\ s.turn = t.turn /\ (s.status = t.status \/ s.status = "stopping")
  BY <1>2, <1>3 DEF SessionType
<1>5. QED BY <1>1, <1>4

\* A stop has a session to stop, or it changes nothing.
LEMMA StopSlots ==
  ASSUME Typed, SessionsFit, NEW a
  PROVE  \/ \E k \in DOMAIN session : Stopped(a)[k].status = "stopping"
         \/ /\ \A k \in DOMAIN session : Stopped(a)[k] = session[k]
            /\ \A l \in Lanes : AgentOf[l] = a => lane[l] = 0
<1>1. CASE \E l \in Lanes : AgentOf[l] = a /\ lane[l] # 0
  <2>1. PICK l \in Lanes : AgentOf[l] = a /\ lane[l] # 0
    BY <1>1
  <2>2. lane[l] \in DOMAIN session /\ session[lane[l]].lane = l
    BY <2>1, Types DEF SessionsFit
  <2>3. PICK k : k = lane[l]
    OBVIOUS
  <2>4. Stopped(a)[k] = [session[k] EXCEPT !.status = "stopping"] /\ session[k] \in SessionType
    BY <2>1, <2>2, <2>3, Types DEF Stopped
  <2>5. Stopped(a)[k].status = "stopping"
    BY <2>4 DEF SessionType
  <2>6. QED BY <2>2, <2>3, <2>5
<1>2. CASE \A l \in Lanes : AgentOf[l] = a => lane[l] = 0
  <2>1. ASSUME NEW k \in DOMAIN session PROVE Stopped(a)[k] = session[k]
    <3>1. session[k].lane \in Lanes /\ k # 0
      BY Types DEF SessionType
    <3>2. ~ (lane[session[k].lane] = k /\ AgentOf[session[k].lane] = a)
      BY <1>2, <3>1
    <3>3. QED BY <3>2 DEF Stopped
  <2>2. QED BY <1>2, <2>1
<1>3. QED BY <1>1, <1>2

\* Why a drain is still coming after a stop.
LEMMA StopComes ==
  ASSUME Typed, SessionsFit, CallsInv, NEW a, drain' = drain, call' = call, jobs = <<>>,
         \A k \in DOMAIN session : k \in DOMAIN session' /\ session'[k] = Stopped(a)[k]
  PROVE  Comes => Comes'
<1>1. \A j \in Range(jobs) : FALSE
  BY NoJobs
<1>2. CASE \E k \in DOMAIN session : Stopped(a)[k].status = "stopping"
  BY <1>2 DEF Comes
<1>3. CASE \A k \in DOMAIN session : Stopped(a)[k] = session[k]
  BY <1>1, <1>3, ComesKept
<1>4. QED BY <1>2, <1>3, StopSlots

\* The server stops an agent.
LEMMA HandleAgentStopKeeps ==
  ASSUME Bounds, Inv, NEW a \in Agents, HandleAgentStop(a)
  PROVE  Inv'
<1>1. /\ call' = call /\ waiting' = waiting /\ drain' = drain /\ active' = active
      /\ starting' = starting /\ starts' = starts /\ startQueue' = startQueue
      /\ lastStart' = lastStart /\ paced' = paced /\ upgrade' = upgrade /\ jobs' = jobs
      /\ jobs = <<>> /\ session' = Stopped(a) /\ lane' = LanesForgotten(a)
  BY DEF HandleAgentStop, waits, starting
<1>2. Typed /\ StartsInv /\ CallsInv /\ SessionsFit /\ DrainIsComing
  BY DEF Inv
<1>3. trouble' \in 0 .. MaxTrouble
  BY <1>2, MoreTrouble DEF HandleAgentStop
<1>4. /\ session' \in Seq(SessionType) /\ Len(session') = Len(session)
      /\ Len(session) \in Nat /\ DOMAIN session' = DOMAIN session
  BY <1>1, <1>2, Types, StoppedFits, LenProperties DEF OnlyStopped
<1>5. \A k \in DOMAIN session :
        /\ session'[k].lane = session[k].lane /\ session'[k].children = session[k].children
        /\ session'[k].started = session[k].started /\ session'[k].ready = session[k].ready
        /\ session'[k].opening = session[k].opening /\ session'[k].prompts = session[k].prompts
        /\ session'[k].asked = session[k].asked
  BY <1>1, <1>2, StoppedFields
<1>6. \A l \in Lanes : lane'[l] = 0 \/ lane'[l] = lane[l]
  BY <1>1 DEF LanesForgotten
<1>7. lane' \in [Lanes -> 0 .. Len(session')]
  <2>1. \A l \in Lanes : lane[l] \in 0 .. Len(session) /\ 0 \in 0 .. Len(session)
    BY <1>2, <1>4, Types
  <2>2. QED BY <1>1, <1>4, <2>1 DEF LanesForgotten
<1>8. Typed'
  BY <1>1, <1>2, <1>3, <1>4, <1>7, Types, TypedBefore, TypedAfter
<1>9. IdleStep(<<>>) /\ JobsKept(<<>>, <<>>)
  BY <1>1, NothingKept
<1>10. StartsInv'
  BY <1>1, <1>2, <1>4, <1>9, SameStarting
<1>11. CallsInv'
  <2>1. WaitingOnce'
    BY <1>1, <1>2 DEF CallsInv, WaitingOnce
  <2>2. SamePlaces
    BY <1>1, <1>4, <1>5 DEF SamePlaces
  <2>3. FreeMove({})
    BY <1>1 DEF FreeMove, Others
  <2>4. NoClash(<<>>) /\ \A j \in Range(<<>>) : JobFits(j)'
    BY NoJobs DEF Harmless
  <2>5. QED BY <1>2, <1>9, <2>1, <2>2, <2>3, <2>4, IdleCalls
<1>12. SessionsFit'
  <2>1. ASSUME NEW l \in Lanes, lane'[l] # 0 PROVE session'[lane'[l]].lane = l
    <3>1. lane'[l] = lane[l] /\ lane[l] \in DOMAIN session
      BY <1>2, <1>6, <2>1, Types
    <3>2. QED BY <1>2, <1>5, <2>1, <3>1 DEF SessionsFit
  <2>2. QED BY <1>1, <1>2, <1>4, <1>5, <2>1 DEF SessionsFit
<1>13. DrainIsComing'
  <2>1. CASE \E k \in DOMAIN session : Stopped(a)[k].status = "stopping"
    BY <1>1, <1>4, <2>1 DEF DrainIsComing
  <2>2. CASE /\ \A k \in DOMAIN session : Stopped(a)[k] = session[k]
             /\ \A l \in Lanes : AgentOf[l] = a => lane[l] = 0
    <3>1. \A l \in Lanes : lane'[l] = lane[l]
      BY <1>1, <2>2 DEF LanesForgotten
    <3>2. \A l \in Lanes : lane[l] # 0 => lane[l] \in DOMAIN session
      BY <1>2, Types
    <3>3. \A l \in Lanes : LaneAsBefore(l)
      BY <1>1, <2>2, <3>1, <3>2 DEF LaneAsBefore
    <3>4. ActiveLanes' = ActiveLanes
      BY <3>3, SameSlots
    <3>5. Comes => Comes'
      BY <1>1, <1>2, <1>4, StopComes
    <3>6. QED BY <1>1, <1>2, <3>4, <3>5, DrainFrame
  <2>3. QED BY <1>2, <2>1, <2>2, StopSlots
<1>14. QED BY <1>8, <1>10, <1>11, <1>12, <1>13 DEF Inv

\* The server restarts the agent of a lane.
LEMMA HandleAgentRestartKeeps ==
  ASSUME Bounds, Inv, NEW l \in Lanes, HandleAgentRestart(l)
  PROVE  Inv'
<1>1. PICK a, i, st : a = AgentOf[l] /\ i = Len(session) + 1 /\ st = Stopped(a)
  OBVIOUS
<1>2. /\ call' = call /\ waiting' = waiting /\ drain' = drain /\ active' = active
      /\ lastStart' = lastStart /\ paced' = paced /\ upgrade' = upgrade /\ jobs = <<>>
      /\ session' = Append(st, NewSession(l)) /\ lane' = [LanesForgotten(a) EXCEPT ![l] = i]
      /\ EnqueueAgentStart(a, i, <<>>, <<>>)
  BY <1>1 DEF HandleAgentRestart, waits
<1>3. Typed /\ StartsInv /\ CallsInv /\ SessionsFit /\ DrainIsComing
  BY DEF Inv
<1>4. trouble' \in 0 .. MaxTrouble
  BY <1>3, MoreTrouble DEF HandleAgentRestart
<1>5. /\ st \in Seq(SessionType) /\ Len(st) = Len(session)
      /\ Len(session) \in Nat /\ DOMAIN session = 1 .. Len(session)
  BY <1>1, <1>3, Types, StoppedFits DEF OnlyStopped
<1>6. /\ session' \in Seq(SessionType) /\ Len(session') = i
      /\ \A k \in 1 .. Len(session) : session'[k] = st[k]
      /\ session'[i] = NewSession(l)
  BY <1>1, <1>2, <1>5, NewSessionTyped, AppendProperties
<1>7. /\ DOMAIN session' = DOMAIN session \cup {i} /\ i \notin DOMAIN session
      /\ DOMAIN session \subseteq DOMAIN session' /\ i \in 1 .. i /\ i # 0
      /\ Len(session) <= Len(session') /\ 0 .. Len(session) \subseteq 0 .. i /\ i \in 0 .. i
  BY <1>1, <1>5, <1>6, LenProperties
<1>8. \A k \in DOMAIN session :
        /\ session'[k].lane = session[k].lane /\ session'[k].children = session[k].children
        /\ session'[k].started = session[k].started /\ session'[k].ready = session[k].ready
        /\ session'[k].opening = session[k].opening /\ session'[k].prompts = session[k].prompts
        /\ session'[k].asked = session[k].asked
  BY <1>1, <1>3, <1>5, <1>6, StoppedFields
<1>9. \A k \in Lanes : lane[k] \in 0 .. Len(session) /\ (lane[k] # 0 => lane[k] \in DOMAIN session)
  BY <1>3, <1>5, Types
<1>10. /\ lane'[l] = i /\ \A k \in Lanes \ {l} : lane'[k] = IF AgentOf[k] = a THEN 0 ELSE lane[k]
       /\ lane' \in [Lanes -> 0 .. Len(session')]
  <2>1. LanesForgotten(a) \in [Lanes -> 0 .. i]
    BY <1>7, <1>9 DEF LanesForgotten
  <2>2. \A k \in Lanes : LanesForgotten(a)[k] = IF AgentOf[k] = a THEN 0 ELSE lane[k]
    BY DEF LanesForgotten
  <2>3. QED BY <1>2, <1>6, <1>7, <2>1, <2>2
<1>11. a \in Agents /\ i \in 1 .. Len(session')
  BY <1>1, <1>6, <1>7, LaneAndAgent
<1>12. Enqueued(a, i, <<>>, <<>>) /\ starts' \in Starts(Len(session')) /\ startQueue' \in Seq(Agents)
  <2>1. <<>> \in Seq(Deliveries)
    OBVIOUS
  <2>2. QED BY <1>2, <1>3, <1>6, <1>7, <1>11, <2>1, EnqueueTypes
<1>13. PICK p \in Seq(Jobs) : IdleStep(p) /\ PumpOnly(p)
  BY <1>2, <1>12, EnqueueIdle
<1>14. /\ Harmless(p) /\ Range(jobs') = Range(p) /\ jobs' = p
       /\ \A j \in Range(jobs') : j.kind = "pump"
  BY <1>13 DEF IdleStep, PumpOnly
<1>15. Typed'
  BY <1>2, <1>3, <1>4, <1>6, <1>7, <1>10, <1>12, <1>14, Types, TypedBefore, TypedAfter
<1>16. StartsInv'
  <2>1. i \in DOMAIN session'
    BY <1>7
  <2>2. PICK e : e = <<>>
    OBVIOUS
  <2>3. /\ Enqueued(a, i, e, e) /\ e \in Seq(Jobs) /\ Range(e) \subseteq Range(jobs)
        /\ Cardinality(Finishing(e)) = Cardinality(Finishing(jobs))
        /\ ~ \E j \in Range(jobs) : j.kind = "pump"
    BY <1>2, <1>12, <2>2, NoJobs
  <2>4. QED BY <1>2, <1>3, <1>7, <1>11, <2>1, <2>3, EnqueueStarts
<1>17. CallsInv'
  <2>1. WaitingOnce'
    BY <1>2, <1>3 DEF CallsInv, WaitingOnce
  <2>2. NewSession(l).prompts = <<>> /\ NewSession(l).asked = {}
    BY DEF NewSession
  <2>3. SamePlaces
    BY <1>3, <1>6, <1>7, <1>8, <1>11, <1>12, <2>2, EnqueueNobody DEF SamePlaces
  <2>4. FreeMove({})
    BY <1>2, NoJobs DEF FreeMove, Others
  <2>5. NoClash(p) /\ \A j \in Range(p) : JobFits(j)'
    BY <1>14 DEF Harmless, JobFits
  <2>6. QED BY <1>3, <1>13, <2>1, <2>3, <2>4, <2>5, IdleCalls
<1>18. SessionsFit'
  <2>1. NewSession(l).lane = l /\ ~NewSession(l).started
    BY DEF NewSession
  <2>2. ASSUME NEW k \in Lanes, lane'[k] # 0 PROVE session'[lane'[k]].lane = k
    <3>1. CASE k = l
      BY <1>6, <1>10, <2>1, <3>1
    <3>2. CASE k # l
      <4>1. lane'[k] = lane[k] /\ lane[k] # 0 /\ lane[k] \in DOMAIN session
        BY <1>9, <1>10, <2>2, <3>2
      <4>2. QED BY <1>3, <1>8, <4>1 DEF SessionsFit
    <3>3. QED BY <3>1, <3>2
  <2>3. ASSUME NEW k \in DOMAIN session'
        PROVE  /\ session'[k].started => session'[k].children > 0
               /\ session'[k].started /\ ~session'[k].ready => session'[k].opening > 0
    BY <1>3, <1>6, <1>7, <1>8, <2>1 DEF SessionsFit
  <2>4. QED BY <1>14, <2>2, <2>3 DEF SessionsFit
<1>19. DrainIsComing'
  <2>1. \A k \in DOMAIN session : k \in DOMAIN session' /\ session'[k] = Stopped(a)[k]
    BY <1>1, <1>5, <1>6, <1>7
  <2>2. CASE \E k \in DOMAIN session : Stopped(a)[k].status = "stopping"
    BY <2>1, <2>2 DEF DrainIsComing
  <2>3. CASE /\ \A k \in DOMAIN session : Stopped(a)[k] = session[k]
             /\ \A k \in Lanes : AgentOf[k] = a => lane[k] = 0
    <3>1. \A k \in Lanes \ {l} : lane'[k] = lane[k]
      BY <1>10, <2>3
    <3>2. lane[l] = 0 /\ lane'[l] # 0 /\ session'[lane'[l]] = NewSession(l)
      BY <1>1, <1>6, <1>7, <1>10, <2>3
    <3>3. \A k \in Lanes : LaneAsBefore(k)
      BY <1>9, <2>1, <2>3, <3>1, <3>2 DEF LaneAsBefore
    <3>4. ActiveLanes' = ActiveLanes
      BY <3>3, SameSlots
    <3>5. Comes => Comes'
      BY <1>2, <1>3, <2>1, StopComes
    <3>6. QED BY <1>2, <1>3, <3>4, <3>5, DrainFrame
  <2>4. QED BY <1>3, <2>2, <2>3, StopSlots
<1>20. QED BY <1>15, <1>16, <1>17, <1>18, <1>19 DEF Inv

\* The other jobs do not go on with the delivery of the first.
LEMMA HeadAlone ==
  ASSUME CallsInv, NEW p, JobStep(p), Head(jobs).kind \in {"give", "deliver"}
  PROVE  /\ JobFits(Head(jobs)) /\ Head(jobs).arg \in Deliveries
         /\ \A j \in Range(Tail(jobs)) :
              /\ j \in Range(jobs)
              /\ j.kind \in {"give", "deliver", "turns"} => j.arg # Head(jobs).arg
<1>1. PICK h, t : h = Head(jobs) /\ t = Tail(jobs)
  OBVIOUS
<1>2. h \in Range(jobs) /\ Range(t) \subseteq Range(jobs) /\ Taken(jobs, t)
  BY <1>1 DEF JobStep, Onward
<1>3. \A j \in Range(t) : ~Clash(h, j)
  BY <1>1, <1>2 DEF Taken, CallsInv, CallJobs
<1>4. JobFits(h) /\ h.arg \in Deliveries /\ call[h.arg].phase \in {"given", "starting"}
  BY <1>1, <1>2 DEF CallsInv, CallJobs, JobFits
<1>5. ASSUME NEW j \in Range(t), j.kind \in {"give", "deliver", "turns"} PROVE j.arg # h.arg
  <2>1. CASE j.kind = "turns"
    <3>1. call[j.arg].phase \in {"asked", "dropped"}
      BY <1>2, <2>1 DEF CallsInv, CallJobs, JobFits
    <3>2. QED BY <1>4, <3>1
  <2>2. CASE j.kind \in {"give", "deliver"}
    BY <1>1, <1>3, <2>2 DEF Clash
  <2>3. QED BY <1>5, <2>1, <2>2
<1>6. QED BY <1>1, <1>2, <1>4, <1>5

\* Jobs of another kind than the first are still there.
LEMMA OthersStay ==
  ASSUME NEW p, JobStep(p), NEW j \in Range(jobs), j # Head(jobs)
  PROVE  j \in Range(jobs')
<1>1. PICK t : t = Tail(jobs)
  OBVIOUS
<1>2. Range(jobs) = {Head(jobs)} \cup Range(t) /\ Range(jobs') = Range(p) \cup Range(t)
  BY <1>1 DEF JobStep, Taken
<1>3. QED BY <1>2

\* What is left keeps the count.
LEMMA TailKept ==
  ASSUME NEW p, JobStep(p), Head(jobs).kind \notin {"pump", "finally"}
  PROVE  /\ Tail(jobs) \in Seq(Jobs) /\ Range(Tail(jobs)) \subseteq Range(jobs)
         /\ Cardinality(Finishing(Tail(jobs))) = Cardinality(Finishing(jobs))
         /\ (\E j \in Range(jobs) : j.kind = "pump") => \E j \in Range(Tail(jobs)) : j.kind = "pump"
<1>1. PICK t : t = Tail(jobs)
  OBVIOUS
<1>2. Taken(jobs, t) /\ t \in Seq(Jobs) /\ Range(t) \subseteq Range(jobs)
  BY <1>1 DEF JobStep, Onward
<1>3. /\ Cardinality(Finishing(t)) = Cardinality(Finishing(jobs))
      /\ (\E j \in Range(jobs) : j.kind = "pump") => \E j \in Range(t) : j.kind = "pump"
  BY <1>2 DEF Taken
<1>4. QED BY <1>1, <1>2, <1>3

\* What Give does with the delivery d, whose session is then i.
Given(d, i, up) ==
  /\ d \in Deliveries /\ call[d].phase = "given" /\ Head(jobs).arg = d
  /\ i \in 1 .. Len(session') /\ MadeOne(LaneOf[d])
  /\ call'[d].phase = (IF up THEN "given" ELSE "starting")
  /\ call'[d].session = i /\ call'[d].rest = <<>> /\ Others({d})
  /\ call' \in Calls(Len(session'))
  /\ IF up THEN jobs' = <<Job("deliver", d)>> \o Tail(jobs) /\ starts' = starts
                /\ startQueue' = startQueue
     ELSE EnqueueAgentStart(AgentOfCall(d), i, <<d>>, Tail(jobs))
  /\ waiting' = waiting /\ drain' = drain /\ active' = active /\ lastStart' = lastStart
  /\ paced' = paced /\ upgrade' = upgrade /\ trouble' = trouble
  /\ jobs \in Seq(Jobs) /\ jobs # <<>> /\ Head(jobs).kind = "give"

\* It does so.
LEMMA GiveFits ==
  ASSUME Bounds, Inv, Give
  PROVE  \E d, i : Given(d, i, TRUE) \/ Given(d, i, FALSE)
<1>1. Typed /\ CallsInv
  BY DEF Inv
<1>2. jobs \in Seq(Jobs) /\ jobs # <<>> /\ Head(jobs).kind = "give"
  BY <1>1, Types DEF Give, Doing
<1>3. Head(jobs) \in Range(jobs)
  BY <1>2, TakesJob DEF Taken
<1>4. PICK d, i, l : d = Head(jobs).arg /\ l = LaneOf[d] /\ i = SessionFor(l)
  OBVIOUS
<1>5. d \in Deliveries /\ call[d].phase = "given"
  BY <1>1, <1>2, <1>3, <1>4 DEF CallsInv, CallJobs, JobFits
<1>6. PICK up \in BOOLEAN : up <=> lane[LaneOf[d]] # 0 /\ session[i].started
  OBVIOUS
<1>7. /\ Made(l)
      /\ call' = [call EXCEPT ![d] = [phase |-> IF up THEN "given" ELSE "starting",
                                      session |-> i, rest |-> <<>>]]
      /\ IF up THEN jobs' = <<Job("deliver", d)>> \o Tail(jobs) /\ UNCHANGED <<starts, startQueue>>
         ELSE EnqueueAgentStart(AgentOfCall(d), i, <<d>>, Tail(jobs))
      /\ UNCHANGED <<waits, active, lastStart, paced, upgrade, trouble>>
  BY <1>4, <1>6 DEF Give, Arg
<1>8. l \in Lanes
  BY <1>4, <1>5, LaneAndAgent
<1>9. MadeOne(l)
  BY <1>1, <1>7, <1>8, Types, MadeFits
<1>10. i \in 1 .. Len(session') /\ Len(session) <= Len(session') /\ Len(session') \in Nat
  BY <1>4, <1>9, LenProperties DEF MadeOne
<1>11. call \in Calls(Len(session'))
  <2>1. Calls(Len(session)) \subseteq Calls(Len(session'))
    BY <1>1, <1>10, Types, MoreSessions
  <2>2. QED BY <1>1, <2>1, Types
<1>12. PICK r : r = [phase |-> IF up THEN "given" ELSE "starting", session |-> i, rest |-> <<>>]
  OBVIOUS
<1>13. /\ r \in [phase : Phases, session : 0 .. Len(session'), rest : Seq(Deliveries)]
       /\ r.phase = (IF up THEN "given" ELSE "starting") /\ r.session = i /\ r.rest = <<>>
  <2>1. (IF up THEN "given" ELSE "starting") \in Phases /\ i \in 0 .. Len(session')
        /\ <<>> \in Seq(Deliveries)
    BY <1>10 DEF Phases
  <2>2. QED BY <1>12, <2>1
<1>14. call'[d] = r /\ Others({d}) /\ call' \in Calls(Len(session'))
  BY <1>5, <1>7, <1>11, <1>12, <1>13 DEF Calls, Others
<1>15. Given(d, i, up)
  BY <1>2, <1>4, <1>5, <1>7, <1>9, <1>10, <1>13, <1>14 DEF Given, waits
<1>16. QED BY <1>15

\* A delivery goes to its session: to the runtime, when it runs.
LEMMA GiveUpKeeps ==
  ASSUME Bounds, Inv, NEW d, NEW i, Given(d, i, TRUE)
  PROVE  Inv'
<1>1. /\ d \in Deliveries /\ call[d].phase = "given" /\ Head(jobs).arg = d
      /\ i \in 1 .. Len(session') /\ MadeOne(LaneOf[d])
      /\ call'[d].phase = "given" /\ call'[d].session = i /\ call'[d].rest = <<>> /\ Others({d})
      /\ call' \in Calls(Len(session'))
      /\ jobs' = <<Job("deliver", d)>> \o Tail(jobs) /\ starts' = starts /\ startQueue' = startQueue
      /\ waiting' = waiting /\ drain' = drain /\ active' = active /\ lastStart' = lastStart
      /\ paced' = paced /\ upgrade' = upgrade /\ trouble' = trouble
      /\ jobs \in Seq(Jobs) /\ jobs # <<>> /\ Head(jobs).kind = "give"
  BY DEF Given
<1>2. Typed /\ StartsInv /\ CallsInv /\ SessionsFit /\ DrainIsComing
  BY DEF Inv
<1>3. PICK j, p, t : j = Job("deliver", d) /\ p = <<j>> /\ t = Tail(jobs)
  OBVIOUS
<1>4. j \in Jobs /\ j.kind = "deliver" /\ j.arg = d
  BY <1>1, <1>3 DEF Job, Jobs, JobKinds
<1>5. p \in Seq(Jobs) /\ Range(p) = {j} /\ NoClash(p) /\ Cardinality(Finishing(p)) = 0
  BY <1>3, <1>4, OneJob
<1>6. JobStep(p)
  BY <1>1, <1>3, <1>5, JobOnward
<1>7. /\ Range(jobs') = {j} \cup Range(t) /\ jobs' \in Seq(Jobs)
      /\ \A k \in Range(t) : k \in Range(jobs)
                             /\ (k.kind \in {"give", "deliver", "turns"} => k.arg # d)
  <2>1. \A k \in Range(t) : /\ k \in Range(jobs)
                            /\ k.kind \in {"give", "deliver", "turns"} => k.arg # d
    BY <1>1, <1>2, <1>3, <1>6, HeadAlone
  <2>2. Range(jobs') = {j} \cup Range(t) /\ jobs' \in Seq(Jobs)
    BY <1>3, <1>5, <1>6 DEF JobStep, Onward, Joined
  <2>3. QED BY <2>1, <2>2
<1>8. LaneOf[d] \in Lanes
  BY <1>1, LaneAndAgent
<1>9. /\ SessionsFit' /\ ActiveLanes' = ActiveLanes /\ DOMAIN session \subseteq DOMAIN session'
      /\ \A k \in DOMAIN session' :
           \/ k \in DOMAIN session /\ session'[k] = session[k]
           \/ session'[k] = NewSession(LaneOf[d])
  <2>1. \A k \in Range(jobs') : k.kind = "splice" => k \in Range(jobs)
    BY <1>4, <1>7
  <2>2. QED BY <1>1, <1>2, <1>8, <2>1, MadeSessions
<1>10. Typed'
  BY <1>1, <1>2, <1>7, Types, TypedBefore, TypedAfter DEF MadeOne
<1>11. StartsInv'
  <2>1. JobsKept(p, t)
    BY <1>1, <1>3, <1>4, <1>5, <1>6, JobKept
  <2>2. starting' = starting
    BY <1>1 DEF starting
  <2>3. QED BY <1>2, <1>9, <2>1, <2>2, SameStarting
<1>12. CallsInv'
  <2>1. WaitingOnce'
    BY <1>1, <1>2, WaitingKept
  <2>2. NewSession(LaneOf[d]).prompts = <<>> /\ NewSession(LaneOf[d]).asked = {}
    BY DEF NewSession
  <2>3. SamePlaces
    BY <1>1, <1>9, <2>2 DEF SamePlaces
  <2>4. ~AwaitsStart(d)
    BY <1>1, <1>2, FreeOnes
  <2>5. ASSUME NEW e, Job("turns", e) \in Range(jobs) PROVE Job("turns", e) \in Range(jobs')
    <3>1. Job("turns", e).kind = "turns"
      BY DEF Job
    <3>2. QED BY <1>1, <1>6, <2>5, <3>1, OthersStay
  <2>6. FreeMove({d})
    BY <1>1, <2>4, <2>5 DEF FreeMove
  <2>7. JobFits(j)'
    <3>1. ~AwaitsStart(d)'
      BY <1>1, <2>4 DEF AwaitsStart
    <3>2. i # 0
      BY <1>1
    <3>3. QED BY <1>1, <1>4, <3>1, <3>2 DEF JobFits
  <2>8. \A h \in Range(p) : \A k \in Range(t) : ~Clash(h, k)
    BY <1>4, <1>5, <1>7 DEF Clash
  <2>9. \A k \in Range(t) : k.kind \in {"give", "deliver", "turns"} => k.arg \notin {d}
    BY <1>7
  <2>10. QED BY <1>2, <1>3, <1>5, <1>6, <2>1, <2>3, <2>6, <2>7, <2>8, <2>9, JobCalls
<1>13. DrainIsComing'
  <2>1. \A k \in Range(jobs) : k.kind = "drain" => k \in Range(jobs')
    BY <1>1, <1>6, OthersStay
  <2>2. \A k \in DOMAIN session : k \in DOMAIN session' /\ session'[k] = session[k]
    BY <1>1, <1>9 DEF MadeOne
  <2>3. \A e \in Deliveries : call[e].phase \in {"images", "lost"} => call'[e] = call[e]
    BY <1>1 DEF Others
  <2>4. Comes => Comes'
    BY <1>1, <1>2, <2>1, <2>2, <2>3, ComesKept
  <2>5. QED BY <1>1, <1>2, <1>9, <2>4, DrainFrame
<1>14. QED BY <1>9, <1>10, <1>11, <1>12, <1>13 DEF Inv

\* Or it awaits the start of its session.
LEMMA GiveStartKeeps ==
  ASSUME Bounds, Inv, NEW d, NEW i, Given(d, i, FALSE)
  PROVE  Inv'
<1>1. /\ d \in Deliveries /\ call[d].phase = "given" /\ Head(jobs).arg = d
      /\ i \in 1 .. Len(session') /\ MadeOne(LaneOf[d])
      /\ call'[d].phase = "starting" /\ call'[d].session = i /\ call'[d].rest = <<>> /\ Others({d})
      /\ call' \in Calls(Len(session'))
      /\ EnqueueAgentStart(AgentOfCall(d), i, <<d>>, Tail(jobs))
      /\ waiting' = waiting /\ drain' = drain /\ active' = active /\ lastStart' = lastStart
      /\ paced' = paced /\ upgrade' = upgrade /\ trouble' = trouble
      /\ jobs \in Seq(Jobs) /\ jobs # <<>> /\ Head(jobs).kind = "give"
  BY DEF Given
<1>2. Typed /\ StartsInv /\ CallsInv /\ SessionsFit /\ DrainIsComing
  BY DEF Inv
<1>3. PICK a, t, w : a = AgentOfCall(d) /\ t = Tail(jobs) /\ w = <<d>>
  OBVIOUS
<1>4. a \in Agents /\ LaneOf[d] \in Lanes /\ w \in Seq(Deliveries)
  BY <1>1, <1>3, LaneAndAgent
<1>5. Enqueued(a, i, w, t) /\ starts' \in Starts(Len(session')) /\ startQueue' \in Seq(Agents)
  BY <1>1, <1>2, <1>3, <1>4, EnqueueTypes DEF MadeOne
<1>6. PICK p \in Seq(Jobs) : JobStep(p) /\ PumpOnly(p)
  BY <1>1, <1>3, <1>5, EnqueueJob
<1>7. /\ Range(jobs') = Range(p) \cup Range(t) /\ jobs' \in Seq(Jobs) /\ Onward(p, t)
      /\ Harmless(p) /\ \A j \in Range(p) : j.kind = "pump"
      /\ \A k \in Range(t) : /\ k \in Range(jobs)
                             /\ k.kind \in {"give", "deliver", "turns"} => k.arg # d
  <2>1. \A k \in Range(t) : /\ k \in Range(jobs)
                            /\ k.kind \in {"give", "deliver", "turns"} => k.arg # d
    BY <1>1, <1>2, <1>3, <1>6, HeadAlone
  <2>2. Range(jobs') = Range(p) \cup Range(t) /\ jobs' \in Seq(Jobs) /\ Onward(p, t)
    BY <1>3, <1>6 DEF JobStep, Onward, Joined
  <2>3. QED BY <1>6, <2>1, <2>2 DEF PumpOnly
<1>8. /\ SessionsFit' /\ ActiveLanes' = ActiveLanes /\ DOMAIN session \subseteq DOMAIN session'
      /\ DOMAIN session' = 1 .. Len(session')
      /\ \A k \in DOMAIN session' :
           \/ k \in DOMAIN session /\ session'[k] = session[k]
           \/ session'[k] = NewSession(LaneOf[d])
  <2>1. \A k \in Range(jobs') : k.kind = "splice" => k \in Range(jobs)
    BY <1>7
  <2>2. DOMAIN session' = 1 .. Len(session')
    BY <1>1, LenProperties DEF MadeOne
  <2>3. QED BY <1>1, <1>2, <1>4, <2>1, <2>2, MadeSessions
<1>9. Typed'
  BY <1>1, <1>2, <1>5, <1>7, Types, TypedBefore, TypedAfter DEF MadeOne
<1>10. StartsInv'
  <2>1. /\ t \in Seq(Jobs) /\ Range(t) \subseteq Range(jobs)
        /\ Cardinality(Finishing(t)) = Cardinality(Finishing(jobs))
        /\ (\E j \in Range(jobs) : j.kind = "pump") => \E j \in Range(t) : j.kind = "pump"
    BY <1>1, <1>3, <1>6, TailKept
  <2>2. i \in DOMAIN session'
    BY <1>1, <1>8
  <2>3. QED BY <1>1, <1>2, <1>4, <1>5, <1>8, <2>1, <2>2, EnqueueStarts
<1>11. ASSUME NEW phase \in {"prompts", "listed", "asked", "waiting", "starting"} PROVE Kept(phase)
  BY <1>1 DEF Others, Kept
<1>12. /\ Once(starts'[a].waiters)
       /\ Range(starts'[a].waiters) \subseteq Range(starts[a].waiters) \cup {d}
  <2>1. PICK s : s = starts[a]
    OBVIOUS
  <2>2. s \in [state : {"none", "queued", "running"},
               session : 0 .. Len(session), waiters : Seq(Deliveries)]
    BY <1>2, <1>4, <2>1, Types DEF Starts
  <2>3. Once(w) /\ Range(w) = {d} /\ Once(s.waiters) /\ d \notin Range(s.waiters)
    <3>1. Once(w) /\ Range(w) = {d}
      BY <1>3 DEF Once, Range
    <3>2. Once(s.waiters) /\ d \notin Range(s.waiters)
      BY <1>1, <1>2, <1>4, <2>1 DEF CallsInv, WaitersStart
    <3>3. QED BY <3>1, <3>2
  <2>4. CASE starts'[a] = [s EXCEPT !.waiters = s.waiters \o w]
    <3>1. starts'[a].waiters = s.waiters \o w
      BY <2>2, <2>4
    <3>2. PICK v : v = s.waiters \o w
      OBVIOUS
    <3>3. Once(v) /\ Range(v) = Range(s.waiters) \cup {d}
      <4>1. Range(s.waiters) \cap Range(w) = {}
        BY <2>3
      <4>2. QED BY <1>4, <2>2, <2>3, <3>2, <4>1, OnceConcat, ConcatRange
    <3>4. QED BY <2>1, <3>1, <3>2, <3>3
  <2>5. CASE starts'[a] = [state |-> "queued", session |-> i, waiters |-> w]
    BY <2>3, <2>5
  <2>6. QED BY <1>5, <2>1, <2>4, <2>5 DEF Enqueued
<1>13. \A b \in Agents \ {a} : starts'[b] = starts[b]
  BY <1>5 DEF Enqueued
<1>14. WaitersStart'
  <2>1. ASSUME NEW b \in Agents, NEW e \in Range(starts'[b].waiters)
        PROVE  call'[e].phase = "starting" /\ call'[e].session # 0 /\ AgentOfCall(e) = b
    <3>1. CASE e = d /\ b = a
      BY <1>1, <1>3, <3>1
    <3>2. CASE e \in Range(starts[b].waiters)
      <4>1. e \in Deliveries
        BY <1>2, <3>2, Types, RangeIn
      <4>2. QED BY <1>2, <1>11, <3>2, <4>1 DEF CallsInv, WaitersStart, Kept
    <3>3. QED BY <1>12, <1>13, <2>1, <3>1, <3>2
  <2>2. \A b \in Agents : Once(starts'[b].waiters)
    BY <1>2, <1>12, <1>13 DEF CallsInv, WaitersStart
  <2>3. QED BY <2>1, <2>2 DEF WaitersStart
<1>15. \A e : e # d => (AwaitsStart(e)' => AwaitsStart(e))
  BY <1>12, <1>13 DEF AwaitsStart
<1>16. WaitingOnce'
  BY <1>1, <1>2, WaitingKept
<1>17. NewSession(LaneOf[d]).prompts = <<>> /\ NewSession(LaneOf[d]).asked = {}
  BY DEF NewSession
<1>18. PromptsWait'
  <2>1. \A k \in DOMAIN session' :
          \/ k \in DOMAIN session /\ session'[k].prompts = session[k].prompts
          \/ session'[k].prompts = <<>>
    BY <1>8, <1>17
  <2>2. QED BY <1>2, <1>11, <2>1, PromptsFrame DEF CallsInv
<1>19. ListsWait'
  <2>1. \A e \in Deliveries : call'[e].rest = call[e].rest \/ call'[e].rest = <<>>
    BY <1>1 DEF Others
  <2>2. ASSUME NEW e \in Deliveries, call'[e].rest # <<>>
        PROVE  call'[e].phase = "images" \/ Job("turns", e) \in Range(jobs')
    <3>1. call'[e] = call[e]
      BY <1>1, <2>2 DEF Others
    <3>2. call[e].phase = "images" \/ Job("turns", e) \in Range(jobs)
      BY <1>2, <2>2, <3>1 DEF CallsInv, ListsWait
    <3>3. Job("turns", e).kind = "turns"
      BY DEF Job
    <3>4. QED BY <1>1, <1>6, <3>1, <3>2, <3>3, OthersStay
  <2>3. QED BY <1>2, <1>11, <2>1, <2>2, ListsFrame DEF CallsInv
<1>20. AskedWait'
  <2>1. ASSUME NEW k \in DOMAIN session', NEW e \in session'[k].asked
        PROVE  /\ k \in DOMAIN session /\ e \in session[k].asked
               /\ call'[e].phase = call[e].phase /\ call'[e].session = call[e].session
    <3>1. k \in DOMAIN session /\ e \in session[k].asked
      BY <1>8, <1>17, <2>1
    <3>2. e \in Deliveries /\ call[e].phase = "asked"
      BY <1>2, <3>1, Types DEF SessionType, CallsInv, AskedWait
    <3>3. QED BY <1>11, <3>1, <3>2 DEF Kept
  <2>2. QED BY <1>2, <2>1, AskedFrame DEF CallsInv
<1>21. Prepared'
  BY <1>1, <1>2 DEF CallsInv, Prepared, Others
<1>22. CallJobs'
  <2>1. \A j \in Range(t) : JobFits(j)'
    <3>1. \A j \in Range(t) : j.kind \in {"give", "deliver", "turns"} /\ j.arg \in Deliveries =>
            call'[j.arg] = call[j.arg]
      BY <1>1, <1>7 DEF Others
    <3>2. \A j \in Range(t) : j.kind = "deliver" /\ j.arg \in Deliveries =>
            (AwaitsStart(j.arg)' => AwaitsStart(j.arg))
      BY <1>7, <1>15
    <3>3. QED BY <1>2, <1>7, <3>1, <3>2, LeftJobs DEF CallsInv
  <2>2. \A j \in Range(p) : JobFits(j)'
    BY <1>7 DEF JobFits
  <2>3. \A j \in Range(p) : \A k \in Range(t) : ~Clash(j, k)
    BY <1>7 DEF Clash
  <2>4. NoClash(p)
    BY <1>7 DEF Harmless
  <2>5. QED BY <1>2, <1>7, <2>1, <2>2, <2>3, <2>4, JobsFrame DEF CallsInv
<1>23. CallsInv'
  BY <1>14, <1>16, <1>18, <1>19, <1>20, <1>21, <1>22 DEF CallsInv
<1>24. DrainIsComing'
  <2>1. \A k \in Range(jobs) : k.kind = "drain" => k \in Range(jobs')
    BY <1>1, <1>6, OthersStay
  <2>2. \A k \in DOMAIN session : k \in DOMAIN session' /\ session'[k] = session[k]
    BY <1>1, <1>8 DEF MadeOne
  <2>3. \A e \in Deliveries : call[e].phase \in {"images", "lost"} => call'[e] = call[e]
    BY <1>1 DEF Others
  <2>4. Comes => Comes'
    BY <1>1, <1>2, <2>1, <2>2, <2>3, ComesKept
  <2>5. QED BY <1>1, <1>2, <1>8, <2>4, DrainFrame
<1>25. QED BY <1>8, <1>9, <1>10, <1>23, <1>24 DEF Inv

\* Give keeps the invariant.
LEMMA GiveKeeps ==
  ASSUME Bounds, Inv, Give
  PROVE  Inv'
  BY GiveFits, GiveUpKeeps, GiveStartKeeps

\* The call that goes on, of the delivery d for the session i.
GoesOn(d, i) ==
  /\ d \in Deliveries /\ i \in DOMAIN session /\ call[d].session = i
  /\ call[d].phase \in {"given", "starting"} /\ call[d].rest = <<>> /\ ~AwaitsStart(d)
  /\ Head(jobs).arg = d /\ Head(jobs).kind = "deliver" /\ jobs \in Seq(Jobs) /\ jobs # <<>>

\* The first job is such a call.
LEMMA DeliverFits ==
  ASSUME Bounds, Inv, DeliverTo
  PROVE  \E d, i : /\ GoesOn(d, i)
                   /\ \/ /\ Moved(d, "preparing") \/ Moved(d, "images")
                         /\ jobs' = Tail(jobs) /\ session' = session
                      \/ /\ session[i].started /\ ~session[i].ready /\ Moved(d, "prompts")
                         /\ session' = [session EXCEPT ![i].prompts = Append(@, d)]
                         /\ jobs' = Tail(jobs) \o Returned(d)
<1>1. Typed /\ CallsInv
  BY DEF Inv
<1>2. jobs \in Seq(Jobs) /\ jobs # <<>> /\ Head(jobs).kind = "deliver"
  BY <1>1, Types DEF DeliverTo, Doing
<1>3. Head(jobs) \in Range(jobs)
  BY <1>2, TakesJob DEF Taken
<1>4. PICK d, i : d = Head(jobs).arg /\ i = call[d].session
  OBVIOUS
<1>5. /\ d \in Deliveries /\ call[d].phase \in {"given", "starting"} /\ i # 0 /\ ~AwaitsStart(d)
  BY <1>1, <1>2, <1>3, <1>4 DEF CallsInv, CallJobs, JobFits
<1>6. i \in DOMAIN session
  <2>1. i \in 0 .. Len(session) /\ DOMAIN session = 1 .. Len(session) /\ Len(session) \in Nat
    BY <1>1, <1>4, <1>5, Types
  <2>2. QED BY <1>5, <2>1
<1>7. call[d].rest = <<>>
  BY <1>1, <1>5, FreeOnes
<1>8. GoesOn(d, i)
  BY <1>2, <1>4, <1>5, <1>6, <1>7 DEF GoesOn
<1>9. \/ /\ Moved(d, "preparing") \/ Moved(d, "images")
         /\ jobs' = Tail(jobs) /\ session' = session
      \/ /\ session[i].started /\ ~session[i].ready /\ Moved(d, "prompts")
         /\ session' = [session EXCEPT ![i].prompts = Append(@, d)]
         /\ jobs' = Tail(jobs) \o Returned(d)
  BY <1>4 DEF DeliverTo, Arg
<1>10. QED BY <1>8, <1>9

\* It starts the session again, or reads its images.
LEMMA DeliverOnKeeps ==
  ASSUME Bounds, Inv, DeliverTo, NEW d, NEW i, GoesOn(d, i), NEW phase \in {"preparing", "images"},
         Moved(d, phase), jobs' = Tail(jobs), session' = session
  PROVE  Inv'
<1>1. /\ lane' = lane /\ waiting' = waiting /\ starting' = starting
      /\ drain' = drain /\ starts' = starts /\ startQueue' = startQueue /\ active' = active
      /\ lastStart' = lastStart /\ paced' = paced /\ trouble' = trouble /\ upgrade' = upgrade
  BY DEF DeliverTo, waits, starting
<1>2. Typed /\ StartsInv /\ CallsInv /\ SessionsFit /\ DrainIsComing
  BY DEF Inv
<1>3. /\ d \in Deliveries /\ i \in DOMAIN session /\ call[d].session = i
      /\ call[d].phase \in {"given", "starting"} /\ call[d].rest = <<>> /\ ~AwaitsStart(d)
      /\ Head(jobs).arg = d /\ Head(jobs).kind = "deliver" /\ jobs \in Seq(Jobs) /\ jobs # <<>>
  BY DEF GoesOn
<1>4. MovesTo(d, phase)
  <2>1. phase \in Phases
    BY DEF Phases
  <2>2. QED BY <1>2, <1>3, <2>1, MovedOne
<1>5. PICK p, t : p = <<>> /\ t = Tail(jobs)
  OBVIOUS
<1>6. JobStep(p) /\ Harmless(p) /\ Range(p) = {}
  BY <1>3, <1>5, JobDone, NoJobs
<1>7. /\ Range(jobs') \subseteq Range(jobs) /\ jobs' \in Seq(Jobs)
      /\ \A k \in Range(t) : k.kind \in {"give", "deliver", "turns"} => k.arg # d
  <2>1. \A k \in Range(t) : /\ k \in Range(jobs)
                            /\ k.kind \in {"give", "deliver", "turns"} => k.arg # d
    BY <1>2, <1>3, <1>5, <1>6, HeadAlone
  <2>2. Range(jobs') = Range(p) \cup Range(t) /\ jobs' \in Seq(Jobs)
    BY <1>5, <1>6 DEF JobStep, Onward, Joined
  <2>3. QED BY <1>6, <2>1, <2>2
<1>8. Typed'
  BY <1>1, <1>2, <1>4, <1>7, Types, TypedBefore, TypedAfter DEF MovesTo
<1>9. StartsInv'
  <2>1. JobsKept(p, t)
    BY <1>3, <1>5, <1>6, JobKept DEF Harmless
  <2>2. QED BY <1>1, <1>2, <2>1, SameStarting
<1>10. CallsInv'
  <2>1. WaitingOnce'
    BY <1>1, <1>2, <1>3, <1>4, WaitingKept DEF MovesTo
  <2>2. SamePlaces
    BY <1>1 DEF SamePlaces
  <2>3. ASSUME NEW e, Job("turns", e) \in Range(jobs) PROVE Job("turns", e) \in Range(jobs')
    <3>1. Job("turns", e).kind = "turns"
      BY DEF Job
    <3>2. QED BY <1>3, <1>6, <2>3, <3>1, OthersStay
  <2>4. i # 0
    BY <1>2, <1>3, Types
  <2>5. FreeMove({d})
    BY <1>3, <1>4, <2>3, <2>4 DEF FreeMove, MovesTo
  <2>6. \A k \in Range(t) : k.kind \in {"give", "deliver", "turns"} => k.arg \notin {d}
    BY <1>7
  <2>7. QED BY <1>2, <1>5, <1>6, <2>1, <2>2, <2>5, <2>6, JobCalls DEF Harmless
<1>11. SessionsFit' /\ ActiveLanes' = ActiveLanes
  BY <1>1, <1>2, <1>7, SameSessions
<1>12. DrainIsComing'
  <2>1. \A k \in Range(jobs) : k.kind = "drain" => k \in Range(jobs')
    BY <1>3, <1>6, OthersStay
  <2>2. \A e \in Deliveries : call[e].phase \in {"images", "lost"} => call'[e] = call[e]
    BY <1>3, <1>4 DEF MovesTo, Others
  <2>3. Comes => Comes'
    BY <1>1, <1>2, <2>1, <2>2, ComesKept
  <2>4. QED BY <1>1, <1>2, <1>11, <2>3, DrainFrame
<1>13. QED BY <1>8, <1>9, <1>10, <1>11, <1>12 DEF Inv

\* Or it becomes a prompt, for want of a thread.
LEMMA DeliverPromptKeeps ==
  ASSUME Bounds, Inv, DeliverTo, NEW d, NEW i, GoesOn(d, i), session[i].started, ~session[i].ready,
         Moved(d, "prompts"), session' = [session EXCEPT ![i].prompts = Append(@, d)],
         jobs' = Tail(jobs) \o Returned(d)
  PROVE  Inv'
<1>1. /\ lane' = lane /\ waiting' = waiting /\ starting' = starting
      /\ drain' = drain /\ starts' = starts /\ startQueue' = startQueue /\ active' = active
      /\ lastStart' = lastStart /\ paced' = paced /\ trouble' = trouble /\ upgrade' = upgrade
  BY DEF DeliverTo, waits, starting
<1>2. Typed /\ StartsInv /\ CallsInv /\ SessionsFit /\ DrainIsComing
  BY DEF Inv
<1>3. /\ d \in Deliveries /\ i \in DOMAIN session /\ call[d].session = i
      /\ call[d].phase \in {"given", "starting"} /\ call[d].rest = <<>> /\ ~AwaitsStart(d)
      /\ Head(jobs).arg = d /\ Head(jobs).kind = "deliver" /\ jobs \in Seq(Jobs) /\ jobs # <<>>
  BY DEF GoesOn
<1>4. MovesTo(d, "prompts")
  <2>1. "prompts" \in Phases
    BY DEF Phases
  <2>2. QED BY <1>2, <1>3, <2>1, MovedOne
<1>5. PICK p, t : p = Returned(d) /\ t = Tail(jobs)
  OBVIOUS
<1>6. /\ p \in Seq(Jobs) /\ NoClash(p) /\ Cardinality(Finishing(p)) = 0
      /\ \A k \in Range(p) : k.kind = "drained" /\ k.arg = d
  BY <1>3, <1>5, ReturnedJobs
<1>7. JobStep(p)
  BY <1>3, <1>5, <1>6, JobOnward
<1>8. /\ Range(jobs') = Range(p) \cup Range(t) /\ jobs' \in Seq(Jobs) /\ Onward(p, t)
      /\ \A k \in Range(t) : /\ k \in Range(jobs)
                             /\ k.kind \in {"give", "deliver", "turns"} => k.arg # d
  <2>1. \A k \in Range(t) : /\ k \in Range(jobs)
                            /\ k.kind \in {"give", "deliver", "turns"} => k.arg # d
    BY <1>2, <1>3, <1>5, <1>7, HeadAlone
  <2>2. Range(jobs') = Range(p) \cup Range(t) /\ jobs' \in Seq(Jobs) /\ Onward(p, t)
    BY <1>5, <1>7 DEF JobStep, Onward, Joined
  <2>3. QED BY <2>1, <2>2
<1>9. PICK s, w, q, r : /\ s = session[i] /\ w = s.prompts /\ q = Append(w, d)
                       /\ r = [s EXCEPT !.prompts = q]
  OBVIOUS
<1>10. Sets(i, r)
  BY <1>2, <1>3, <1>9, Types, PromptedSets
<1>11. /\ r.prompts = q /\ r.lane = s.lane /\ r.children = s.children
       /\ r.started = s.started /\ r.ready = s.ready /\ r.opening = s.opening
       /\ r.asked = s.asked /\ r.turn = s.turn /\ r.status = s.status
       /\ w \in Seq(Deliveries) /\ s.prompts = w
  <2>1. s \in SessionType
    BY <1>2, <1>3, <1>9, Types
  <2>2. QED BY <1>9, <2>1 DEF SessionType
<1>12. /\ DOMAIN session' = DOMAIN session /\ Len(session') = Len(session)
       /\ Len(session) \in Nat /\ session' \in Seq(SessionType)
       /\ \A k \in DOMAIN session : session'[k] = IF k = i THEN r ELSE session[k]
  BY <1>2, <1>10, Types, LenProperties DEF Sets
<1>13. Typed'
  BY <1>1, <1>2, <1>4, <1>8, <1>12, Types, TypedBefore, TypedAfter DEF MovesTo
<1>14. StartsInv'
  <2>1. JobsKept(p, t)
    BY <1>3, <1>5, <1>6, <1>7, JobKept
  <2>2. QED BY <1>1, <1>2, <1>12, <2>1, SameStarting
<1>15. ASSUME NEW phase \in {"prompts", "listed", "asked", "waiting"} PROVE Kept(phase)
  BY <1>3, <1>4 DEF MovesTo, Others, Kept
<1>16. WaitingOnce'
  BY <1>1, <1>2, <1>15, WaitingFrame DEF CallsInv
<1>17. WaitersStart' /\ \A e : AwaitsStart(e)' => AwaitsStart(e)
  <2>1. \A e \in Deliveries : AwaitsStart(e) =>
          call'[e].phase = call[e].phase /\ call'[e].session = call[e].session
    BY <1>3, <1>4 DEF MovesTo, Others
  <2>2. QED BY <1>1, <1>2, <2>1, WaitersFrame DEF CallsInv
<1>18. PromptsWait'
  <2>1. Once(w) /\ \A e \in Range(w) : call[e].phase = "prompts" /\ call[e].session = i
    BY <1>2, <1>3, <1>9 DEF CallsInv, PromptsWait
  <2>2. d \notin Range(w)
    BY <1>3, <2>1
  <2>3. Once(q)
    BY <1>3, <1>9, <1>11, <2>1, <2>2, OnceLonger
  <2>4. Range(q) = Range(w) \cup {d}
    <3>1. w \in Seq(Deliveries) /\ d \in Deliveries /\ q = Append(w, d)
      BY <1>3, <1>9, <1>11
    <3>2. Range(Append(w, d)) = Range(w) \cup {d}
      BY <3>1, FewRange
    <3>3. QED BY <3>1, <3>2
  <2>5. Range(w) \subseteq Deliveries
    BY <1>11, RangeIn
  <2>6. \A e \in Range(q) : call'[e].phase = "prompts" /\ call'[e].session = i
    <3>1. Kept("prompts")
      BY <1>15
    <3>2. QED BY <1>3, <1>4, <2>1, <2>4, <2>5, <3>1 DEF MovesTo, Kept
  <2>7. ASSUME NEW k \in DOMAIN session, k # i
        PROVE  /\ Once(session[k].prompts)
               /\ \A e \in Range(session[k].prompts) : call'[e].phase = "prompts" /\ call'[e].session = k
    <3>1. session[k].prompts \in Seq(Deliveries)
      BY <1>2, Types DEF SessionType
    <3>2. Range(session[k].prompts) \subseteq Deliveries
      BY <3>1, RangeIn
    <3>3. QED BY <1>2, <1>15, <3>2 DEF CallsInv, PromptsWait, Kept
  <2>8. QED BY <1>11, <1>12, <2>3, <2>4, <2>6, <2>7 DEF PromptsWait
<1>19. ListsWait'
  <2>1. \A e \in Deliveries : call'[e].rest = call[e].rest
    BY <1>4 DEF MovesTo, Others
  <2>2. ASSUME NEW e \in Deliveries, call'[e].rest # <<>>
        PROVE  call'[e].phase = "images" \/ Job("turns", e) \in Range(jobs')
    <3>1. call'[e] = call[e]
      BY <1>3, <1>4, <2>1, <2>2 DEF MovesTo, Others
    <3>2. call[e].phase = "images" \/ Job("turns", e) \in Range(jobs)
      BY <1>2, <2>2, <3>1 DEF CallsInv, ListsWait
    <3>3. Job("turns", e).kind = "turns"
      BY DEF Job
    <3>4. QED BY <1>3, <1>7, <3>1, <3>2, <3>3, OthersStay
  <2>3. QED BY <1>2, <1>15, <2>1, <2>2, ListsFrame DEF CallsInv
<1>20. AskedWait'
  <2>1. ASSUME NEW k \in DOMAIN session', NEW e \in session'[k].asked
        PROVE  /\ k \in DOMAIN session /\ e \in session[k].asked
               /\ call'[e].phase = call[e].phase /\ call'[e].session = call[e].session
    <3>1. k \in DOMAIN session /\ e \in session[k].asked
      BY <1>9, <1>11, <1>12, <2>1
    <3>2. e \in Deliveries /\ call[e].phase = "asked"
      BY <1>2, <3>1, Types DEF SessionType, CallsInv, AskedWait
    <3>3. QED BY <1>15, <3>1, <3>2 DEF Kept
  <2>2. QED BY <1>2, <2>1, AskedFrame DEF CallsInv
<1>21. Prepared'
  BY <1>2, <1>4 DEF CallsInv, Prepared, MovesTo, Others
<1>22. CallJobs'
  <2>1. \A j \in Range(t) : JobFits(j)'
    <3>1. \A j \in Range(t) : j.kind \in {"give", "deliver", "turns"} /\ j.arg \in Deliveries =>
            call'[j.arg] = call[j.arg]
      BY <1>4, <1>8 DEF MovesTo, Others
    <3>2. QED BY <1>2, <1>8, <1>17, <3>1, LeftJobs DEF CallsInv
  <2>2. \A j \in Range(p) : JobFits(j)'
    BY <1>3, <1>6 DEF JobFits
  <2>3. \A j \in Range(p) : \A k \in Range(t) : ~Clash(j, k)
    BY <1>6 DEF Clash
  <2>4. QED BY <1>2, <1>6, <1>8, <2>1, <2>2, <2>3, JobsFrame DEF CallsInv
<1>23. CallsInv'
  BY <1>16, <1>17, <1>18, <1>19, <1>20, <1>21, <1>22 DEF CallsInv
<1>24. SessionsFit'
  <2>1. Fits(r) /\ r.lane = session[i].lane /\ r.children = session[i].children
    BY <1>2, <1>3, <1>9, <1>11 DEF SessionsFit, Fits
  <2>2. \A j \in Range(jobs') : j.kind = "splice" => j \in Range(jobs)
    BY <1>6, <1>8
  <2>3. QED BY <1>1, <1>2, <1>10, <2>1, <2>2, SetsFit
<1>25. ActiveLanes' = ActiveLanes
  <2>1. s.opening > 0
    BY <1>2, <1>3, <1>9 DEF SessionsFit
  <2>2. HoldsSlot(r) /\ HoldsSlot(session[i])
    BY <1>9, <1>11, <2>1 DEF HoldsSlot
  <2>3. QED BY <1>1, <1>2, <1>10, <2>2, SetsSlots
<1>26. DrainIsComing'
  <2>1. \A k \in Range(jobs) : k.kind = "drain" => k \in Range(jobs')
    BY <1>3, <1>7, OthersStay
  <2>2. \A e \in Deliveries : call[e].phase \in {"images", "lost"} => call'[e] = call[e]
    BY <1>3, <1>4 DEF MovesTo, Others
  <2>3. \A k \in DOMAIN session : /\ k \in DOMAIN session' /\ session'[k].status = session[k].status
                                  /\ session'[k].children = session[k].children
    BY <1>9, <1>11, <1>12
  <2>4. Comes => Comes'
    BY <1>1, <1>2, <2>1, <2>2, <2>3, ComesKept
  <2>5. QED BY <1>1, <1>2, <1>25, <2>4, DrainFrame
<1>27. QED BY <1>13, <1>14, <1>23, <1>24, <1>26 DEF Inv

\* CodexAgentSession.deliver keeps the invariant.
LEMMA DeliverToKeeps ==
  ASSUME Bounds, Inv, DeliverTo
  PROVE  Inv'
<1>1. PICK d, i :
        /\ GoesOn(d, i)
        /\ \/ /\ Moved(d, "preparing") \/ Moved(d, "images")
              /\ jobs' = Tail(jobs) /\ session' = session
           \/ /\ session[i].started /\ ~session[i].ready /\ Moved(d, "prompts")
              /\ session' = [session EXCEPT ![i].prompts = Append(@, d)]
              /\ jobs' = Tail(jobs) \o Returned(d)
  BY DeliverFits
<1>2. CASE (Moved(d, "preparing") \/ Moved(d, "images")) /\ jobs' = Tail(jobs) /\ session' = session
  BY <1>1, <1>2, DeliverOnKeeps
<1>3. CASE /\ session[i].started /\ ~session[i].ready /\ Moved(d, "prompts")
           /\ session' = [session EXCEPT ![i].prompts = Append(@, d)]
           /\ jobs' = Tail(jobs) \o Returned(d)
  BY <1>1, <1>3, DeliverPromptKeeps
<1>4. QED BY <1>1, <1>2, <1>3

\* A job that moves no delivery and changes no session, of the pump, of a start that
\* ends, or a look at the upgrade.
LEMMA QuietJob ==
  ASSUME Inv, call' = call, session' = session, lane' = lane, waiting' = waiting, drain' = drain,
         \A a \in Agents : starts'[a].waiters = starts[a].waiters \/ starts'[a].waiters = <<>>,
         NEW p, JobStep(p), NoClash(p),
         Head(jobs).kind \notin {"turns", "drain"},
         \A j \in Range(p) : j.kind \in {"pump", "settled", "upgrade"},
         \A j \in Range(p) : \A k \in Range(Tail(jobs)) : ~Clash(j, k)
  PROVE  CallsInv' /\ SessionsFit' /\ DrainIsComing'
<1>1. Typed /\ CallsInv /\ SessionsFit /\ DrainIsComing
  BY DEF Inv
<1>2. Range(jobs') = Range(p) \cup Range(Tail(jobs)) /\ Range(Tail(jobs)) \subseteq Range(jobs)
  BY DEF JobStep, Onward
<1>3. CallsInv'
  <2>1. WaitingOnce'
    BY <1>1, WaitingFrame DEF CallsInv, Kept
  <2>2. SamePlaces
    BY DEF SamePlaces
  <2>3. ASSUME NEW e, Job("turns", e) \in Range(jobs) PROVE Job("turns", e) \in Range(jobs')
    <3>1. Job("turns", e).kind = "turns"
      BY DEF Job
    <3>2. QED BY <2>3, <3>1, OthersStay
  <2>4. FreeMove({})
    BY <2>3 DEF FreeMove, Others
  <2>5. \A j \in Range(p) : JobFits(j)'
    BY DEF JobFits
  <2>6. QED BY <1>1, <2>1, <2>2, <2>4, <2>5, JobCalls
<1>4. SessionsFit' /\ ActiveLanes' = ActiveLanes
  BY <1>1, <1>2, SameSessions
<1>5. DrainIsComing'
  <2>1. \A k \in Range(jobs) : k.kind = "drain" => k \in Range(jobs')
    BY OthersStay
  <2>2. Comes => Comes'
    BY <1>1, <2>1, ComesKept
  <2>3. QED BY <1>1, <1>4, <2>2, DrainFrame
<1>6. QED BY <1>3, <1>4, <1>5

\* A look at the upgrade that waits.
LEMMA MaybeStartPendingUpgradeKeeps ==
  ASSUME Bounds, Inv, MaybeStartPendingUpgrade
  PROVE  Inv'
<1>1. /\ lane' = lane /\ session' = session /\ waiting' = waiting /\ starting' = starting
      /\ drain' = drain /\ starts' = starts /\ startQueue' = startQueue /\ active' = active
      /\ lastStart' = lastStart /\ paced' = paced /\ trouble' = trouble /\ call' = call
      /\ jobs' = Tail(jobs) /\ jobs # <<>> /\ Head(jobs).kind = "upgrade"
  BY DEF MaybeStartPendingUpgrade, sessions, waits, starting, Doing
<1>2. Typed /\ StartsInv
  BY DEF Inv
<1>3. upgrade' \in {"none", "asked", "pending", "starting", "worker", "refused"}
  BY <1>2, TypedBefore DEF MaybeStartPendingUpgrade
<1>4. PICK p : p = <<>>
  OBVIOUS
<1>5. JobStep(p) /\ Harmless(p) /\ Range(p) = {}
  BY <1>1, <1>2, <1>4, JobDone, NoJobs, Types
<1>6. Typed'
  <2>1. jobs' \in Seq(Jobs)
    BY <1>5 DEF JobStep, Onward, Joined
  <2>2. QED BY <1>1, <1>2, <1>3, <2>1, Types, TypedBefore, TypedAfter
<1>7. StartsInv'
  <2>1. JobsKept(p, Tail(jobs))
    BY <1>1, <1>5, JobKept DEF Harmless
  <2>2. QED BY <1>1, <1>2, <2>1, SameStarting
<1>8. CallsInv' /\ SessionsFit' /\ DrainIsComing'
  BY <1>1, <1>5, QuietJob DEF Harmless
<1>9. QED BY <1>6, <1>7, <1>8 DEF Inv

\* A start that has ended counts down, and the pump is called.
LEMMA FinallyKeeps ==
  ASSUME Bounds, Inv, Finally
  PROVE  Inv'
<1>1. /\ lane' = lane /\ session' = session /\ waiting' = waiting
      /\ drain' = drain /\ starts' = starts /\ startQueue' = startQueue
      /\ lastStart' = lastStart /\ paced' = paced /\ trouble' = trouble /\ call' = call
      /\ jobs # <<>> /\ Head(jobs).kind = "finally" /\ upgrade' = upgrade
  BY DEF Finally, sessions, waits, Doing
<1>2. Typed /\ StartsInv
  BY DEF Inv
<1>3. StartsInv' /\ active' \in Nat /\ active' <= active
  BY <1>2, FinallyStarts
<1>4. PICK p \in Seq(Jobs) : JobStep(p) /\ Harmless(p) /\ \A j \in Range(p) : j.kind \in {"pump", "upgrade"}
  BY <1>2, FinallyFits
<1>5. Typed'
  <2>1. jobs' \in Seq(Jobs)
    BY <1>4 DEF JobStep, Onward, Joined
  <2>2. active' \in 0 .. MaxStarts
    <3>1. active \in 0 .. MaxStarts /\ MaxStarts \in Nat
      BY <1>2, TypedBefore DEF Bounds
    <3>2. QED BY <1>3, <3>1
  <2>3. QED BY <1>1, <1>2, <2>1, <2>2, Types, TypedBefore, TypedAfter
<1>6. CallsInv' /\ SessionsFit' /\ DrainIsComing'
  <2>1. \A j \in Range(p) : \A k \in Range(Tail(jobs)) : ~Clash(j, k)
    BY <1>4 DEF Clash
  <2>2. QED BY <1>1, <1>4, <2>1, QuietJob DEF Harmless
<1>7. QED BY <1>3, <1>5, <1>6 DEF Inv

\* The pump keeps the invariant.
LEMMA PumpKeeps ==
  ASSUME Bounds, Inv, Pump
  PROVE  Inv'
<1>1. /\ lane' = lane /\ session' = session /\ waiting' = waiting
      /\ drain' = drain /\ trouble' = trouble /\ call' = call
      /\ jobs # <<>> /\ Head(jobs).kind = "pump" /\ upgrade' = upgrade
  BY DEF Pump, sessions, waits, Doing
<1>2. Typed /\ StartsInv
  BY DEF Inv
<1>3. StartsInv'
  BY <1>2, PumpStarts
<1>4. PICK p : JobStep(p) /\ NoClash(p)
                 /\ (\A j \in Range(p) : j.kind = "settled" /\ j.arg \in Running')
                 /\ (\A j \in Range(p) : j.arg \notin Running)
  BY <1>2, PumpStarts
<1>5. /\ starts' \in Starts(Len(session))
      /\ \A b \in Agents : starts'[b].waiters = starts[b].waiters \/ starts'[b].waiters = <<>>
      /\ startQueue' \in Seq(Agents) /\ active' \in 0 .. MaxStarts
      /\ lastStart' \in Agents \cup {Nobody} /\ paced' \in BOOLEAN
  <2>1. CASE starting' = starting
    BY <1>2, <2>1, Types, TypedBefore DEF starting
  <2>2. CASE starts' = starts /\ startQueue' = startQueue /\ active' = active
             /\ lastStart' = lastStart /\ paced' = TRUE
    BY <1>2, <2>2, Types, TypedBefore
  <2>3. CASE MayPump /\ startQueue' = Tail(startQueue) /\ active' = active + 1
             /\ lastStart' = Head(startQueue) /\ paced' = paced
             /\ starts' = [starts EXCEPT ![Head(startQueue)].state = "running"]
    <3>1. startQueue # <<>> /\ active < MaxStarts
      BY <2>3 DEF MayPump
    <3>2. PICK a : a = Head(startQueue)
      OBVIOUS
    <3>3. a \in Agents /\ Tail(startQueue) \in Seq(Agents)
      BY <1>2, <3>1, <3>2, Types, TailRange
    <3>4. active' \in 0 .. MaxStarts
      <4>1. active \in 0 .. MaxStarts /\ MaxStarts \in Nat
        BY <1>2, TypedBefore DEF Bounds
      <4>2. QED BY <2>3, <3>1, <4>1
    <3>5. starts \in Starts(Len(session))
      BY <1>2, Types
    <3>6. starts' = [starts EXCEPT ![a] = [starts[a] EXCEPT !.state = "running"]]
      BY <2>3, <3>2
    <3>7. starts' \in Starts(Len(session))
      BY <3>3, <3>5, <3>6 DEF Starts
    <3>8. \A b \in Agents : starts'[b].waiters = starts[b].waiters
      BY <3>3, <3>5, <3>6 DEF Starts
    <3>9. QED BY <1>2, <2>3, <3>2, <3>3, <3>4, <3>7, <3>8, TypedBefore
  <2>4. QED BY <2>1, <2>2, <2>3 DEF Pump, starting
<1>6. Typed'
  <2>1. jobs' \in Seq(Jobs)
    BY <1>4 DEF JobStep, Onward, Joined
  <2>2. QED BY <1>1, <1>2, <1>5, <2>1, Types, TypedBefore, TypedAfter
<1>7. CallsInv' /\ SessionsFit' /\ DrainIsComing'
  <2>1. \A k \in Range(Tail(jobs)) : k.kind = "settled" => k.arg \in Running
    BY <1>2, <1>4 DEF StartsInv, StartJobs, JobStep, Onward
  <2>2. \A j \in Range(p) : \A k \in Range(Tail(jobs)) : ~Clash(j, k)
    BY <1>4, <2>1 DEF Clash
  <2>3. QED BY <1>1, <1>4, <1>5, <2>2, QuietJob
<1>8. QED BY <1>3, <1>6, <1>7 DEF Inv

\* The timer between two starts.
LEMMA PaceTimerKeeps ==
  ASSUME Bounds, Inv, PaceTimer
  PROVE  Inv'
<1>1. /\ lane' = lane /\ session' = session /\ waiting' = waiting
      /\ drain' = drain /\ starts' = starts /\ startQueue' = startQueue /\ active' = active
      /\ lastStart' = lastStart /\ paced' = FALSE /\ trouble' = trouble /\ call' = call
      /\ jobs = <<>> /\ jobs' = <<Job("pump", "due")>> /\ upgrade' = upgrade
  BY DEF PaceTimer, sessions, waits
<1>2. Typed /\ StartsInv /\ CallsInv /\ SessionsFit /\ DrainIsComing
  BY DEF Inv
<1>3. PICK j, p : j = Job("pump", "due") /\ p = <<j>>
  OBVIOUS
<1>4. j \in Jobs /\ j.kind = "pump"
  BY <1>3 DEF Job, Jobs, JobKinds
<1>5. p \in Seq(Jobs) /\ Range(p) = {j} /\ NoClash(p) /\ Cardinality(Finishing(p)) = 0
  BY <1>3, <1>4, OneJob
<1>6. IdleStep(p)
  BY <1>1, <1>3, <1>5, IdleOnward
<1>7. Typed'
  <2>1. jobs' \in Seq(Jobs) /\ paced' \in BOOLEAN
    BY <1>1, <1>3, <1>5
  <2>2. QED BY <1>1, <1>2, <2>1, Types, TypedBefore, TypedAfter
<1>8. StartsInv'
  <2>1. QueueIsQueued' /\ StartJobs'
    BY <1>1, <1>2, <1>4, <1>5, <1>6 DEF StartsInv, QueueIsQueued, StartJobs, IdleStep, Running
  <2>2. CountIsExact'
    BY <1>1, <1>2, <1>5, <1>6 DEF StartsInv, CountIsExact, IdleStep, Running
  <2>3. PumpIsComing'
    BY <1>4, <1>5, <1>6 DEF PumpIsComing, IdleStep
  <2>4. QED BY <2>1, <2>2, <2>3 DEF StartsInv
<1>9. CallsInv'
  <2>1. WaitingOnce'
    BY <1>1, <1>2, WaitingFrame DEF CallsInv, Kept
  <2>2. SamePlaces
    BY <1>1 DEF SamePlaces
  <2>3. Range(jobs) = {}
    BY <1>6 DEF IdleStep
  <2>4. FreeMove({})
    BY <1>1, <2>3 DEF FreeMove, Others
  <2>5. \A k \in Range(p) : JobFits(k)'
    BY <1>4, <1>5 DEF JobFits
  <2>6. QED BY <1>2, <1>5, <1>6, <2>1, <2>2, <2>4, <2>5, IdleCalls
<1>10. SessionsFit' /\ ActiveLanes' = ActiveLanes
  BY <1>1, <1>2, <1>4, <1>5, <1>6, SameSessions DEF IdleStep
<1>11. DrainIsComing'
  <2>1. Comes => Comes'
    BY <1>1, <1>2, <1>6, ComesKept DEF IdleStep
  <2>2. QED BY <1>1, <1>2, <1>10, <2>1, DrainFrame
<1>12. QED BY <1>7, <1>8, <1>9, <1>10, <1>11 DEF Inv

\* The promise of a start is settled: the calls that await it go on.
LEMMA SettledKeeps ==
  ASSUME Bounds, Inv, StartSettled
  PROVE  Inv'
<1>1. /\ lane' = lane /\ session' = session /\ waiting' = waiting
      /\ drain' = drain /\ startQueue' = startQueue /\ active' = active
      /\ lastStart' = lastStart /\ paced' = paced /\ trouble' = trouble /\ call' = call
      /\ upgrade' = upgrade /\ Head(jobs).kind = "settled"
  BY DEF StartSettled, sessions, waits, Doing
<1>2. Typed /\ StartsInv /\ CallsInv /\ SessionsFit /\ DrainIsComing
  BY DEF Inv
<1>3. PICK a \in Agents, p \in Seq(Jobs) : SettledOne(a, p)
  BY <1>2, SettledFits DEF CallsInv, CallJobs
<1>4. /\ JobStep(p) /\ NoClash(p)
      /\ \A j \in Range(p) : \/ j.kind = "deliver" /\ j.arg \in Range(starts[a].waiters)
                             \/ j.kind = "finally" /\ j.arg = a
      /\ starts'[a] = NoStart /\ \A b \in Agents \ {a} : starts'[b] = starts[b]
      /\ Range(jobs') = Range(p) \cup Range(Tail(jobs)) /\ Range(Tail(jobs)) \subseteq Range(jobs)
      /\ jobs' \in Seq(Jobs)
  BY <1>3 DEF SettledOne, JobStep, Onward, Joined
<1>5. StartsInv'
  BY <1>2, <1>3, SettledStarts
<1>6. Typed'
  <2>1. starts \in Starts(Len(session)) /\ Len(session) \in Nat
    BY <1>2, Types
  <2>2. NoStart \in [state : {"none", "queued", "running"}, session : 0 .. Len(session),
                     waiters : Seq(Deliveries)]
    BY <2>1 DEF NoStart
  <2>3. starts' = [starts EXCEPT ![Head(jobs).arg] = NoStart]
    BY DEF StartSettled, Arg
  <2>4. starts' \in Starts(Len(session))
    BY <2>1, <2>2, <2>3 DEF Starts
  <2>5. QED BY <1>1, <1>2, <1>4, <2>4, Types, TypedBefore, TypedAfter
<1>7. \A b \in Agents : starts'[b].waiters = starts[b].waiters \/ starts'[b].waiters = <<>>
  BY <1>4 DEF NoStart
<1>8. WaitersStart
  BY <1>2 DEF CallsInv
<1>9. \A d \in Range(starts[a].waiters) :
        /\ d \in Deliveries /\ call[d].phase = "starting" /\ call[d].session # 0
        /\ AwaitsStart(d) /\ AgentOfCall(d) = a
  <2>1. Range(starts[a].waiters) \subseteq Deliveries
    BY <1>2, Types, RangeIn
  <2>2. QED BY <1>8, <2>1 DEF WaitersStart, AwaitsStart
<1>10. \A d \in Range(starts[a].waiters) : ~AwaitsStart(d)'
  <2>1. SUFFICES ASSUME NEW d \in Range(starts[a].waiters), NEW b \in Agents,
                        d \in Range(starts'[b].waiters)
                 PROVE  FALSE
    BY DEF AwaitsStart
  <2>2. b # a
    BY <1>4, <2>1, NoJobs DEF NoStart
  <2>3. d \in Range(starts[b].waiters)
    BY <1>4, <2>1, <2>2
  <2>4. QED BY <1>8, <1>9, <2>2, <2>3 DEF WaitersStart
<1>11. CallsInv'
  <2>1. WaitingOnce'
    BY <1>1, <1>2, WaitingFrame DEF CallsInv, Kept
  <2>2. SamePlaces
    BY <1>1, <1>7 DEF SamePlaces
  <2>3. ASSUME NEW e, Job("turns", e) \in Range(jobs) PROVE Job("turns", e) \in Range(jobs')
    <3>1. Job("turns", e).kind = "turns"
      BY DEF Job
    <3>2. QED BY <1>1, <1>4, <2>3, <3>1, OthersStay
  <2>4. FreeMove({})
    BY <1>1, <2>3 DEF FreeMove, Others
  <2>5. ASSUME NEW j \in Range(p) PROVE JobFits(j)'
    BY <1>1, <1>4, <1>9, <1>10 DEF JobFits
  <2>6. ASSUME NEW j \in Range(p), NEW k \in Range(Tail(jobs)) PROVE ~Clash(j, k)
    <3>1. JobFits(k)
      BY <1>2, <1>4 DEF CallsInv, CallJobs
    <3>2. QED BY <1>4, <1>9, <3>1 DEF Clash, JobFits
  <2>7. QED BY <1>2, <1>4, <2>1, <2>2, <2>4, <2>5, <2>6, JobCalls
<1>12. SessionsFit' /\ ActiveLanes' = ActiveLanes
  BY <1>1, <1>2, <1>4, SameSessions
<1>13. DrainIsComing'
  <2>1. \A k \in Range(jobs) : k.kind = "drain" => k \in Range(jobs')
    BY <1>1, <1>4, OthersStay
  <2>2. Comes => Comes'
    BY <1>1, <1>2, <2>1, ComesKept
  <2>3. QED BY <1>1, <1>2, <1>12, <2>2, DrainFrame
<1>14. QED BY <1>5, <1>6, <1>11, <1>12, <1>13 DEF Inv

\* What a drain does with what waits: it ends when nothing has a slot, and else it
\* goes on with one that has.
DrainTakes(d) ==
  /\ d \in Deliveries /\ d \in Range(waiting) /\ call[d].phase = "waiting"
  /\ drain'.on /\ drain' \in [on : BOOLEAN, item : Deliveries \cup {Nobody}, at : Nat]
  /\ waiting' \in Seq(Deliveries) /\ Once(waiting') /\ Range(waiting') = Range(waiting) \ {d}
  /\ Moved(d, "given") /\ jobs' = <<Job("give", d)>> \o Tail(jobs)

\* The drain ends, or takes one delivery that may go on.
LEMMA DrainFits ==
  ASSUME Typed, CallsInv, NEW at, DrainFrom(at)
  PROVE  \/ /\ Usable = {} /\ drain' = NoDrain /\ jobs' = Tail(jobs)
            /\ call' = call /\ waiting' = waiting
         \/ \E d : DrainTakes(d)
<1>1. CASE Usable = {}
  BY <1>1 DEF DrainFrom
<1>2. CASE Usable # {}
  <2>1. PICK T : T = IF {k \in Usable : k >= at} # {} THEN {k \in Usable : k >= at} ELSE Usable
    OBVIOUS
  <2>2. T \subseteq Usable /\ T # {}
    BY <1>2, <2>1
  <2>3. waiting \in Seq(Deliveries) /\ DOMAIN waiting = 1 .. Len(waiting) /\ Len(waiting) \in Nat
    BY Types, LenProperties
  <2>4. Usable \subseteq DOMAIN waiting
    BY DEF Usable
  <2>5. PICK k : k = Min(T)
    OBVIOUS
  <2>6. k \in T
    <3>1. T \subseteq Nat
      BY <2>2, <2>3, <2>4
    <3>2. PICK x \in T : \A y \in T : ~(y < x)
      BY <2>2, <3>1, LeastOf
    <3>3. \A y \in T : x <= y
      BY <3>1, <3>2
    <3>4. Min(T) = CHOOSE z \in T : \A y \in T : z <= y
      BY DEF Min
    <3>5. QED BY <2>5, <3>3, <3>4
  <2>7. k \in DOMAIN waiting
    BY <2>2, <2>4, <2>6
  <2>8. k \in Nat
    BY <2>3, <2>7
  <2>9. PICK d : d = waiting[k]
    OBVIOUS
  <2>10. d \in Deliveries /\ d \in Range(waiting) /\ call[d].phase = "waiting"
    BY <2>3, <2>7, <2>9, ElementOfSeq DEF CallsInv, WaitingOnce, Range
  <2>11. waiting' \in Seq(Deliveries) /\ Once(waiting') /\ Range(waiting') = Range(waiting) \ {d}
    <3>1. waiting' = RemoveAt(waiting, k)
      BY <1>2, <2>1, <2>5 DEF DrainFrom
    <3>2. Once(waiting)
      BY DEF CallsInv, WaitingOnce
    <3>3. /\ RemoveAt(waiting, k) \in Seq(Deliveries) /\ Once(RemoveAt(waiting, k))
          /\ Range(RemoveAt(waiting, k)) = Range(waiting) \ {waiting[k]}
      BY <2>3, <2>7, <3>2, OnceWithout
    <3>4. QED BY <2>9, <3>1, <3>3
  <2>12. /\ drain' = [on |-> TRUE, item |-> d, at |-> k]
         /\ Moved(d, "given") /\ jobs' = <<Job("give", d)>> \o Tail(jobs)
    BY <1>2, <2>1, <2>5, <2>9 DEF DrainFrom
  <2>13. drain'.on /\ drain' \in [on : BOOLEAN, item : Deliveries \cup {Nobody}, at : Nat]
    BY <2>8, <2>10, <2>12
  <2>14. DrainTakes(d)
    BY <2>10, <2>11, <2>12, <2>13 DEF DrainTakes
  <2>15. QED BY <2>14
<1>3. QED BY <1>1, <1>2

\* A drain takes a delivery that waits and has a slot.
LEMMA DrainTakeKeeps ==
  ASSUME Bounds, Inv, jobs # <<>>, Head(jobs).kind \in {"drain", "drained"},
         UNCHANGED <<sessions, starting, upgrade, trouble>>, NEW d, DrainTakes(d)
  PROVE  Inv'
<1>1. /\ lane' = lane /\ session' = session /\ starting' = starting
      /\ starts' = starts /\ startQueue' = startQueue /\ active' = active
      /\ lastStart' = lastStart /\ paced' = paced /\ trouble' = trouble /\ upgrade' = upgrade
  BY DEF sessions, starting
<1>2. Typed /\ StartsInv /\ CallsInv /\ SessionsFit /\ DrainIsComing
  BY DEF Inv
<1>3. /\ d \in Deliveries /\ d \in Range(waiting) /\ call[d].phase = "waiting"
      /\ drain'.on /\ drain' \in [on : BOOLEAN, item : Deliveries \cup {Nobody}, at : Nat]
      /\ waiting' \in Seq(Deliveries) /\ Once(waiting') /\ Range(waiting') = Range(waiting) \ {d}
  BY DEF DrainTakes
<1>4. MovesTo(d, "given")
  <2>1. "given" \in Phases
    BY DEF Phases
  <2>2. QED BY <1>2, <1>3, <2>1, MovedOne DEF DrainTakes
<1>5. PICK j, p : j = Job("give", d) /\ p = <<j>>
  OBVIOUS
<1>6. j \in Jobs /\ j.kind = "give" /\ j.arg = d
  BY <1>3, <1>5 DEF Job, Jobs, JobKinds
<1>7. p \in Seq(Jobs) /\ Range(p) = {j} /\ NoClash(p) /\ Cardinality(Finishing(p)) = 0
  BY <1>5, <1>6, OneJob
<1>8. JobStep(p)
  <2>1. jobs' = p \o Tail(jobs)
    BY <1>5 DEF DrainTakes
  <2>2. QED BY <1>2, <1>7, <2>1, Types, JobOnward
<1>9. /\ Range(jobs') = Range(p) \cup Range(Tail(jobs)) /\ Range(Tail(jobs)) \subseteq Range(jobs)
      /\ jobs' \in Seq(Jobs)
  BY <1>8 DEF JobStep, Onward, Joined
<1>10. Typed'
  BY <1>1, <1>2, <1>3, <1>4, <1>9, Types, TypedBefore, TypedAfter DEF MovesTo
<1>11. StartsInv'
  <2>1. JobsKept(p, Tail(jobs))
    BY <1>6, <1>7, <1>8, JobKept
  <2>2. QED BY <1>1, <1>2, <2>1, SameStarting
<1>12. CallsInv'
  <2>1. WaitingOnce'
    <3>1. Range(waiting) \subseteq Deliveries
      BY <1>2, Types, RangeIn
    <3>2. \A e \in Range(waiting') : call'[e].phase = "waiting"
      BY <1>2, <1>3, <1>4, <3>1 DEF CallsInv, WaitingOnce, MovesTo, Others
    <3>3. QED BY <1>3, <3>2 DEF WaitingOnce
  <2>2. SamePlaces
    BY <1>1 DEF SamePlaces
  <2>3. ASSUME NEW e, Job("turns", e) \in Range(jobs) PROVE Job("turns", e) \in Range(jobs')
    <3>1. Job("turns", e).kind = "turns"
      BY DEF Job
    <3>2. QED BY <1>8, <2>3, <3>1, OthersStay
  <2>4. ~AwaitsStart(d) /\ call[d].rest = <<>>
    BY <1>2, <1>3, FreeOnes
  <2>5. FreeMove({d})
    BY <1>3, <1>4, <2>3, <2>4 DEF FreeMove, MovesTo
  <2>6. \A k \in Range(p) : JobFits(k)'
    BY <1>3, <1>4, <1>6, <1>7 DEF JobFits, MovesTo
  <2>7. \A k \in Range(Tail(jobs)) : k.kind \in {"give", "deliver", "turns"} => k.arg # d
    BY <1>2, <1>3, <1>9 DEF CallsInv, CallJobs, JobFits
  <2>8. \A i \in Range(p) : \A k \in Range(Tail(jobs)) : ~Clash(i, k)
    BY <1>6, <1>7, <2>7 DEF Clash
  <2>9. \A k \in Range(Tail(jobs)) : k.kind \in {"give", "deliver", "turns"} => k.arg \notin {d}
    BY <2>7
  <2>10. QED BY <1>2, <1>7, <1>8, <2>1, <2>2, <2>5, <2>6, <2>8, <2>9, JobCalls
<1>13. SessionsFit' /\ ActiveLanes' = ActiveLanes
  BY <1>1, <1>2, <1>6, <1>7, <1>9, SameSessions
<1>14. DrainIsComing'
  BY <1>3 DEF DrainIsComing
<1>15. QED BY <1>10, <1>11, <1>12, <1>13, <1>14 DEF Inv

\* A drain that has nothing to take ends, and one that is under way is not started
\* again.
LEMMA DrainRestKeeps ==
  ASSUME Bounds, Inv, jobs # <<>>, Head(jobs).kind \in {"drain", "drained"},
         UNCHANGED <<sessions, starting, upgrade, trouble>>,
         jobs' = Tail(jobs), call' = call, waiting' = waiting,
         (Usable = {} /\ drain' = NoDrain) \/ (drain.on /\ drain' = drain)
  PROVE  Inv'
<1>1. /\ lane' = lane /\ session' = session /\ starting' = starting
      /\ starts' = starts /\ startQueue' = startQueue /\ active' = active
      /\ lastStart' = lastStart /\ paced' = paced /\ trouble' = trouble /\ upgrade' = upgrade
  BY DEF sessions, starting
<1>2. Typed /\ StartsInv /\ CallsInv /\ SessionsFit /\ DrainIsComing
  BY DEF Inv
<1>3. PICK p : p = <<>>
  OBVIOUS
<1>4. JobStep(p) /\ Harmless(p) /\ Range(p) = {}
  BY <1>2, <1>3, JobDone, NoJobs, Types
<1>5. Range(jobs') = Range(Tail(jobs)) /\ Range(Tail(jobs)) \subseteq Range(jobs) /\ jobs' \in Seq(Jobs)
  BY <1>4 DEF JobStep, Onward, Joined
<1>6. drain' \in [on : BOOLEAN, item : Deliveries \cup {Nobody}, at : Nat]
  <2>1. NoDrain \in [on : BOOLEAN, item : Deliveries \cup {Nobody}, at : Nat]
    BY DEF NoDrain
  <2>2. QED BY <1>2, <2>1, TypedBefore
<1>7. Typed'
  BY <1>1, <1>2, <1>5, <1>6, Types, TypedBefore, TypedAfter
<1>8. StartsInv'
  <2>1. JobsKept(p, Tail(jobs))
    BY <1>4, JobKept DEF Harmless
  <2>2. QED BY <1>1, <1>2, <2>1, SameStarting
<1>9. CallsInv'
  <2>1. WaitingOnce'
    BY <1>2, WaitingFrame DEF CallsInv, Kept
  <2>2. SamePlaces
    BY <1>1 DEF SamePlaces
  <2>3. ASSUME NEW e, Job("turns", e) \in Range(jobs) PROVE Job("turns", e) \in Range(jobs')
    <3>1. Job("turns", e).kind = "turns"
      BY DEF Job
    <3>2. QED BY <1>4, <2>3, <3>1, OthersStay
  <2>4. FreeMove({})
    BY <2>3 DEF FreeMove, Others
  <2>5. QED BY <1>2, <1>4, <2>1, <2>2, <2>4, JobCalls DEF Harmless
<1>10. SessionsFit' /\ ActiveLanes' = ActiveLanes
  BY <1>1, <1>2, <1>5, SameSessions
<1>11. DrainIsComing'
  <2>1. CASE drain.on /\ drain' = drain
    BY <2>1 DEF DrainIsComing
  <2>2. CASE Usable = {}
    <3>1. Usable' = Usable
      BY <1>10 DEF Usable, CanUseSessionSlot
    <3>2. QED BY <2>2, <3>1 DEF DrainIsComing
  <2>3. QED BY <2>1, <2>2
<1>12. QED BY <1>7, <1>8, <1>9, <1>10, <1>11 DEF Inv

\* A drain, started by a change of status or going on after a call has returned.
LEMMA DrainKeeps ==
  ASSUME Bounds, Inv, DrainPendingSessionDeliveries \/ DrainGoesOn
  PROVE  Inv'
<1>1. /\ jobs # <<>> /\ Head(jobs).kind \in {"drain", "drained"}
      /\ UNCHANGED <<sessions, starting, upgrade, trouble>>
  BY DEF DrainPendingSessionDeliveries, DrainGoesOn, Doing
<1>2. Typed /\ CallsInv
  BY DEF Inv
<1>3. CASE drain.on /\ jobs' = Tail(jobs) /\ UNCHANGED <<call, waits>>
  BY <1>1, <1>3, DrainRestKeeps DEF waits
<1>4. ASSUME NEW at, DrainFrom(at) PROVE Inv'
  <2>1. CASE /\ Usable = {} /\ drain' = NoDrain /\ jobs' = Tail(jobs)
             /\ call' = call /\ waiting' = waiting
    <3>1. (Usable = {} /\ drain' = NoDrain) \/ (drain.on /\ drain' = drain)
      BY <2>1
    <3>2. jobs' = Tail(jobs) /\ call' = call /\ waiting' = waiting
      BY <2>1
    <3>3. QED BY <1>1, <3>1, <3>2, DrainRestKeeps
  <2>2. CASE \E d : DrainTakes(d)
    BY <1>1, <2>2, DrainTakeKeeps
  <2>3. QED BY <1>2, <1>4, <2>1, <2>2, DrainFits
<1>5. QED BY <1>3, <1>4 DEF DrainPendingSessionDeliveries, DrainGoesOn

\* A change of status of one session, outside of the jobs.
LEMMA StatusKeeps ==
  ASSUME Bounds, Inv, jobs = <<>>, NEW i, NEW r, Sets(i, r), lane' = lane, waiting' = waiting,
         drain' = drain, starting' = starting, upgrade' = upgrade, trouble' \in 0 .. MaxTrouble,
         call' \in Calls(Len(session)), CallsInv', r.lane = session[i].lane, Fits(r),
         NEW p \in Seq(Jobs), jobs' = p, NoClash(p), Cardinality(Finishing(p)) = 0,
         Job("drain", Nobody) \in Range(p),
         \A j \in Range(p) : /\ j.kind = "settled" => j.arg \in Running
                             /\ j.kind # "finally"
                             /\ j.kind = "splice" => j.arg = i /\ r.children > 0
  PROVE  Inv'
<1>1. /\ starts' = starts /\ startQueue' = startQueue /\ active' = active
      /\ lastStart' = lastStart /\ paced' = paced
  BY DEF starting
<1>2. Typed /\ StartsInv /\ CallsInv /\ SessionsFit /\ DrainIsComing
  BY DEF Inv
<1>3. IdleStep(p)
  BY IdleOnward
<1>4. Len(session') = Len(session) /\ session' \in Seq(SessionType) /\ Len(session) \in Nat
      /\ DOMAIN session \subseteq DOMAIN session'
  BY <1>2, Types, LenProperties DEF Sets
<1>5. Typed'
  BY <1>1, <1>2, <1>4, Types, TypedBefore, TypedAfter
<1>6. StartsInv'
  <2>1. JobsKept(p, <<>>)
    BY <1>3, IdleKept
  <2>2. QED BY <1>2, <1>4, <2>1, SameStarting
<1>7. SessionsFit'
  <2>1. \A j \in Range(jobs') : j.kind = "splice" => j.arg = i /\ r.children > 0
    OBVIOUS
  <2>2. QED BY <1>2, <2>1, SetsFit
<1>8. DrainIsComing'
  BY DrainJob
<1>9. QED BY <1>5, <1>6, <1>7, <1>8 DEF Inv

\* The deliveries of such a step, when the lists of the session stay as they are.
LEMMA StatusCalls ==
  ASSUME Inv, jobs = <<>>, NEW i, NEW r, Sets(i, r), starts' = starts, waiting' = waiting,
         r.prompts = session[i].prompts, r.asked = session[i].asked,
         NEW M, FreeMove(M), \A d \in M \cap Deliveries : call[d].phase # "waiting",
         NEW p \in Seq(Jobs), jobs' = p, NoClash(p), \A j \in Range(p) : JobFits(j)'
  PROVE  CallsInv'
<1>1. Typed /\ CallsInv
  BY DEF Inv
<1>2. IdleStep(p)
  BY IdleOnward
<1>3. WaitingOnce'
  BY <1>1, WaitingKept DEF FreeMove
<1>4. DOMAIN session' = DOMAIN session
  BY <1>1, Types, LenProperties DEF Sets
<1>5. SamePlaces
  BY <1>4 DEF SamePlaces, Sets
<1>6. QED BY <1>1, <1>2, <1>3, <1>5, IdleCalls

\* What a spawned runtime makes of its session.
LEMMA SpawnedFits ==
  ASSUME Typed, NEW i \in DOMAIN session, NEW r, r = SpawnedOne(i)
  PROVE  /\ r.prompts = session[i].prompts /\ r.asked = session[i].asked
         /\ r.lane = session[i].lane /\ Fits(r)
<1>1. PICK s : s = session[i]
  OBVIOUS
<1>2. s \in SessionType
  BY <1>1, Types
<1>3. PICK m, n : m = s.children + 1 /\ n = s.opening + 1
  OBVIOUS
<1>4. m \in Nat /\ n \in Nat /\ m > 0 /\ n > 0
  BY <1>2, <1>3 DEF SessionType
<1>5. r = [s EXCEPT !.children = m, !.started = TRUE, !.status = "starting",
                    !.ready = FALSE, !.opening = n]
  BY <1>1, <1>3 DEF SpawnedOne
<1>6. /\ r.prompts = s.prompts /\ r.asked = s.asked /\ r.lane = s.lane
      /\ r.children = m /\ r.opening = n
  BY <1>2, <1>5 DEF SessionType
<1>7. QED BY <1>1, <1>4, <1>6 DEF Fits

\* A start of the queue has spawned its runtime.
LEMMA StartDoneKeeps ==
  ASSUME Bounds, Inv, NEW a \in Agents, StartDone(a)
  PROVE  Inv'
<1>1. /\ lane' = lane /\ waiting' = waiting /\ drain' = drain /\ starting' = starting
      /\ starts' = starts /\ trouble' = trouble /\ call' = call /\ upgrade' = upgrade /\ jobs = <<>>
      /\ starts[a].state = "running"
  BY DEF StartDone, waits, starting
<1>2. Typed /\ StartsInv /\ CallsInv
  BY DEF Inv
<1>3. PICK i : i = starts[a].session
  OBVIOUS
<1>4. i \in DOMAIN session
  BY <1>1, <1>2, <1>3 DEF StartsInv, StartJobs
<1>5. PICK r : r = SpawnedOne(i)
  OBVIOUS
<1>6. Sets(i, r)
  <2>1. session' = Spawned(i)
    BY <1>3 DEF StartDone
  <2>2. QED BY <1>2, <1>4, <1>5, <2>1, Types, SpawnedSets
<1>7. /\ r.prompts = session[i].prompts /\ r.asked = session[i].asked
      /\ r.lane = session[i].lane /\ Fits(r)
  BY <1>2, <1>4, <1>5, SpawnedFits
<1>8. PICK j, p : j = Job("settled", a) /\ p = Append(StatusChange, j)
  OBVIOUS
<1>9. j \in Jobs /\ j.kind = "settled" /\ j.arg = a
  BY <1>8 DEF Job, Jobs, JobKinds
<1>10. /\ p \in Seq(Jobs) /\ NoClash(p) /\ Cardinality(Finishing(p)) = 0
       /\ Range(p) = {Job("drain", Nobody), Job("upgrade", Nobody), j}
  BY <1>8, <1>9, StatusAnd
<1>11. jobs' = p
  BY <1>8 DEF StartDone
<1>12. \A k \in Range(p) : k.kind \in {"drain", "upgrade"} \/ k = j
  BY <1>10, StatusJobs
<1>13. CallsInv'
  <2>1. Range(jobs) = {}
    BY <1>1, NoJobs
  <2>2. FreeMove({})
    BY <1>1, <2>1 DEF FreeMove, Others
  <2>3. \A k \in Range(p) : JobFits(k)'
    BY <1>9, <1>12 DEF JobFits
  <2>4. QED BY <1>1, <1>6, <1>7, <1>10, <1>11, <2>2, <2>3, StatusCalls
<1>14. \A k \in Range(p) : /\ k.kind = "settled" => k.arg \in Running
                           /\ k.kind # "finally" /\ k.kind # "splice"
  BY <1>1, <1>9, <1>12 DEF Running
<1>15. call' \in Calls(Len(session)) /\ trouble' \in 0 .. MaxTrouble
  BY <1>1, <1>2, Types, TypedBefore
<1>16. Job("drain", Nobody) \in Range(p)
  BY <1>10
<1>17. QED BY <1>1, <1>6, <1>7, <1>10, <1>11, <1>13, <1>14, <1>15, <1>16, StatusKeeps

\* A delivery that has a session.
LEMMA SessionOf ==
  ASSUME Typed, NEW d \in Deliveries, call[d].session # 0
  PROVE  call[d].session \in DOMAIN session
<1>1. PICK i, n : i = call[d].session /\ n = Len(session)
  OBVIOUS
<1>2. i \in 0 .. n /\ n \in Nat /\ DOMAIN session = 1 .. n /\ i # 0
  BY <1>1, Types
<1>3. i \in 1 .. n
  BY <1>2
<1>4. QED BY <1>1, <1>2, <1>3

\* A start inside deliver has spawned its runtime.
LEMMA PrepareDoneKeeps ==
  ASSUME Bounds, Inv, NEW d \in Deliveries, PrepareDone(d)
  PROVE  Inv'
<1>1. /\ lane' = lane /\ waiting' = waiting /\ drain' = drain /\ starting' = starting
      /\ starts' = starts /\ trouble' = trouble /\ upgrade' = upgrade /\ jobs = <<>>
      /\ call[d].phase = "preparing"
  BY DEF PrepareDone, waits, starting
<1>2. Typed /\ StartsInv /\ CallsInv
  BY DEF Inv
<1>3. PICK i : i = call[d].session
  OBVIOUS
<1>4. i \in DOMAIN session /\ i # 0
  <2>1. call[d].session # 0
    BY <1>1, <1>2 DEF CallsInv, Prepared
  <2>2. QED BY <1>2, <1>3, <2>1, SessionOf
<1>5. PICK r : r = SpawnedOne(i)
  OBVIOUS
<1>6. Sets(i, r)
  <2>1. session' = Spawned(i)
    BY <1>3 DEF PrepareDone
  <2>2. QED BY <1>2, <1>4, <1>5, <2>1, Types, SpawnedSets
<1>7. /\ r.prompts = session[i].prompts /\ r.asked = session[i].asked
      /\ r.lane = session[i].lane /\ Fits(r)
  BY <1>2, <1>4, <1>5, SpawnedFits
<1>8. PICK j, p : j = Job("deliver", d) /\ p = Append(StatusChange, j)
  OBVIOUS
<1>9. j \in Jobs /\ j.kind = "deliver" /\ j.arg = d
  BY <1>8 DEF Job, Jobs, JobKinds
<1>10. /\ p \in Seq(Jobs) /\ NoClash(p) /\ Cardinality(Finishing(p)) = 0
       /\ Range(p) = {Job("drain", Nobody), Job("upgrade", Nobody), j}
  BY <1>8, <1>9, StatusAnd
<1>11. jobs' = p
  BY <1>8 DEF PrepareDone
<1>12. \A k \in Range(p) : k.kind \in {"drain", "upgrade"} \/ k = j
  BY <1>10, StatusJobs
<1>13. MovesTo(d, "given")
  <2>1. "given" \in Phases
    BY DEF Phases
  <2>2. QED BY <1>2, <2>1, MovedOne DEF PrepareDone
<1>14. CallsInv'
  <2>1. Range(jobs) = {}
    BY <1>1, NoJobs
  <2>2. ~AwaitsStart(d) /\ call[d].rest = <<>>
    BY <1>1, <1>2, FreeOnes
  <2>3. FreeMove({d})
    BY <1>1, <1>13, <2>1, <2>2 DEF FreeMove, MovesTo
  <2>4. ~AwaitsStart(d)'
    BY <1>1, <2>2 DEF AwaitsStart
  <2>5. JobFits(j)'
    BY <1>3, <1>4, <1>9, <1>13, <2>4 DEF JobFits, MovesTo
  <2>6. \A k \in Range(p) : JobFits(k)'
    BY <1>12, <2>5 DEF JobFits
  <2>7. \A e \in {d} \cap Deliveries : call[e].phase # "waiting"
    BY <1>1
  <2>8. QED BY <1>1, <1>6, <1>7, <1>10, <1>11, <2>3, <2>6, <2>7, StatusCalls
<1>15. \A k \in Range(p) : k.kind # "settled" /\ k.kind # "finally" /\ k.kind # "splice"
  BY <1>9, <1>12
<1>16. call' \in Calls(Len(session)) /\ trouble' \in 0 .. MaxTrouble
  BY <1>1, <1>2, <1>13, TypedBefore DEF MovesTo
<1>17. Job("drain", Nobody) \in Range(p)
  BY <1>10
<1>18. QED BY <1>1, <1>6, <1>7, <1>10, <1>11, <1>14, <1>15, <1>16, <1>17, StatusKeeps

\* The jobs of a change of status and nothing more.
LEMMA StatusOnly ==
  /\ StatusChange \in Seq(Jobs) /\ NoClash(StatusChange) /\ Cardinality(Finishing(StatusChange)) = 0
  /\ Job("drain", Nobody) \in Range(StatusChange)
  /\ \A j \in Range(StatusChange) : j.kind \in {"drain", "upgrade"}
BY StatusJobs DEF Harmless

\* A thread is ready.
LEMMA ThreadReadyKeeps ==
  ASSUME Bounds, Inv, NEW i \in DOMAIN session, ThreadReady(i)
  PROVE  Inv'
<1>1. /\ lane' = lane /\ waiting' = waiting /\ drain' = drain /\ starting' = starting
      /\ starts' = starts /\ trouble' = trouble /\ call' = call /\ upgrade' = upgrade /\ jobs = <<>>
      /\ session[i].opening > 0 /\ session[i].children > 0
  BY DEF ThreadReady, Answers, waits, starting
<1>2. Typed /\ StartsInv /\ CallsInv
  BY DEF Inv
<1>3. PICK s, r : s = session[i] /\ r = [s EXCEPT !.ready = TRUE, !.opening = s.opening - 1,
                                                  !.status = "idle"]
  OBVIOUS
<1>4. s \in SessionType
  BY <1>2, <1>3, Types
<1>5. r = [session[i] EXCEPT !.ready = TRUE, !.opening = @ - 1, !.status = "idle"]
  BY <1>3, <1>4 DEF SessionType
<1>6. Sets(i, r)
  <2>1. session' = [session EXCEPT ![i].ready = TRUE, ![i].opening = @ - 1, ![i].status = "idle"]
    BY DEF ThreadReady
  <2>2. QED BY <1>1, <1>2, <1>5, <2>1, Types, ReadySets
<1>7. /\ r.prompts = s.prompts /\ r.asked = s.asked /\ r.lane = s.lane
      /\ r.started = s.started /\ r.ready = TRUE /\ r.children = s.children
  BY <1>3, <1>4 DEF SessionType
<1>8. Fits(r)
  <2>1. s.children > 0
    BY <1>1, <1>3
  <2>2. QED BY <1>7, <2>1 DEF Fits
<1>9. PICK j, p : j = Job("splice", i) /\ p = Append(StatusChange, j)
  OBVIOUS
<1>10. j \in Jobs /\ j.kind = "splice" /\ j.arg = i
  <2>1. i \in Nat
    BY <1>2, Types
  <2>2. QED BY <1>9, <2>1 DEF Job, Jobs, JobKinds
<1>11. /\ p \in Seq(Jobs) /\ NoClash(p) /\ Cardinality(Finishing(p)) = 0
       /\ Range(p) = {Job("drain", Nobody), Job("upgrade", Nobody), j}
  BY <1>9, <1>10, StatusAnd
<1>12. jobs' = p
  BY <1>9 DEF ThreadReady
<1>13. \A k \in Range(p) : k.kind \in {"drain", "upgrade"} \/ k = j
  BY <1>11, StatusJobs
<1>14. CallsInv'
  <2>1. Range(jobs) = {}
    BY <1>1, NoJobs
  <2>2. FreeMove({})
    BY <1>1, <2>1 DEF FreeMove, Others
  <2>3. \A k \in Range(p) : JobFits(k)'
    BY <1>10, <1>13 DEF JobFits
  <2>4. r.prompts = session[i].prompts /\ r.asked = session[i].asked
    BY <1>3, <1>7
  <2>5. QED BY <1>1, <1>6, <1>11, <1>12, <2>2, <2>3, <2>4, StatusCalls
<1>15. \A k \in Range(p) : /\ k.kind # "settled" /\ k.kind # "finally"
                           /\ k.kind = "splice" => k.arg = i /\ r.children > 0
  BY <1>1, <1>3, <1>7, <1>10, <1>13
<1>16. /\ call' \in Calls(Len(session)) /\ trouble' \in 0 .. MaxTrouble
       /\ Job("drain", Nobody) \in Range(p) /\ r.lane = session[i].lane
  BY <1>1, <1>2, <1>3, <1>7, <1>11, Types, TypedBefore
<1>17. QED BY <1>1, <1>6, <1>8, <1>11, <1>12, <1>14, <1>15, <1>16, StatusKeeps

\* What is known of one delivery.
Call(n) == [phase : Phases, session : 0 .. n, rest : Seq(Deliveries)]

\* A turn has ended, and with it all that ran in it.
LEMMA TurnEndsKeeps ==
  ASSUME Bounds, Inv, NEW i \in DOMAIN session, TurnEnds(i)
  PROVE  Inv'
<1>1. /\ lane' = lane /\ waiting' = waiting /\ drain' = drain /\ starting' = starting
      /\ starts' = starts /\ trouble' = trouble /\ upgrade' = upgrade /\ jobs = <<>>
  BY DEF TurnEnds, Answers, waits, starting
<1>2. Typed /\ StartsInv /\ CallsInv /\ SessionsFit
  BY DEF Inv
<1>3. PICK x \in {"idle", "error"} : session' = [session EXCEPT ![i].turn = FALSE, ![i].status = x]
  BY DEF TurnEnds
<1>4. PICK s, r : s = session[i] /\ r = [s EXCEPT !.turn = FALSE, !.status = x]
  OBVIOUS
<1>5. s \in SessionType
  BY <1>2, <1>4, Types
<1>6. Sets(i, r)
  BY <1>2, <1>3, <1>4, Types, EndedSets
<1>7. /\ r.prompts = s.prompts /\ r.asked = s.asked /\ r.lane = s.lane
      /\ r.started = s.started /\ r.ready = s.ready /\ r.opening = s.opening
      /\ r.children = s.children
  BY <1>4, <1>5 DEF SessionType
<1>8. Fits(r)
  BY <1>2, <1>4, <1>7 DEF Fits, SessionsFit
<1>9. PICK p : p = StatusChange
  OBVIOUS
<1>10. /\ p \in Seq(Jobs) /\ NoClash(p) /\ Cardinality(Finishing(p)) = 0 /\ jobs' = p
       /\ Job("drain", Nobody) \in Range(p) /\ \A k \in Range(p) : k.kind \in {"drain", "upgrade"}
  BY <1>9, StatusOnly DEF TurnEnds
<1>11. PICK M : M = {d \in Deliveries : call[d].session = i /\ call[d].phase = "running"}
  OBVIOUS
<1>12. /\ Others(M) /\ call' \in Calls(Len(session))
       /\ \A d \in M : /\ call'[d].phase = "done" /\ call'[d].rest = call[d].rest
  <2>1. call' = [d \in Deliveries |-> IF d \in M THEN [call[d] EXCEPT !.phase = "done"] ELSE call[d]]
    BY <1>11 DEF TurnEnds
  <2>2. ASSUME NEW d \in M
        PROVE  /\ call'[d].phase = "done" /\ call'[d].rest = call[d].rest
               /\ call'[d] \in Call(Len(session))
    <3>1. d \in Deliveries /\ call'[d] = [call[d] EXCEPT !.phase = "done"]
      BY <1>11, <2>1, <2>2
    <3>2. call[d] \in Call(Len(session)) /\ "done" \in Phases
      BY <1>2, <3>1, Types DEF Calls, Call, Phases
    <3>3. PICK c, e, n : c = call[d] /\ e = call'[d] /\ n = Len(session)
      OBVIOUS
    <3>4. c \in Call(n) /\ e = [c EXCEPT !.phase = "done"]
      BY <3>1, <3>2, <3>3
    <3>5. e.phase = "done" /\ e.rest = c.rest /\ e \in Call(n)
      BY <3>2, <3>4 DEF Call
    <3>6. QED BY <3>3, <3>5
  <2>3. \A d \in Deliveries \ M : call'[d] = call[d] /\ call[d] \in Call(Len(session))
    BY <1>2, <2>1, Types DEF Calls, Call
  <2>4. \A d \in Deliveries : call'[d] \in Call(Len(session))
    BY <2>2, <2>3
  <2>5. call' \in Calls(Len(session))
    BY <2>1, <2>4 DEF Calls, Call
  <2>6. QED BY <2>2, <2>3, <2>5 DEF Others
<1>13. CallsInv'
  <2>1. Range(jobs) = {}
    BY <1>1, NoJobs
  <2>2. \A d \in M : ~AwaitsStart(d) /\ call[d].rest = <<>> /\ call[d].phase = "running"
    BY <1>1, <1>2, <1>11, FreeOnes
  <2>3. FreeMove(M)
    BY <1>11, <1>12, <2>1, <2>2 DEF FreeMove
  <2>4. \A k \in Range(p) : JobFits(k)'
    BY <1>10 DEF JobFits
  <2>5. r.prompts = session[i].prompts /\ r.asked = session[i].asked
    BY <1>4, <1>7
  <2>6. \A e \in M \cap Deliveries : call[e].phase # "waiting"
    BY <2>2
  <2>7. QED BY <1>1, <1>6, <1>10, <2>3, <2>4, <2>5, <2>6, StatusCalls
<1>14. \A k \in Range(p) : k.kind # "settled" /\ k.kind # "finally" /\ k.kind # "splice"
  BY <1>10
<1>15. trouble' \in 0 .. MaxTrouble /\ r.lane = session[i].lane
  BY <1>1, <1>2, <1>4, <1>7, TypedBefore
<1>16. QED BY <1>1, <1>6, <1>8, <1>10, <1>12, <1>13, <1>14, <1>15, StatusKeeps

\* A runtime has exited.
LEMMA ExitKeeps ==
  ASSUME Bounds, Inv, NEW i \in DOMAIN session, Exit(i)
  PROVE  Inv'
<1>1. /\ lane' = lane /\ waiting' = waiting /\ drain' = drain /\ starting' = starting
      /\ starts' = starts /\ call' = call /\ upgrade' = upgrade /\ jobs = <<>>
      /\ session[i].children > 0
  BY DEF Exit, waits, starting
<1>2. Typed /\ StartsInv /\ CallsInv
  BY DEF Inv
<1>3. PICK s, x : s = session[i] /\ x = IF s.status = "stopping" THEN "offline" ELSE "error"
  OBVIOUS
<1>4. PICK r : r = [s EXCEPT !.children = s.children - 1, !.started = FALSE, !.status = x]
  OBVIOUS
<1>5. s \in SessionType
  BY <1>2, <1>3, Types
<1>6. r = [session[i] EXCEPT !.children = @ - 1, !.started = FALSE,
                             !.status = IF @ = "stopping" THEN "offline" ELSE "error"]
  BY <1>3, <1>4, <1>5 DEF SessionType
<1>7. Sets(i, r)
  <2>1. session' = [session EXCEPT ![i].children = @ - 1, ![i].started = FALSE,
                      ![i].status = IF @ = "stopping" THEN "offline" ELSE "error"]
    BY DEF Exit
  <2>2. QED BY <1>1, <1>2, <1>6, <2>1, Types, ExitedSets
<1>8. /\ r.prompts = s.prompts /\ r.asked = s.asked /\ r.lane = s.lane /\ r.started = FALSE
  BY <1>4, <1>5 DEF SessionType
<1>9. Fits(r)
  BY <1>8 DEF Fits
<1>10. PICK p : p = StatusChange
  OBVIOUS
<1>11. /\ p \in Seq(Jobs) /\ NoClash(p) /\ Cardinality(Finishing(p)) = 0 /\ jobs' = p
       /\ Job("drain", Nobody) \in Range(p) /\ \A k \in Range(p) : k.kind \in {"drain", "upgrade"}
  BY <1>10, StatusOnly DEF Exit
<1>12. CallsInv'
  <2>1. Range(jobs) = {}
    BY <1>1, NoJobs
  <2>2. FreeMove({})
    BY <1>1, <2>1 DEF FreeMove, Others
  <2>3. \A k \in Range(p) : JobFits(k)'
    BY <1>11 DEF JobFits
  <2>4. r.prompts = session[i].prompts /\ r.asked = session[i].asked
    BY <1>3, <1>8
  <2>5. QED BY <1>1, <1>7, <1>11, <2>2, <2>3, <2>4, StatusCalls
<1>13. \A k \in Range(p) : k.kind # "settled" /\ k.kind # "finally" /\ k.kind # "splice"
  BY <1>11
<1>14. trouble' \in 0 .. MaxTrouble
  <2>1. CASE trouble' = trouble
    BY <1>2, <2>1, TypedBefore
  <2>2. CASE trouble < MaxTrouble /\ trouble' = trouble + 1
    BY <1>2, <2>2, MoreTrouble
  <2>3. QED BY <2>1, <2>2 DEF Exit
<1>15. call' \in Calls(Len(session)) /\ r.lane = session[i].lane
  BY <1>1, <1>2, <1>3, <1>8, Types
<1>16. QED BY <1>1, <1>7, <1>9, <1>11, <1>12, <1>13, <1>14, <1>15, StatusKeeps

\* A turn has been taken.
LEMMA TurnTakenKeeps ==
  ASSUME Bounds, Inv, NEW i \in DOMAIN session, NEW d \in Deliveries, TurnTaken(i, d)
  PROVE  Inv'
<1>1. /\ lane' = lane /\ waiting' = waiting /\ drain' = drain /\ starting' = starting
      /\ starts' = starts /\ trouble' = trouble /\ upgrade' = upgrade /\ jobs = <<>>
      /\ d \in session[i].asked
  BY DEF TurnTaken, Answers, waits, starting
<1>2. Typed /\ StartsInv /\ CallsInv /\ SessionsFit
  BY DEF Inv
<1>3. PICK s, r : s = session[i] /\ r = [s EXCEPT !.asked = s.asked \ {d}, !.turn = TRUE,
                                                  !.status = "working"]
  OBVIOUS
<1>4. s \in SessionType
  BY <1>2, <1>3, Types
<1>5. r = [session[i] EXCEPT !.asked = @ \ {d}, !.turn = TRUE, !.status = "working"]
  BY <1>3, <1>4 DEF SessionType
<1>6. Sets(i, r)
  <2>1. session' = [session EXCEPT ![i].asked = @ \ {d}, ![i].turn = TRUE, ![i].status = "working"]
    BY DEF TurnTaken
  <2>2. QED BY <1>2, <1>5, <2>1, Types, TakenSets
<1>7. /\ r.prompts = s.prompts /\ r.asked = s.asked \ {d} /\ r.lane = s.lane
      /\ r.started = s.started /\ r.ready = s.ready /\ r.opening = s.opening
      /\ r.children = s.children
  BY <1>3, <1>4 DEF SessionType
<1>8. Fits(r)
  BY <1>2, <1>3, <1>7 DEF Fits, SessionsFit
<1>9. PICK p : p = StatusChange
  OBVIOUS
<1>10. /\ p \in Seq(Jobs) /\ NoClash(p) /\ Cardinality(Finishing(p)) = 0 /\ jobs' = p
       /\ Job("drain", Nobody) \in Range(p) /\ \A k \in Range(p) : k.kind \in {"drain", "upgrade"}
  BY <1>9, StatusOnly DEF TurnTaken
<1>11. MovesTo(d, "running")
  <2>1. "running" \in Phases
    BY DEF Phases
  <2>2. QED BY <1>2, <2>1, MovedOne DEF TurnTaken
<1>12. call[d].phase = "asked" /\ call[d].session = i
  BY <1>1, <1>2 DEF CallsInv, AskedWait
<1>13. /\ DOMAIN session' = DOMAIN session
       /\ \A k \in DOMAIN session : session'[k] = IF k = i THEN r ELSE session[k]
  BY <1>2, <1>6, Types, LenProperties DEF Sets
<1>14. Kept("waiting") /\ Kept("prompts") /\ Kept("listed")
  BY <1>11, <1>12 DEF MovesTo, Others, Kept
<1>15. CallsInv'
  <2>1. WaitingOnce'
    BY <1>1, <1>2, <1>14, WaitingFrame DEF CallsInv
  <2>2. WaitersStart'
    <3>1. ~AwaitsStart(d)
      BY <1>2, <1>12, FreeOnes
    <3>2. \A e \in Deliveries : AwaitsStart(e) =>
            call'[e].phase = call[e].phase /\ call'[e].session = call[e].session
      BY <1>11, <3>1 DEF MovesTo, Others
    <3>3. QED BY <1>1, <1>2, <3>2, WaitersFrame DEF CallsInv
  <2>3. PromptsWait'
    <3>1. \A k \in DOMAIN session' : k \in DOMAIN session /\ session'[k].prompts = session[k].prompts
      BY <1>3, <1>7, <1>13
    <3>2. QED BY <1>2, <1>14, <3>1, PromptsFrame DEF CallsInv
  <2>4. ListsWait'
    <3>1. call[d].rest = <<>>
      BY <1>1, <1>2, <1>12, FreeOnes
    <3>2. Range(jobs) = {}
      BY <1>1, NoJobs
    <3>3. \A e \in Deliveries : call'[e].rest = call[e].rest
      BY <1>11 DEF MovesTo, Others
    <3>4. ASSUME NEW e \in Deliveries, call'[e].rest # <<>> PROVE call'[e].phase = "images"
      <4>1. e # d /\ call'[e] = call[e]
        BY <1>11, <3>1, <3>3, <3>4 DEF MovesTo, Others
      <4>2. QED BY <1>2, <3>2, <3>4, <4>1 DEF CallsInv, ListsWait
    <3>5. QED BY <1>2, <1>14, <3>3, <3>4, ListsFrame DEF CallsInv
  <2>5. AskedWait'
    <3>1. ASSUME NEW k \in DOMAIN session', NEW e \in session'[k].asked
          PROVE  /\ k \in DOMAIN session /\ e \in session[k].asked
                 /\ call'[e].phase = call[e].phase /\ call'[e].session = call[e].session
      <4>1. k \in DOMAIN session /\ e \in session[k].asked /\ (k = i => e # d)
        BY <1>3, <1>7, <1>13, <3>1
      <4>2. e \in Deliveries /\ call[e].session = k
        BY <1>2, <4>1, Types DEF SessionType, CallsInv, AskedWait
      <4>3. e # d
        BY <1>12, <4>1, <4>2
      <4>4. QED BY <1>11, <4>1, <4>2, <4>3 DEF MovesTo, Others
    <3>2. QED BY <1>2, <3>1, AskedFrame DEF CallsInv
  <2>6. Prepared'
    BY <1>2, <1>11 DEF CallsInv, Prepared, MovesTo, Others
  <2>7. CallJobs'
    <3>1. IdleStep(p)
      BY <1>1, <1>10, IdleOnward
    <3>2. \A j \in Range(p) : JobFits(j)'
      BY <1>10 DEF JobFits
    <3>3. QED BY <1>2, <1>10, <3>1, <3>2, JobsFrame DEF IdleStep, CallsInv
  <2>8. QED BY <2>1, <2>2, <2>3, <2>4, <2>5, <2>6, <2>7 DEF CallsInv
<1>16. \A k \in Range(p) : k.kind # "settled" /\ k.kind # "finally" /\ k.kind # "splice"
  BY <1>10
<1>17. /\ trouble' \in 0 .. MaxTrouble /\ r.lane = session[i].lane
       /\ call' \in Calls(Len(session))
  BY <1>1, <1>2, <1>3, <1>7, <1>11, TypedBefore DEF MovesTo
<1>18. QED BY <1>1, <1>6, <1>8, <1>10, <1>15, <1>16, <1>17, StatusKeeps

\* The jobs of a turn that is asked for.
LEMMA StatusReturned ==
  ASSUME NEW d \in Deliveries, NEW p, p = StatusChange \o Returned(d)
  PROVE  /\ p \in Seq(Jobs) /\ NoClash(p) /\ Cardinality(Finishing(p)) = 0
         /\ Job("drain", Nobody) \in Range(p)
         /\ Range(Returned(d)) \subseteq Range(p)
         /\ \A k \in Range(p) : k.kind \in {"drain", "upgrade"} \/ k \in Range(Returned(d))
<1>1. PICK c, q : c = StatusChange /\ q = Returned(d)
  OBVIOUS
<1>2. /\ c \in Seq(Jobs) /\ NoClash(c) /\ Cardinality(Finishing(c)) = 0
      /\ Job("drain", Nobody) \in Range(c) /\ \A j \in Range(c) : j.kind \in {"drain", "upgrade"}
  BY <1>1, StatusOnly
<1>3. q \in Seq(Jobs) /\ NoClash(q) /\ Cardinality(Finishing(q)) = 0
  BY <1>1, ReturnedJobs
<1>4. p \in Seq(Jobs) /\ Range(p) = Range(c) \cup Range(q)
  BY <1>1, <1>2, <1>3, ConcatRange
<1>5. Cardinality(Finishing(p)) = 0
  BY <1>1, <1>2, <1>3, FinishingConcat
<1>6. NoClash(p)
  <2>1. \A j \in Range(c) : \A k \in Range(q) : ~Clash(j, k)
    BY <1>2 DEF Clash
  <2>2. QED BY <1>1, <1>2, <1>3, <2>1, NoClashConcat
<1>7. QED BY <1>1, <1>2, <1>4, <1>5, <1>6

\* The images are read and the runtime runs: it is asked for a turn.
LEMMA StartTurnAskedKeeps ==
  ASSUME Bounds, Inv, NEW d \in Deliveries, StartTurn(d), session[call[d].session].children > 0
  PROVE  Inv'
<1>1. /\ lane' = lane /\ waiting' = waiting /\ drain' = drain /\ starting' = starting
      /\ starts' = starts /\ trouble' = trouble /\ upgrade' = upgrade /\ jobs = <<>>
      /\ call[d].phase = "images"
  BY DEF StartTurn, waits, starting
<1>2. Typed /\ StartsInv /\ CallsInv /\ SessionsFit
  BY DEF Inv
<1>3. PICK i : i = call[d].session
  OBVIOUS
<1>4. i \in DOMAIN session /\ i # 0 /\ session[i].children > 0
  <2>1. call[d].session # 0
    BY <1>1, <1>2 DEF CallsInv, Prepared
  <2>2. QED BY <1>2, <1>3, <2>1, SessionOf
<1>5. PICK s, r : s = session[i] /\ r = [s EXCEPT !.asked = s.asked \cup {d}, !.status = "thinking"]
  OBVIOUS
<1>6. s \in SessionType
  BY <1>2, <1>4, <1>5, Types
<1>7. r = [session[i] EXCEPT !.asked = @ \cup {d}, !.status = "thinking"]
  BY <1>5, <1>6 DEF SessionType
<1>8. Sets(i, r)
  <2>1. session' = [session EXCEPT ![i].asked = @ \cup {d}, ![i].status = "thinking"]
    BY <1>3, <1>4 DEF StartTurn
  <2>2. QED BY <1>2, <1>4, <1>7, <2>1, Types, AskedSets
<1>9. /\ r.prompts = s.prompts /\ r.asked = s.asked \cup {d} /\ r.lane = s.lane
      /\ r.started = s.started /\ r.ready = s.ready /\ r.opening = s.opening
      /\ r.children = s.children
  BY <1>5, <1>6 DEF SessionType
<1>10. Fits(r)
  BY <1>2, <1>4, <1>5, <1>9 DEF Fits, SessionsFit
<1>11. PICK p : p = StatusChange \o Returned(d)
  OBVIOUS
<1>12. /\ p \in Seq(Jobs) /\ NoClash(p) /\ Cardinality(Finishing(p)) = 0
       /\ Job("drain", Nobody) \in Range(p)
       /\ \A k \in Range(p) : k.kind \in {"drain", "upgrade"} \/ k \in Range(Returned(d))
       /\ Range(Returned(d)) \subseteq Range(p)
  BY <1>11, StatusReturned
<1>13. jobs' = p
  BY <1>3, <1>4, <1>11 DEF StartTurn
<1>14. MovesTo(d, "asked")
  <2>1. "asked" \in Phases
    BY DEF Phases
  <2>2. Moved(d, "asked")
    BY <1>3, <1>4 DEF StartTurn
  <2>3. QED BY <1>2, <2>1, <2>2, MovedOne
<1>15. /\ DOMAIN session' = DOMAIN session
       /\ \A k \in DOMAIN session : session'[k] = IF k = i THEN r ELSE session[k]
  BY <1>2, <1>8, Types, LenProperties DEF Sets
<1>16. Kept("waiting") /\ Kept("prompts") /\ Kept("listed")
  BY <1>1, <1>14 DEF MovesTo, Others, Kept
<1>17. \A k \in Range(Returned(d)) :
         \/ k.kind = "drained" /\ k.arg = d
         \/ k.kind = "turns" /\ k.arg = d /\ call[d].rest # <<>>
  BY ReturnedJobs
<1>18. CallsInv'
  <2>1. WaitingOnce'
    BY <1>1, <1>2, <1>16, WaitingFrame DEF CallsInv
  <2>2. WaitersStart'
    <3>1. ~AwaitsStart(d)
      BY <1>1, <1>2, FreeOnes
    <3>2. \A e \in Deliveries : AwaitsStart(e) =>
            call'[e].phase = call[e].phase /\ call'[e].session = call[e].session
      BY <1>14, <3>1 DEF MovesTo, Others
    <3>3. QED BY <1>1, <1>2, <3>2, WaitersFrame DEF CallsInv
  <2>3. PromptsWait'
    <3>1. \A k \in DOMAIN session' : k \in DOMAIN session /\ session'[k].prompts = session[k].prompts
      BY <1>5, <1>9, <1>15
    <3>2. QED BY <1>2, <1>16, <3>1, PromptsFrame DEF CallsInv
  <2>4. ListsWait'
    <3>1. Range(jobs) = {}
      BY <1>1, NoJobs
    <3>2. \A e \in Deliveries : call'[e].rest = call[e].rest
      BY <1>14 DEF MovesTo, Others
    <3>3. call[d].rest # <<>> => Job("turns", d) \in Range(jobs')
      BY <1>12, <1>13, ReturnedJobs
    <3>4. ASSUME NEW e \in Deliveries, call'[e].rest # <<>>
          PROVE  call'[e].phase = "images" \/ Job("turns", e) \in Range(jobs')
      <4>1. CASE e = d
        BY <3>2, <3>3, <3>4, <4>1
      <4>2. CASE e # d
        <5>1. call'[e] = call[e]
          BY <1>14, <4>2 DEF MovesTo, Others
        <5>2. QED BY <1>2, <3>1, <3>4, <5>1 DEF CallsInv, ListsWait
      <4>3. QED BY <4>1, <4>2
    <3>5. QED BY <1>2, <1>16, <3>2, <3>4, ListsFrame DEF CallsInv
  <2>5. AskedWait'
    <3>1. ASSUME NEW k \in DOMAIN session', NEW e \in session'[k].asked
          PROVE  call'[e].phase = "asked" /\ call'[e].session = k
      <4>1. k \in DOMAIN session /\ (e \in session[k].asked \/ (k = i /\ e = d))
        BY <1>5, <1>9, <1>15, <3>1
      <4>2. CASE k = i /\ e = d
        BY <1>3, <1>14, <4>2 DEF MovesTo
      <4>3. CASE e \in session[k].asked
        <5>1. e \in Deliveries /\ call[e].session = k /\ call[e].phase = "asked"
          BY <1>2, <4>1, <4>3, Types DEF SessionType, CallsInv, AskedWait
        <5>2. QED BY <1>1, <1>14, <5>1 DEF MovesTo, Others
      <4>4. QED BY <4>1, <4>2, <4>3
    <3>2. QED BY <3>1 DEF AskedWait
  <2>6. Prepared'
    BY <1>2, <1>14 DEF CallsInv, Prepared, MovesTo, Others
  <2>7. CallJobs'
    <3>1. IdleStep(p)
      BY <1>1, <1>12, <1>13, IdleOnward
    <3>2. \A j \in Range(p) : JobFits(j)'
      BY <1>12, <1>14, <1>17 DEF JobFits, MovesTo
    <3>3. QED BY <1>2, <1>12, <3>1, <3>2, JobsFrame DEF IdleStep, CallsInv
  <2>8. QED BY <2>1, <2>2, <2>3, <2>4, <2>5, <2>6, <2>7 DEF CallsInv
<1>19. \A k \in Range(p) : k.kind # "settled" /\ k.kind # "finally" /\ k.kind # "splice"
  BY <1>12, <1>17
<1>20. /\ trouble' \in 0 .. MaxTrouble /\ r.lane = session[i].lane
       /\ call' \in Calls(Len(session))
  BY <1>1, <1>2, <1>5, <1>9, <1>14, TypedBefore DEF MovesTo
<1>21. QED BY <1>1, <1>8, <1>10, <1>12, <1>13, <1>18, <1>19, <1>20, StatusKeeps

\* Or it has exited: nothing is asked for.
LEMMA StartTurnDroppedKeeps ==
  ASSUME Bounds, Inv, NEW d \in Deliveries, StartTurn(d), ~(session[call[d].session].children > 0)
  PROVE  Inv'
<1>1. /\ lane' = lane /\ waiting' = waiting /\ drain' = drain /\ starting' = starting
      /\ starts' = starts /\ startQueue' = startQueue /\ active' = active
      /\ lastStart' = lastStart /\ paced' = paced
      /\ trouble' = trouble /\ upgrade' = upgrade /\ jobs = <<>> /\ session' = session
      /\ call[d].phase = "images" /\ Moved(d, "dropped") /\ jobs' = Returned(d)
  BY DEF StartTurn, waits, starting
<1>2. Typed /\ StartsInv /\ CallsInv /\ SessionsFit /\ DrainIsComing
  BY DEF Inv
<1>3. PICK p : p = Returned(d)
  OBVIOUS
<1>4. /\ p \in Seq(Jobs) /\ NoClash(p) /\ Cardinality(Finishing(p)) = 0
      /\ \A k \in Range(p) : \/ k.kind = "drained" /\ k.arg = d
                             \/ k.kind = "turns" /\ k.arg = d /\ call[d].rest # <<>>
      /\ call[d].rest # <<>> => Job("turns", d) \in Range(p)
  BY <1>3, ReturnedJobs
<1>5. IdleStep(p)
  BY <1>1, <1>3, <1>4, IdleOnward
<1>6. MovesTo(d, "dropped")
  <2>1. "dropped" \in Phases
    BY DEF Phases
  <2>2. QED BY <1>1, <1>2, <2>1, MovedOne
<1>7. Typed'
  <2>1. jobs' \in Seq(Jobs)
    BY <1>1, <1>3, <1>4
  <2>2. QED BY <1>1, <1>2, <1>6, <2>1, Types, TypedBefore, TypedAfter DEF MovesTo
<1>8. StartsInv'
  <2>1. JobsKept(p, <<>>)
    BY <1>4, <1>5, IdleKept
  <2>2. QED BY <1>1, <1>2, <2>1, SameStarting
<1>9. CallsInv'
  <2>1. WaitingOnce'
    BY <1>1, <1>2, <1>6, WaitingKept DEF MovesTo
  <2>2. SamePlaces
    BY <1>1 DEF SamePlaces
  <2>3. Range(jobs) = {} /\ Range(jobs') = Range(p)
    BY <1>5 DEF IdleStep
  <2>4. ~AwaitsStart(d)
    BY <1>1, <1>2, FreeOnes
  <2>5. FreeMove({d})
    BY <1>1, <1>4, <1>6, <2>3, <2>4 DEF FreeMove, MovesTo
  <2>6. \A k \in Range(p) : JobFits(k)'
    BY <1>4, <1>6 DEF JobFits, MovesTo
  <2>7. QED BY <1>2, <1>4, <1>5, <2>1, <2>2, <2>5, <2>6, IdleCalls
<1>10. SessionsFit' /\ ActiveLanes' = ActiveLanes
  <2>1. \A j \in Range(jobs') : j.kind # "splice"
    BY <1>4, <1>5 DEF IdleStep
  <2>2. QED BY <1>1, <1>2, <2>1, SameSessions
<1>11. DrainIsComing'
  <2>1. Comes => Comes'
    <3>1. CASE drain.on
      BY <1>1, <3>1 DEF Comes
    <3>2. CASE \E j \in Range(jobs) : j.kind = "drain"
      BY <1>5, <3>2 DEF IdleStep
    <3>3. CASE TurnIsComing
      <4>1. PICK e \in Deliveries : call[e].phase = "images" /\ session[call[e].session].children > 0
        BY <3>3 DEF TurnIsComing
      <4>2. e # d
        BY <4>1
      <4>3. call'[e] = call[e]
        BY <1>6, <4>1, <4>2 DEF MovesTo, Others
      <4>4. QED BY <1>1, <4>1, <4>3 DEF Comes, TurnIsComing
    <3>4. CASE \E e \in Deliveries : call[e].phase = "lost"
      <4>1. PICK e \in Deliveries : call[e].phase = "lost"
        BY <3>4
      <4>2. call'[e] = call[e]
        BY <1>1, <1>6, <4>1 DEF MovesTo, Others
      <4>3. QED BY <4>1, <4>2 DEF Comes
    <3>5. CASE \E i \in DOMAIN session : session[i].status = "stopping"
      BY <1>1, <3>5 DEF Comes
    <3>6. QED BY <3>1, <3>2, <3>3, <3>4, <3>5 DEF Comes
  <2>2. QED BY <1>1, <1>2, <1>10, <2>1, DrainFrame
<1>12. QED BY <1>7, <1>8, <1>9, <1>10, <1>11 DEF Inv

\* What a failure leaves of a drain.
LEMMA DrainLeft ==
  ASSUME Typed, drain' = NoDrain \/ drain' = drain
  PROVE  drain' \in [on : BOOLEAN, item : Deliveries \cup {Nobody}, at : Nat]
<1>1. NoDrain \in [on : BOOLEAN, item : Deliveries \cup {Nobody}, at : Nat]
  BY DEF NoDrain
<1>2. QED BY <1>1, TypedBefore

\* A start inside deliver fails.
LEMMA PrepareFailsKeeps ==
  ASSUME Bounds, Inv, NEW d \in Deliveries, PrepareFails(d)
  PROVE  Inv'
<1>1. /\ lane' = lane /\ waiting' = waiting /\ session' = session /\ starting' = starting
      /\ starts' = starts /\ startQueue' = startQueue /\ active' = active
      /\ lastStart' = lastStart /\ paced' = paced
      /\ upgrade' = upgrade /\ jobs = <<>> /\ jobs' = jobs
      /\ call[d].phase = "preparing" /\ trouble < MaxTrouble /\ trouble' = trouble + 1
  BY DEF PrepareFails, sessions, starting
<1>2. Typed /\ StartsInv /\ CallsInv /\ SessionsFit /\ DrainIsComing
  BY DEF Inv
<1>3. PICK x : x = IF drain.item = d THEN "lost" ELSE "failed"
  OBVIOUS
<1>4. MovesTo(d, x)
  <2>1. x \in Phases
    BY <1>3 DEF Phases
  <2>2. Moved(d, x)
    BY <1>3 DEF PrepareFails
  <2>3. QED BY <1>2, <2>1, <2>2, MovedOne
<1>5. drain' = IF drain.item = d THEN NoDrain ELSE drain
  BY DEF PrepareFails
<1>6. Typed'
  <2>1. drain' \in [on : BOOLEAN, item : Deliveries \cup {Nobody}, at : Nat]
    BY <1>2, <1>5, DrainLeft
  <2>2. trouble' \in 0 .. MaxTrouble
    BY <1>1, <1>2, MoreTrouble
  <2>3. QED BY <1>1, <1>2, <1>4, <2>1, <2>2, Types, TypedBefore, TypedAfter DEF MovesTo
<1>7. IdleStep(<<>>) /\ JobsKept(<<>>, <<>>)
  BY <1>1, NothingKept
<1>8. StartsInv'
  BY <1>1, <1>2, <1>7, SameStarting
<1>9. CallsInv'
  <2>1. WaitingOnce'
    BY <1>1, <1>2, <1>4, WaitingKept DEF MovesTo
  <2>2. SamePlaces
    BY <1>1 DEF SamePlaces
  <2>3. ~AwaitsStart(d) /\ call[d].rest = <<>>
    BY <1>1, <1>2, FreeOnes
  <2>4. FreeMove({d})
    BY <1>1, <1>3, <1>4, <2>3 DEF FreeMove, MovesTo
  <2>5. NoClash(<<>>) /\ \A j \in Range(<<>>) : JobFits(j)'
    BY NoJobs DEF Harmless
  <2>6. QED BY <1>2, <1>7, <2>1, <2>2, <2>4, <2>5, IdleCalls
<1>10. SessionsFit' /\ ActiveLanes' = ActiveLanes
  BY <1>1, <1>2, SameSessions
<1>11. DrainIsComing'
  <2>1. CASE drain.item = d
    BY <1>3, <1>4, <2>1 DEF MovesTo, DrainIsComing
  <2>2. CASE drain.item # d
    <3>1. \A e \in Deliveries : call[e].phase \in {"images", "lost"} => call'[e] = call[e]
      BY <1>1, <1>4 DEF MovesTo, Others
    <3>2. Comes => Comes'
      BY <1>1, <1>2, <1>5, <2>2, <3>1, ComesKept
    <3>3. QED BY <1>1, <1>2, <1>10, <3>2, DrainFrame
  <2>3. QED BY <2>1, <2>2
<1>12. QED BY <1>6, <1>8, <1>9, <1>10, <1>11 DEF Inv

\* A start of the queue fails, for the queue.
LEMMA StartFailsStarts ==
  ASSUME Bounds, Inv, NEW a \in Agents, StartFails(a), NEW p, IdleStep(p),
         Range(p) = {Job("finally", a)}, Cardinality(Finishing(p)) = 1
  PROVE  /\ StartsInv' /\ starts' \in Starts(Len(session)) /\ starts'[a] = NoStart
         /\ \A b \in Agents \ {a} : starts'[b] = starts[b]
<1>1. /\ startQueue' = startQueue /\ active' = active /\ paced' = paced /\ session' = session
      /\ starts[a].state = "running" /\ starts' = [starts EXCEPT ![a] = NoStart]
  BY DEF StartFails, sessions
<1>2. Typed /\ StartsInv
  BY DEF Inv
<1>3. starts \in Starts(Len(session)) /\ Len(session) \in Nat
  BY <1>2, Types
<1>4. NoStart \in [state : {"none", "queued", "running"}, session : 0 .. Len(session),
                   waiters : Seq(Deliveries)] /\ NoStart.state = "none"
  BY <1>3 DEF NoStart
<1>5. /\ starts' \in Starts(Len(session)) /\ starts'[a] = NoStart
      /\ \A b \in Agents \ {a} : starts'[b] = starts[b]
  BY <1>1, <1>3, <1>4 DEF Starts
<1>6. starts'[a].state = "none"
  BY <1>4, <1>5
<1>7. /\ Cardinality(Finishing(jobs)) = 0 /\ Cardinality(Finishing(jobs')) = 1
      /\ Range(jobs') = {Job("finally", a)}
  BY DEF IdleStep
<1>8. Job("finally", a).kind = "finally" /\ Job("finally", a).arg = a
  BY DEF Job
<1>9. Running' = Running \ {a} /\ a \in Running
  <2>1. \A b \in Agents : starts'[b].state = "running" <=> starts[b].state = "running" /\ b # a
    BY <1>5, <1>6
  <2>2. QED BY <1>1, <2>1 DEF Running
<1>10. Cardinality(Running') = Cardinality(Running) - 1 /\ Cardinality(Running') \in Nat
  <2>1. IsFiniteSet(Running \ {a})
    BY <1>2, StartsFacts, FS_RemoveElement
  <2>2. QED BY <1>2, <1>9, <2>1, StartsFacts, FS_RemoveElement, FS_CardinalityType
<1>11. CountIsExact'
  <2>1. active = Cardinality(Running') + Cardinality(Finishing(jobs'))
    BY <1>2, <1>7, <1>10, StartsFacts
  <2>2. QED BY <1>1, <2>1 DEF CountIsExact
<1>12. QueueIsQueued'
  <2>1. \A b \in Agents : starts'[b].state = "queued" <=> starts[b].state = "queued"
    BY <1>1, <1>5, <1>6
  <2>2. QED BY <1>1, <1>2, <2>1 DEF StartsInv, QueueIsQueued
<1>13. StartJobs'
  <2>1. \A b \in Agents : starts'[b].state # "none" => starts'[b].session \in DOMAIN session'
    BY <1>1, <1>2, <1>5, <1>6 DEF StartsInv, StartJobs
  <2>2. QED BY <1>7, <1>8, <2>1 DEF StartJobs
<1>14. PumpIsComing'
  <2>1. active > 0
    BY <1>2, <1>10, <1>7, StartsFacts
  <2>2. QED BY <1>1, <2>1 DEF PumpIsComing
<1>15. QED BY <1>5, <1>11, <1>12, <1>13, <1>14 DEF StartsInv

\* A start of the queue fails, and with it the deliveries that await it.
LEMMA StartFailsKeeps ==
  ASSUME Bounds, Inv, NEW a \in Agents, StartFails(a)
  PROVE  Inv'
<1>1. /\ lane' = lane /\ waiting' = waiting /\ session' = session
      /\ startQueue' = startQueue /\ active' = active
      /\ lastStart' = lastStart /\ paced' = paced
      /\ upgrade' = upgrade /\ jobs = <<>> /\ jobs' = <<Job("finally", a)>>
      /\ trouble < MaxTrouble /\ trouble' = trouble + 1
  BY DEF StartFails, sessions
<1>2. Typed /\ StartsInv /\ CallsInv /\ SessionsFit /\ DrainIsComing
  BY DEF Inv
<1>3. PICK j, p : j = Job("finally", a) /\ p = <<j>>
  OBVIOUS
<1>4. j \in Jobs /\ j.kind = "finally" /\ j.arg = a
  BY <1>3 DEF Job, Jobs, JobKinds
<1>5. p \in Seq(Jobs) /\ Range(p) = {j} /\ NoClash(p) /\ Cardinality(Finishing(p)) = 1
  BY <1>3, <1>4, OneJob
<1>6. IdleStep(p)
  BY <1>1, <1>3, <1>5, IdleOnward
<1>7. /\ StartsInv' /\ starts' \in Starts(Len(session)) /\ starts'[a] = NoStart
      /\ \A b \in Agents \ {a} : starts'[b] = starts[b]
  BY <1>3, <1>5, <1>6, StartFailsStarts
<1>8. PICK out : out = Range(starts[a].waiters)
  OBVIOUS
<1>9. \A d \in out : d \in Deliveries /\ call[d].phase = "starting" /\ AgentOfCall(d) = a
  <2>1. out \subseteq Deliveries
    BY <1>2, <1>8, Types, RangeIn
  <2>2. QED BY <1>2, <1>8, <2>1 DEF CallsInv, WaitersStart
<1>10. /\ Others(out) /\ call' \in Calls(Len(session))
       /\ \A d \in out : /\ call'[d].rest = <<>>
                         /\ call'[d].phase = IF drain.item = d THEN "lost" ELSE "failed"
  <2>1. call' = [d \in Deliveries |->
                   IF d \in out
                   THEN [call[d] EXCEPT !.phase = IF drain.item = d THEN "lost" ELSE "failed"]
                   ELSE call[d]]
    BY <1>8 DEF StartFails
  <2>2. ASSUME NEW d \in out
        PROVE  /\ call'[d].phase = IF drain.item = d THEN "lost" ELSE "failed"
               /\ call'[d].rest = <<>> /\ call'[d] \in Call(Len(session))
    <3>1. PICK x : x = IF drain.item = d THEN "lost" ELSE "failed"
      OBVIOUS
    <3>2. d \in Deliveries /\ call'[d] = [call[d] EXCEPT !.phase = x]
      BY <1>9, <2>1, <2>2, <3>1
    <3>3. call[d] \in Call(Len(session)) /\ x \in Phases
      BY <1>2, <3>1, <3>2, Types DEF Calls, Call, Phases
    <3>4. PICK c, e, n : c = call[d] /\ e = call'[d] /\ n = Len(session)
      OBVIOUS
    <3>5. c \in Call(n) /\ e = [c EXCEPT !.phase = x]
      BY <3>2, <3>3, <3>4
    <3>6. e.phase = x /\ e.rest = c.rest /\ e \in Call(n)
      BY <3>3, <3>5 DEF Call
    <3>7. call[d].rest = <<>>
      BY <1>2, <1>9, <3>2, FreeOnes
    <3>8. QED BY <3>1, <3>4, <3>6, <3>7
  <2>3. \A d \in Deliveries \ out : call'[d] = call[d] /\ call[d] \in Call(Len(session))
    BY <1>2, <2>1, Types DEF Calls, Call
  <2>4. \A d \in Deliveries : call'[d] \in Call(Len(session))
    BY <2>2, <2>3
  <2>5. call' \in Calls(Len(session))
    BY <2>1, <2>4 DEF Calls, Call
  <2>6. QED BY <2>2, <2>3, <2>5 DEF Others
<1>11. drain' = IF drain.item \in out THEN NoDrain ELSE drain
  BY <1>8 DEF StartFails
<1>12. Typed'
  <2>1. drain' \in [on : BOOLEAN, item : Deliveries \cup {Nobody}, at : Nat]
    BY <1>2, <1>11, DrainLeft
  <2>2. trouble' \in 0 .. MaxTrouble
    BY <1>1, <1>2, MoreTrouble
  <2>3. jobs' \in Seq(Jobs)
    BY <1>1, <1>3, <1>5
  <2>4. QED BY <1>1, <1>2, <1>7, <1>10, <2>1, <2>2, <2>3, Types, TypedBefore, TypedAfter
<1>13. Kept("waiting") /\ Kept("prompts") /\ Kept("listed") /\ Kept("asked") /\ Kept("lost")
  BY <1>9, <1>10 DEF Others, Kept
<1>14. CallsInv'
  <2>1. WaitingOnce'
    BY <1>1, <1>2, <1>13, WaitingFrame DEF CallsInv
  <2>2. WaitersStart'
    <3>1. Once(<<>>) /\ Range(<<>>) = {} /\ NoStart.waiters = <<>>
      BY DEF Once, Range, NoStart
    <3>2. ASSUME NEW b \in Agents, b # a
          PROVE  /\ Once(starts'[b].waiters)
                 /\ \A d \in Range(starts'[b].waiters) :
                      call'[d].phase = "starting" /\ call'[d].session # 0 /\ AgentOfCall(d) = b
      <4>1. starts'[b] = starts[b]
        BY <1>7, <3>2
      <4>2. Range(starts[b].waiters) \subseteq Deliveries
        BY <1>2, Types, RangeIn
      <4>3. \A d \in Range(starts[b].waiters) : AgentOfCall(d) = b /\ call'[d] = call[d]
        BY <1>2, <1>9, <1>10, <3>2, <4>2 DEF CallsInv, WaitersStart, Others
      <4>4. QED BY <1>2, <4>1, <4>3 DEF CallsInv, WaitersStart
    <3>3. QED BY <1>7, <3>1, <3>2 DEF WaitersStart
  <2>3. PromptsWait'
    BY <1>1, <1>2, <1>13, PromptsFrame DEF CallsInv
  <2>4. ListsWait'
    <3>1. Range(jobs) = {}
      BY <1>6 DEF IdleStep
    <3>2. \A e \in Deliveries : call'[e].rest = call[e].rest \/ call'[e].rest = <<>>
      BY <1>10 DEF Others
    <3>3. ASSUME NEW e \in Deliveries, call'[e].rest # <<>> PROVE call'[e].phase = "images"
      <4>1. call'[e] = call[e]
        BY <1>10, <3>3 DEF Others
      <4>2. QED BY <1>2, <3>1, <3>3, <4>1 DEF CallsInv, ListsWait
    <3>4. QED BY <1>2, <1>13, <3>2, <3>3, ListsFrame DEF CallsInv
  <2>5. AskedWait'
    <3>1. ASSUME NEW k \in DOMAIN session', NEW e \in session'[k].asked
          PROVE  /\ k \in DOMAIN session /\ e \in session[k].asked
                 /\ call'[e].phase = call[e].phase /\ call'[e].session = call[e].session
      <4>1. k \in DOMAIN session /\ e \in session[k].asked
        BY <1>1, <3>1
      <4>2. e \in Deliveries /\ call[e].phase = "asked"
        BY <1>2, <4>1, Types DEF SessionType, CallsInv, AskedWait
      <4>3. QED BY <1>13, <4>1, <4>2 DEF Kept
    <3>2. QED BY <1>2, <3>1, AskedFrame DEF CallsInv
  <2>6. Prepared'
    BY <1>2, <1>10 DEF CallsInv, Prepared, Others
  <2>7. CallJobs'
    <3>1. \A k \in Range(p) : JobFits(k)'
      BY <1>4, <1>5 DEF JobFits
    <3>2. QED BY <1>2, <1>5, <1>6, <3>1, JobsFrame DEF IdleStep, CallsInv
  <2>8. QED BY <2>1, <2>2, <2>3, <2>4, <2>5, <2>6, <2>7 DEF CallsInv
<1>15. SessionsFit' /\ ActiveLanes' = ActiveLanes
  BY <1>1, <1>2, <1>4, <1>5, <1>6, SameSessions DEF IdleStep
<1>16. DrainIsComing'
  <2>1. CASE drain.item \in out
    <3>1. drain.item \in Deliveries /\ call'[drain.item].phase = "lost"
      BY <1>9, <1>10, <2>1
    <3>2. \E d \in Deliveries : call'[d].phase = "lost"
      BY <3>1
    <3>3. QED BY <3>2 DEF DrainIsComing
  <2>2. CASE drain.item \notin out
    <3>1. \A e \in Deliveries : call[e].phase \in {"images", "lost"} => call'[e] = call[e]
      BY <1>9, <1>10 DEF Others
    <3>2. Comes => Comes'
      BY <1>1, <1>2, <1>6, <1>11, <2>2, <3>1, ComesKept DEF IdleStep
    <3>3. QED BY <1>1, <1>2, <1>15, <3>2, DrainFrame
  <2>3. QED BY <2>1, <2>2
<1>17. QED BY <1>7, <1>12, <1>14, <1>15, <1>16 DEF Inv

\* The prompts of a ready session are taken, the first is to become a turn.
SpliceOf(i, list, p) ==
  /\ i \in DOMAIN session /\ session[i].children > 0 /\ list = session[i].prompts
  /\ session' = [session EXCEPT ![i].prompts = <<>>]
  /\ JobStep(p) /\ Harmless(p) /\ Range(p) = {} /\ Head(jobs).kind = "splice"
  /\ lane' = lane /\ waiting' = waiting /\ drain' = drain /\ starting' = starting
  /\ upgrade' = upgrade /\ trouble' = trouble

\* What is the same for all of its cases.
LEMMA SpliceFits ==
  ASSUME Bounds, Inv, Splice
  PROVE  \E i, list, p : SpliceOf(i, list, p) /\ i = Head(jobs).arg
<1>1. Typed /\ SessionsFit /\ jobs # <<>> /\ Head(jobs).kind = "splice"
  BY DEF Inv, Splice, Doing
<1>2. PICK i, p : i = Head(jobs).arg /\ p = <<>>
  OBVIOUS
<1>3. JobStep(p) /\ Harmless(p) /\ Range(p) = {}
  BY <1>1, <1>2, Types, JobDone, NoJobs DEF Splice
<1>4. i \in DOMAIN session /\ session[i].children > 0
  BY <1>1, <1>2, <1>3 DEF JobStep, SessionsFit
<1>5. SpliceOf(i, session[i].prompts, p)
  BY <1>1, <1>2, <1>3, <1>4 DEF Splice, SpliceOf, Arg, waits
<1>6. QED BY <1>2, <1>5

\* What becomes of the session.
LEMMA SplicedFits ==
  ASSUME Typed, SessionsFit, NEW i, NEW list, NEW p, SpliceOf(i, list, p)
  PROVE  \E r : /\ Sets(i, r) /\ r.prompts = <<>> /\ r.asked = session[i].asked
                /\ r.lane = session[i].lane /\ r.status = session[i].status /\ Fits(r)
                /\ r.children = session[i].children
                /\ (list = <<>> => (HoldsSlot(r) <=> HoldsSlot(session[i])))
                /\ list \in Seq(Deliveries)
<1>1. i \in DOMAIN session /\ list = session[i].prompts
      /\ session' = [session EXCEPT ![i].prompts = <<>>]
  BY DEF SpliceOf
<1>2. PICK s, r : s = session[i] /\ r = [s EXCEPT !.prompts = <<>>]
  OBVIOUS
<1>3. s \in SessionType
  BY <1>1, <1>2, Types
<1>4. Sets(i, r)
  BY <1>1, <1>2, Types, SplicedSets
<1>5. /\ r.prompts = <<>> /\ r.asked = s.asked /\ r.lane = s.lane
      /\ r.started = s.started /\ r.ready = s.ready /\ r.opening = s.opening
      /\ r.children = s.children /\ r.status = s.status /\ r.turn = s.turn
      /\ s.prompts \in Seq(Deliveries)
  BY <1>2, <1>3 DEF SessionType
<1>6. Fits(r)
  BY <1>1, <1>2, <1>5 DEF Fits, SessionsFit
<1>7. list = <<>> => (HoldsSlot(r) <=> HoldsSlot(session[i]))
  BY <1>1, <1>2, <1>5 DEF HoldsSlot
<1>8. QED BY <1>1, <1>2, <1>4, <1>5, <1>6, <1>7

\* The parts of the invariant that do not depend on the prompts.
LEMMA SpliceRest ==
  ASSUME Bounds, Inv, NEW i, NEW list, NEW p, SpliceOf(i, list, p), call' \in Calls(Len(session))
  PROVE  Typed' /\ StartsInv' /\ SessionsFit'
<1>1. /\ lane' = lane /\ waiting' = waiting /\ drain' = drain /\ starting' = starting
      /\ starts' = starts /\ startQueue' = startQueue /\ active' = active
      /\ lastStart' = lastStart /\ paced' = paced /\ upgrade' = upgrade /\ trouble' = trouble
      /\ JobStep(p) /\ Harmless(p) /\ Range(p) = {} /\ Head(jobs).kind = "splice"
  BY DEF SpliceOf, starting
<1>2. Typed /\ StartsInv /\ SessionsFit
  BY DEF Inv
<1>3. PICK r : /\ Sets(i, r) /\ r.lane = session[i].lane /\ Fits(r)
               /\ r.children = session[i].children
  BY <1>2, SplicedFits
<1>4. Len(session') = Len(session) /\ session' \in Seq(SessionType) /\ Len(session) \in Nat
      /\ DOMAIN session \subseteq DOMAIN session'
  BY <1>2, <1>3, Types, LenProperties DEF Sets
<1>5. jobs' \in Seq(Jobs) /\ Range(jobs') \subseteq Range(jobs)
  BY <1>1 DEF JobStep, Onward, Joined
<1>6. Typed'
  BY <1>1, <1>2, <1>4, <1>5, Types, TypedBefore, TypedAfter
<1>7. StartsInv'
  <2>1. JobsKept(p, Tail(jobs))
    BY <1>1, JobKept DEF Harmless
  <2>2. QED BY <1>1, <1>2, <1>4, <2>1, SameStarting
<1>8. SessionsFit'
  <2>1. \A j \in Range(jobs') : j.kind = "splice" => j \in Range(jobs)
    BY <1>5
  <2>2. QED BY <1>1, <1>2, <1>3, <2>1, SetsFit
<1>9. QED BY <1>6, <1>7, <1>8

\* No prompt waits.
LEMMA SpliceNothingKeeps ==
  ASSUME Bounds, Inv, NEW i, NEW p, SpliceOf(i, <<>>, p), call' = call
  PROVE  Inv'
<1>1. /\ lane' = lane /\ waiting' = waiting /\ drain' = drain /\ starts' = starts
      /\ JobStep(p) /\ Harmless(p) /\ Range(p) = {} /\ Head(jobs).kind = "splice"
  BY DEF SpliceOf, starting
<1>2. Typed /\ CallsInv /\ SessionsFit /\ DrainIsComing
  BY DEF Inv
<1>3. Typed' /\ StartsInv' /\ SessionsFit'
  BY <1>2, Types, SpliceRest
<1>4. PICK r : /\ Sets(i, r) /\ r.prompts = <<>> /\ r.asked = session[i].asked
               /\ r.status = session[i].status /\ r.children = session[i].children
               /\ HoldsSlot(r) <=> HoldsSlot(session[i])
  <2>1. PICK l : l = <<>>
    OBVIOUS
  <2>2. SpliceOf(i, l, p)
    BY <2>1
  <2>3. \E r : /\ Sets(i, r) /\ r.prompts = <<>> /\ r.asked = session[i].asked
               /\ r.lane = session[i].lane /\ r.status = session[i].status /\ Fits(r)
               /\ r.children = session[i].children
               /\ (l = <<>> => (HoldsSlot(r) <=> HoldsSlot(session[i])))
               /\ l \in Seq(Deliveries)
    BY <1>2, <2>2, SplicedFits
  <2>4. QED BY <2>1, <2>3
<1>5. /\ DOMAIN session' = DOMAIN session /\ session[i].prompts = <<>>
      /\ \A k \in DOMAIN session : session'[k] = IF k = i THEN r ELSE session[k]
  BY <1>2, <1>4, Types, LenProperties DEF Sets, SpliceOf
<1>6. CallsInv'
  <2>1. WaitingOnce'
    BY <1>1, <1>2, WaitingFrame DEF CallsInv, Kept
  <2>2. SamePlaces
    BY <1>1, <1>4, <1>5 DEF SamePlaces
  <2>3. ASSUME NEW e, Job("turns", e) \in Range(jobs) PROVE Job("turns", e) \in Range(jobs')
    <3>1. Job("turns", e).kind = "turns"
      BY DEF Job
    <3>2. QED BY <1>1, <2>3, <3>1, OthersStay
  <2>4. FreeMove({})
    BY <2>3 DEF FreeMove, Others
  <2>5. QED BY <1>1, <1>2, <2>1, <2>2, <2>4, JobCalls DEF Harmless
<1>7. ActiveLanes' = ActiveLanes
  BY <1>1, <1>2, <1>4, SetsSlots
<1>8. DrainIsComing'
  <2>1. \A k \in Range(jobs) : k.kind = "drain" => k \in Range(jobs')
    BY <1>1, OthersStay
  <2>2. \A k \in DOMAIN session : /\ k \in DOMAIN session' /\ session'[k].status = session[k].status
                                  /\ session'[k].children = session[k].children
    BY <1>4, <1>5
  <2>3. Comes => Comes'
    BY <1>1, <1>2, <2>1, <2>2, ComesKept
  <2>4. QED BY <1>1, <1>2, <1>7, <2>3, DrainFrame
<1>9. QED BY <1>3, <1>6, <1>8 DEF Inv

\* Some do: the first is to become a turn, the others are its list.
SplicedCalls(i, list) ==
  LET first == Head(list) IN
    /\ call' \in Calls(Len(session))
    /\ call'[first].phase = "images" /\ call'[first].session = i
    /\ call'[first].rest = Tail(list)
    /\ \A d \in Range(Tail(list)) :
         call'[d].phase = "listed" /\ call'[d].session = i /\ call'[d].rest = call[d].rest
    /\ Others(Range(list))

\* They are moved so.
LEMMA SpliceCalls ==
  ASSUME Bounds, Inv, Splice, NEW i, NEW list, NEW p, SpliceOf(i, list, p), i = Head(jobs).arg,
         list \in Seq(Deliveries), list # <<>>
  PROVE  SplicedCalls(i, list)
<1>1. list = session[i].prompts /\ i \in DOMAIN session
  BY DEF SpliceOf
<1>2. Typed /\ PromptsWait
  BY DEF Inv, CallsInv
<1>3. Once(list) /\ \A d \in Range(list) : call[d].phase = "prompts" /\ call[d].session = i
  BY <1>1, <1>2 DEF PromptsWait
<1>4. PICK f, t : f = Head(list) /\ t = Tail(list)
  OBVIOUS
<1>5. /\ t \in Seq(Deliveries) /\ f \in Deliveries /\ Range(list) = {f} \cup Range(t)
      /\ f \notin Range(t) /\ f = list[1] /\ Range(list) \subseteq Deliveries
  BY <1>3, <1>4, TailRange, OnceShorter, RangeIn
<1>6. call' = [d \in Deliveries |->
                 IF d = f THEN [call[d] EXCEPT !.phase = "images", !.rest = t]
                 ELSE IF d \in Range(list) THEN [call[d] EXCEPT !.phase = "listed"]
                 ELSE call[d]]
  BY <1>1, <1>4, <1>5 DEF Splice, Arg
<1>7. PICK n : n = Len(session)
  OBVIOUS
<1>8. \A d \in Deliveries : call[d] \in Call(n)
  BY <1>2, <1>7, Types DEF Calls, Call
<1>9. /\ call'[f].phase = "images" /\ call'[f].session = i /\ call'[f].rest = t
      /\ call'[f] \in Call(n)
  <2>1. PICK c, e : c = call[f] /\ e = call'[f]
    OBVIOUS
  <2>2. c \in Call(n) /\ e = [c EXCEPT !.phase = "images", !.rest = t] /\ c.session = i
    BY <1>3, <1>5, <1>6, <1>8, <2>1
  <2>3. e.phase = "images" /\ e.session = c.session /\ e.rest = t /\ e \in Call(n)
    BY <1>5, <2>2 DEF Call, Phases
  <2>4. QED BY <2>1, <2>2, <2>3
<1>10. ASSUME NEW d \in Range(t)
       PROVE  /\ call'[d].phase = "listed" /\ call'[d].session = i /\ call'[d].rest = call[d].rest
              /\ call'[d] \in Call(n)
  <2>1. PICK c, e : c = call[d] /\ e = call'[d]
    OBVIOUS
  <2>2. c \in Call(n) /\ e = [c EXCEPT !.phase = "listed"] /\ c.session = i
    BY <1>3, <1>5, <1>6, <1>8, <1>10, <2>1
  <2>3. e.phase = "listed" /\ e.session = c.session /\ e.rest = c.rest /\ e \in Call(n)
    BY <2>2 DEF Call, Phases
  <2>4. QED BY <2>1, <2>2, <2>3
<1>11. \A d \in Deliveries \ Range(list) : call'[d] = call[d]
  BY <1>5, <1>6
<1>12. call' \in Calls(Len(session))
  <2>1. \A d \in Deliveries : call'[d] \in Call(n)
    BY <1>5, <1>8, <1>9, <1>10, <1>11
  <2>2. QED BY <1>6, <1>7, <2>1 DEF Calls, Call
<1>13. QED BY <1>4, <1>5, <1>9, <1>10, <1>11, <1>12 DEF SplicedCalls, Others

\* A turn is to come, and each of its list waits in one place.
LEMMA SpliceSomeKeeps ==
  ASSUME Bounds, Inv, NEW i, NEW list, NEW p, SpliceOf(i, list, p),
         list \in Seq(Deliveries), list # <<>>, SplicedCalls(i, list)
  PROVE  Inv'
<1>1. /\ lane' = lane /\ waiting' = waiting /\ drain' = drain /\ starts' = starts
      /\ JobStep(p) /\ Harmless(p) /\ Range(p) = {} /\ Head(jobs).kind = "splice"
      /\ list = session[i].prompts /\ i \in DOMAIN session /\ session[i].children > 0
  BY DEF SpliceOf, starting
<1>2. Typed /\ CallsInv /\ SessionsFit /\ DrainIsComing
  BY DEF Inv
<1>3. call' \in Calls(Len(session)) /\ Others(Range(list))
  BY DEF SplicedCalls
<1>4. Typed' /\ StartsInv' /\ SessionsFit'
  BY <1>3, SpliceRest
<1>5. PICK f, t : f = Head(list) /\ t = Tail(list)
  OBVIOUS
<1>6. Once(list) /\ \A d \in Range(list) : call[d].phase = "prompts" /\ call[d].session = i
  BY <1>1, <1>2 DEF CallsInv, PromptsWait
<1>7. /\ t \in Seq(Deliveries) /\ f \in Deliveries /\ Range(list) = {f} \cup Range(t)
      /\ f \notin Range(t) /\ Once(t) /\ Range(list) \subseteq Deliveries
  BY <1>5, <1>6, TailRange, OnceShorter, RangeIn
<1>8. /\ call'[f].phase = "images" /\ call'[f].session = i /\ call'[f].rest = t
      /\ \A d \in Range(t) :
           call'[d].phase = "listed" /\ call'[d].session = i /\ call'[d].rest = call[d].rest
  BY <1>5 DEF SplicedCalls
<1>9. PICK r : /\ Sets(i, r) /\ r.prompts = <<>> /\ r.asked = session[i].asked
               /\ r.status = session[i].status /\ r.children = session[i].children
  BY <1>2, SplicedFits
<1>10. /\ DOMAIN session' = DOMAIN session
       /\ \A k \in DOMAIN session : session'[k] = IF k = i THEN r ELSE session[k]
  BY <1>2, <1>9, Types, LenProperties DEF Sets
<1>11. Kept("waiting") /\ Kept("listed") /\ Kept("asked")
  BY <1>3, <1>6 DEF Others, Kept
<1>12. i # 0
  BY <1>1, <1>2, Types
<1>13. \A d \in Range(list) : ~AwaitsStart(d) /\ call[d].rest = <<>>
  BY <1>2, <1>6, <1>7, FreeOnes
<1>14. /\ Range(jobs') = Range(p) \cup Range(Tail(jobs)) /\ Range(Tail(jobs)) \subseteq Range(jobs)
       /\ Onward(p, Tail(jobs))
  BY <1>1 DEF JobStep, Onward
<1>15. ASSUME NEW e, Job("turns", e) \in Range(jobs) PROVE Job("turns", e) \in Range(jobs')
  <2>1. Job("turns", e).kind = "turns"
    BY DEF Job
  <2>2. QED BY <1>1, <1>15, <2>1, OthersStay
<1>16. WaitingOnce'
  BY <1>1, <1>2, <1>11, WaitingFrame DEF CallsInv
<1>17. WaitersStart' /\ \A e : AwaitsStart(e)' => AwaitsStart(e)
  <2>1. \A e \in Deliveries : AwaitsStart(e) =>
          call'[e].phase = call[e].phase /\ call'[e].session = call[e].session
    BY <1>3, <1>13 DEF Others
  <2>2. QED BY <1>1, <1>2, <2>1, WaitersFrame DEF CallsInv
<1>18. PromptsWait'
  <2>1. Once(<<>>) /\ Range(<<>>) = {}
    BY DEF Once, Range
  <2>2. ASSUME NEW k \in DOMAIN session, k # i
        PROVE  /\ Once(session'[k].prompts)
               /\ \A d \in Range(session'[k].prompts) : call'[d].phase = "prompts" /\ call'[d].session = k
    <3>1. session'[k] = session[k]
      BY <1>10, <2>2
    <3>2. session[k].prompts \in Seq(Deliveries)
      BY <1>2, Types DEF SessionType
    <3>3. Range(session[k].prompts) \subseteq Deliveries
      BY <3>2, RangeIn
    <3>4. \A d \in Range(session[k].prompts) : call[d].phase = "prompts" /\ call[d].session = k
      BY <1>2 DEF CallsInv, PromptsWait
    <3>5. \A d \in Range(session[k].prompts) : call'[d] = call[d]
      BY <1>3, <1>6, <2>2, <3>3, <3>4 DEF Others
    <3>6. QED BY <1>2, <3>1, <3>4, <3>5 DEF CallsInv, PromptsWait
  <2>3. QED BY <1>9, <1>10, <2>1, <2>2 DEF PromptsWait
<1>19. ListsWait'
  <2>1. \A d \in Range(t) : d \in Deliveries /\ call'[d].rest = <<>>
    BY <1>7, <1>8, <1>13
  <2>2. \A e \in Deliveries \ {f} : call'[e].rest = call[e].rest
    BY <1>3, <1>7, <1>8 DEF Others
  <2>3. \A e \in Deliveries : \A d \in Range(call[e].rest) :
          call[d].phase = "listed" /\ call[d].session # 0 /\ d \in Deliveries
    <3>1. \A e \in Deliveries : Range(call[e].rest) \subseteq Deliveries
      BY <1>2, Types, RangeIn
    <3>2. QED BY <1>2, <3>1 DEF CallsInv, ListsWait
  <2>4. \A e \in Deliveries : Range(call[e].rest) \cap Range(t) = {}
    BY <1>6, <1>7, <2>3
  <2>5. Range(<<>>) = {}
    BY DEF Range
  <2>6. ASSUME NEW e \in Deliveries
        PROVE  /\ Once(call'[e].rest)
               /\ \A d \in Range(call'[e].rest) : call'[d].phase = "listed" /\ call'[d].session # 0
               /\ call'[e].rest # <<>> => call'[e].phase = "images" \/ Job("turns", e) \in Range(jobs')
    <3>1. CASE e = f
      BY <1>7, <1>8, <1>12, <3>1
    <3>2. CASE e # f
      <4>1. call'[e].rest = call[e].rest /\ Once(call[e].rest)
        BY <1>2, <2>2, <3>2 DEF CallsInv, ListsWait
      <4>2. \A d \in Range(call[e].rest) : call'[d].phase = "listed" /\ call'[d].session # 0
        BY <1>11, <2>3 DEF Kept
      <4>3. ASSUME call[e].rest # <<>>
            PROVE  call'[e].phase = "images" \/ Job("turns", e) \in Range(jobs')
        <5>1. call'[e] = call[e]
          BY <1>3, <1>13, <4>3 DEF Others
        <5>2. QED BY <1>2, <1>15, <4>3, <5>1 DEF CallsInv, ListsWait
      <4>4. QED BY <4>1, <4>2, <4>3
    <3>3. QED BY <3>1, <3>2
  <2>7. ASSUME NEW e \in Deliveries, NEW g \in Deliveries \ {e}
        PROVE  Range(call'[e].rest) \cap Range(call'[g].rest) = {}
    <3>1. CASE e = f
      BY <1>8, <2>2, <2>4, <2>7, <3>1
    <3>2. CASE g = f
      BY <1>8, <2>2, <2>4, <2>7, <3>2
    <3>3. CASE e # f /\ g # f
      BY <1>2, <2>2, <2>7, <3>3 DEF CallsInv, ListsWait
    <3>4. QED BY <3>1, <3>2, <3>3
  <2>8. QED BY <2>6, <2>7 DEF ListsWait
<1>20. AskedWait'
  <2>1. ASSUME NEW k \in DOMAIN session', NEW e \in session'[k].asked
        PROVE  /\ k \in DOMAIN session /\ e \in session[k].asked
               /\ call'[e].phase = call[e].phase /\ call'[e].session = call[e].session
    <3>1. k \in DOMAIN session /\ e \in session[k].asked
      BY <1>9, <1>10, <2>1
    <3>2. e \in Deliveries /\ call[e].phase = "asked"
      BY <1>2, <3>1, Types DEF SessionType, CallsInv, AskedWait
    <3>3. QED BY <1>11, <3>1, <3>2 DEF Kept
  <2>2. QED BY <1>2, <2>1, AskedFrame DEF CallsInv
<1>21. Prepared'
  <2>1. ASSUME NEW d \in Deliveries, call'[d].phase \in {"preparing", "images"}
        PROVE  call'[d].session # 0
    <3>1. CASE d \in Range(list)
      BY <1>7, <1>8, <1>12, <3>1
    <3>2. CASE d \notin Range(list)
      BY <1>2, <1>3, <2>1, <3>2 DEF Others, CallsInv, Prepared
    <3>3. QED BY <3>1, <3>2
  <2>2. QED BY <2>1 DEF Prepared
<1>22. CallJobs'
  <2>1. \A j \in Range(Tail(jobs)) : j.kind \in {"give", "deliver", "turns"} /\ j.arg \in Deliveries =>
          call'[j.arg] = call[j.arg]
    <3>1. \A j \in Range(Tail(jobs)) : JobFits(j)
      BY <1>2, <1>14 DEF CallsInv, CallJobs
    <3>2. QED BY <1>3, <1>6, <3>1 DEF JobFits, Others
  <2>2. \A j \in Range(Tail(jobs)) : JobFits(j)'
    BY <1>2, <1>14, <1>17, <2>1, LeftJobs DEF CallsInv
  <2>3. QED BY <1>1, <1>2, <1>14, <2>2, JobsFrame DEF CallsInv, Harmless
<1>23. CallsInv'
  BY <1>16, <1>17, <1>18, <1>19, <1>20, <1>21, <1>22 DEF CallsInv
<1>24. DrainIsComing'
  <2>1. session'[i].children > 0
    BY <1>1, <1>9, <1>10
  <2>2. TurnIsComing'
    BY <1>7, <1>8, <2>1 DEF TurnIsComing
  <2>3. QED BY <2>2 DEF DrainIsComing
<1>25. QED BY <1>4, <1>23, <1>24 DEF Inv

\* drainPendingPrompts keeps the invariant.
LEMMA SpliceKeeps ==
  ASSUME Bounds, Inv, Splice
  PROVE  Inv'
<1>1. PICK i, list, p : SpliceOf(i, list, p) /\ i = Head(jobs).arg
  BY SpliceFits
<1>2. list = session[i].prompts
  BY <1>1 DEF SpliceOf
<1>3. list \in Seq(Deliveries)
  BY <1>1, SplicedFits DEF Inv
<1>4. CASE list = <<>>
  <2>1. call' = call
    BY <1>1, <1>2, <1>4 DEF Splice, Arg
  <2>2. SpliceOf(i, <<>>, p)
    BY <1>1, <1>4
  <2>3. QED BY <2>1, <2>2, SpliceNothingKeeps
<1>5. CASE list # <<>>
  <2>1. SplicedCalls(i, list)
    BY <1>1, <1>3, <1>5, SpliceCalls
  <2>2. QED BY <1>1, <1>3, <1>5, <2>1, SpliceSomeKeeps
<1>6. QED BY <1>4, <1>5

\* The next of a list is to become a turn: f, of the list that d had, with t behind it.
TurnOf(d, f, t) ==
  /\ d \in Deliveries /\ f \in Deliveries /\ t \in Seq(Deliveries) /\ d # f
  /\ call[d].phase \in {"asked", "dropped"} /\ call[f].phase = "listed" /\ call[f].session # 0
  /\ call[f].rest = <<>> /\ Once(t)
  /\ Range(call[d].rest) = {f} \cup Range(t) /\ f \notin Range(t)
  /\ call'[d].phase = call[d].phase /\ call'[d].session = call[d].session /\ call'[d].rest = <<>>
  /\ call'[f].phase = "images" /\ call'[f].session = call[f].session /\ call'[f].rest = t
  /\ Others({d, f}) /\ call' \in Calls(Len(session))
  /\ Head(jobs).kind = "turns" /\ Head(jobs).arg = d /\ jobs # <<>>

\* The job takes the next prompt of a list.
LEMMA TurnsFits ==
  ASSUME Bounds, Inv, Turns
  PROVE  \E d, f, t : TurnOf(d, f, t)
<1>1. Typed /\ CallsInv /\ jobs # <<>> /\ Head(jobs).kind = "turns"
  BY DEF Inv, Turns, Doing
<1>2. jobs \in Seq(Jobs) /\ Head(jobs) \in Range(jobs)
  BY <1>1, Types, TailRange
<1>3. PICK d : d = Head(jobs).arg
  OBVIOUS
<1>4. d \in Deliveries /\ call[d].phase \in {"asked", "dropped"} /\ call[d].rest # <<>>
  BY <1>1, <1>2, <1>3 DEF CallsInv, CallJobs, JobFits
<1>5. PICK w : w = call[d].rest
  OBVIOUS
<1>6. w \in Seq(Deliveries) /\ w # <<>> /\ Once(w)
  BY <1>1, <1>4, <1>5, Types DEF CallsInv, ListsWait
<1>7. PICK f, t : f = Head(w) /\ t = Tail(w)
  OBVIOUS
<1>8. /\ t \in Seq(Deliveries) /\ f \in Deliveries /\ Range(w) = {f} \cup Range(t)
      /\ f \notin Range(t) /\ f = w[1] /\ Once(t)
  BY <1>6, <1>7, TailRange, OnceShorter
<1>9. call[f].phase = "listed" /\ call[f].session # 0
  BY <1>1, <1>4, <1>5, <1>8 DEF CallsInv, ListsWait
<1>10. d # f
  BY <1>4, <1>9
<1>11. call[f].rest = <<>>
  BY <1>1, <1>8, <1>9, FreeOnes
<1>12. PICK c, b, n : c = call[d] /\ b = call[f] /\ n = Len(session)
  OBVIOUS
<1>13. call \in [Deliveries -> Call(n)]
  BY <1>1, <1>12, Types DEF Calls, Call
<1>14. PICK x, y : /\ x = [c EXCEPT !.rest = <<>>]
                   /\ y = [b EXCEPT !.phase = "images", !.rest = t]
  OBVIOUS
<1>15. call' = [call EXCEPT ![d].rest = <<>>,
                            ![f] = [@ EXCEPT !.phase = "images", !.rest = t]]
  BY <1>3, <1>5, <1>7, <1>8 DEF Turns, Arg
<1>16. call' = [call EXCEPT ![d] = x, ![f] = y]
  BY <1>4, <1>8, <1>10, <1>12, <1>13, <1>14, <1>15
<1>17. /\ x.phase = c.phase /\ x.session = c.session /\ x.rest = <<>> /\ x \in Call(n)
  <2>1. c \in Call(n) /\ <<>> \in Seq(Deliveries)
    BY <1>4, <1>12, <1>13
  <2>2. QED BY <1>14, <2>1 DEF Call
<1>18. /\ y.phase = "images" /\ y.session = b.session /\ y.rest = t /\ y \in Call(n)
  <2>1. b \in Call(n)
    BY <1>8, <1>12, <1>13
  <2>2. QED BY <1>8, <1>14, <2>1 DEF Call, Phases
<1>19. /\ call'[d] = x /\ call'[f] = y /\ Others({d, f}) /\ call' \in [Deliveries -> Call(n)]
  BY <1>4, <1>8, <1>10, <1>13, <1>16, <1>17, <1>18 DEF Others
<1>20. call' \in Calls(Len(session))
  BY <1>12, <1>19 DEF Calls, Call
<1>21. TurnOf(d, f, t)
  BY <1>1, <1>3, <1>4, <1>5, <1>8, <1>9, <1>10, <1>11, <1>12, <1>17, <1>18, <1>19, <1>20 DEF TurnOf
<1>22. QED BY <1>21

\* The next turn of a list keeps the invariant.
LEMMA TurnsKeeps ==
  ASSUME Bounds, Inv, Turns
  PROVE  Inv'
<1>1. /\ lane' = lane /\ waiting' = waiting /\ drain' = drain /\ starting' = starting
      /\ session' = session /\ starts' = starts /\ startQueue' = startQueue /\ active' = active
      /\ lastStart' = lastStart /\ paced' = paced /\ upgrade' = upgrade /\ trouble' = trouble
      /\ jobs' = Tail(jobs)
  BY DEF Turns, waits, sessions, starting
<1>2. Typed /\ StartsInv /\ CallsInv /\ SessionsFit /\ DrainIsComing
  BY DEF Inv
<1>3. PICK d, f, t : TurnOf(d, f, t)
  BY TurnsFits
<1>4. /\ d \in Deliveries /\ f \in Deliveries /\ t \in Seq(Deliveries) /\ d # f
      /\ call[d].phase \in {"asked", "dropped"} /\ call[f].phase = "listed" /\ call[f].session # 0
      /\ call[f].rest = <<>> /\ Once(t)
      /\ Range(call[d].rest) = {f} \cup Range(t) /\ f \notin Range(t)
  BY <1>3 DEF TurnOf
<1>5. /\ call'[d].phase = call[d].phase /\ call'[d].session = call[d].session /\ call'[d].rest = <<>>
      /\ call'[f].phase = "images" /\ call'[f].session = call[f].session /\ call'[f].rest = t
      /\ \A e \in Deliveries \ {d, f} : call'[e] = call[e]
      /\ call' \in Calls(Len(session))
      /\ Head(jobs).kind = "turns" /\ Head(jobs).arg = d /\ jobs # <<>>
  BY <1>3 DEF TurnOf, Others
<1>6. PICK p : p = <<>>
  OBVIOUS
<1>7. JobStep(p) /\ Harmless(p) /\ Range(p) = {}
  BY <1>1, <1>2, <1>5, <1>6, Types, JobDone, NoJobs
<1>8. /\ Range(jobs') = Range(p) \cup Range(Tail(jobs)) /\ Range(Tail(jobs)) \subseteq Range(jobs)
      /\ jobs' \in Seq(Jobs) /\ Onward(p, Tail(jobs)) /\ Taken(jobs, Tail(jobs))
  BY <1>7 DEF JobStep, Onward, Joined
<1>9. Typed'
  BY <1>1, <1>2, <1>5, <1>8, Types, TypedBefore, TypedAfter
<1>10. StartsInv'
  <2>1. JobsKept(p, Tail(jobs))
    BY <1>5, <1>7, JobKept DEF Harmless
  <2>2. QED BY <1>1, <1>2, <2>1, SameStarting
<1>11. Kept("waiting") /\ Kept("prompts") /\ Kept("asked") /\ Kept("starting")
  BY <1>4, <1>5 DEF Kept
<1>12. \A k \in Range(Tail(jobs)) :
         /\ k \in Range(jobs)
         /\ k.kind \in {"give", "deliver", "turns"} /\ k.arg \in Deliveries =>
              k.arg \notin {d, f} /\ call'[k.arg] = call[k.arg]
  <2>1. ASSUME NEW k \in Range(Tail(jobs)), k.kind \in {"give", "deliver", "turns"},
               k.arg \in Deliveries
        PROVE  k.arg \notin {d, f}
    <3>1. JobFits(k)
      BY <1>2, <1>8 DEF CallsInv, CallJobs
    <3>2. k.kind = "turns" => k.arg # d
      <4>1. ~Clash(Head(jobs), k)
        BY <1>2, <1>8 DEF Taken, CallsInv, CallJobs
      <4>2. QED BY <1>5, <4>1 DEF Clash
    <3>3. QED BY <1>4, <2>1, <3>1, <3>2 DEF JobFits
  <2>2. QED BY <1>5, <1>8, <2>1
<1>13. WaitingOnce'
  BY <1>1, <1>2, <1>11, WaitingFrame DEF CallsInv
<1>14. WaitersStart' /\ \A e : AwaitsStart(e)' => AwaitsStart(e)
  <2>1. ~AwaitsStart(f) /\ ~AwaitsStart(d)
    BY <1>2, <1>4, FreeOnes
  <2>2. \A e \in Deliveries : AwaitsStart(e) =>
          call'[e].phase = call[e].phase /\ call'[e].session = call[e].session
    BY <1>5, <2>1
  <2>3. QED BY <1>1, <1>2, <2>2, WaitersFrame DEF CallsInv
<1>15. PromptsWait'
  BY <1>1, <1>2, <1>11, PromptsFrame DEF CallsInv
<1>16. ListsWait'
  <2>1. \A e \in Deliveries : \A x \in Range(call[e].rest) :
          call[x].phase = "listed" /\ call[x].session # 0 /\ x \in Deliveries
    <3>1. \A e \in Deliveries : Range(call[e].rest) \subseteq Deliveries
      BY <1>2, Types, RangeIn
    <3>2. QED BY <1>2, <3>1 DEF CallsInv, ListsWait
  <2>2. \A e \in Deliveries \ {d} : Range(call[e].rest) \cap ({f} \cup Range(t)) = {}
    BY <1>2, <1>4 DEF CallsInv, ListsWait
  <2>3. \A x \in Range(t) : call'[x].phase = "listed" /\ call'[x].session # 0
    BY <1>4, <1>5, <2>1
  <2>4. \A e \in Deliveries \ {d} : \A x \in Range(call[e].rest) :
          call'[x].phase = "listed" /\ call'[x].session # 0
    BY <1>4, <1>5, <2>1, <2>2
  <2>5. Range(<<>>) = {} /\ Once(<<>>)
    BY DEF Range, Once
  <2>6. ASSUME NEW e \in Deliveries
        PROVE  /\ Once(call'[e].rest)
               /\ \A x \in Range(call'[e].rest) : call'[x].phase = "listed" /\ call'[x].session # 0
               /\ call'[e].rest # <<>> => call'[e].phase = "images" \/ Job("turns", e) \in Range(jobs')
    <3>1. CASE e = d
      BY <1>5, <2>5, <3>1
    <3>2. CASE e = f
      BY <1>4, <1>5, <2>3, <3>2
    <3>3. CASE e \notin {d, f}
      <4>1. call'[e] = call[e]
        BY <1>5, <3>3
      <4>2. Job("turns", e) \in Range(jobs) => Job("turns", e) \in Range(jobs')
        <5>1. Job("turns", e).arg = e
          BY DEF Job
        <5>2. QED BY <1>5, <1>7, <3>3, <5>1, OthersStay
      <4>3. QED BY <1>2, <2>4, <3>3, <4>1, <4>2 DEF CallsInv, ListsWait
    <3>4. QED BY <3>1, <3>2, <3>3
  <2>7. ASSUME NEW e \in Deliveries, NEW g \in Deliveries \ {e}
        PROVE  Range(call'[e].rest) \cap Range(call'[g].rest) = {}
    <3>1. CASE e = d \/ g = d
      BY <1>5, <2>5, <3>1
    <3>2. CASE e = f /\ g # d
      BY <1>5, <2>2, <2>7, <3>2
    <3>3. CASE g = f /\ e # d
      BY <1>5, <2>2, <2>7, <3>3
    <3>4. CASE e \notin {d, f} /\ g \notin {d, f}
      BY <1>2, <1>5, <2>7, <3>4 DEF CallsInv, ListsWait
    <3>5. QED BY <3>1, <3>2, <3>3, <3>4
  <2>8. QED BY <2>6, <2>7 DEF ListsWait
<1>17. AskedWait'
  <2>1. ASSUME NEW k \in DOMAIN session', NEW e \in session'[k].asked
        PROVE  /\ k \in DOMAIN session /\ e \in session[k].asked
               /\ call'[e].phase = call[e].phase /\ call'[e].session = call[e].session
    <3>1. k \in DOMAIN session /\ e \in session[k].asked
      BY <1>1, <2>1
    <3>2. e \in Deliveries /\ call[e].phase = "asked"
      BY <1>2, <3>1, Types DEF SessionType, CallsInv, AskedWait
    <3>3. QED BY <1>11, <3>1, <3>2 DEF Kept
  <2>2. QED BY <1>2, <2>1, AskedFrame DEF CallsInv
<1>18. Prepared'
  BY <1>2, <1>4, <1>5 DEF CallsInv, Prepared
<1>19. CallJobs'
  <2>1. \A j \in Range(Tail(jobs)) : JobFits(j)'
    BY <1>2, <1>8, <1>12, <1>14, LeftJobs DEF CallsInv
  <2>2. QED BY <1>2, <1>7, <1>8, <2>1, JobsFrame DEF CallsInv, Harmless
<1>20. CallsInv'
  BY <1>13, <1>14, <1>15, <1>16, <1>17, <1>18, <1>19 DEF CallsInv
<1>21. SessionsFit' /\ ActiveLanes' = ActiveLanes
  BY <1>1, <1>2, <1>7, <1>8, SameSessions
<1>22. DrainIsComing'
  <2>1. \A k \in Range(jobs) : k.kind = "drain" => k \in Range(jobs')
    BY <1>5, <1>7, OthersStay
  <2>2. \A e \in Deliveries : call[e].phase \in {"images", "lost"} => call'[e] = call[e]
    BY <1>4, <1>5
  <2>3. Comes => Comes'
    BY <1>1, <1>2, <2>1, <2>2, ComesKept
  <2>4. QED BY <1>1, <1>2, <1>21, <2>3, DrainFrame
<1>23. QED BY <1>9, <1>10, <1>20, <1>21, <1>22 DEF Inv

\* What the daemon does of itself about an upgrade, and what asks for one.
LEMMA UpgradeKeeps ==
  ASSUME Inv,
         HandleDaemonUpgrade \/ HandoffWritten \/ UpgradeIdleTimer \/ StartUpgradeWorker
  PROVE  Inv'
<1>1. UNCHANGED <<call, sessions, waits, starting, jobs, trouble>>
  BY DEF HandleDaemonUpgrade, HandoffWritten, UpgradeIdleTimer, StartUpgradeWorker
<1>2. upgrade' \in {"none", "asked", "pending", "starting", "worker", "refused"}
  BY DEF HandleDaemonUpgrade, HandoffWritten, UpgradeIdleTimer, StartUpgradeWorker
<1>3. QED BY <1>1, <1>2, QuietKeeps

-----------------------------------------------------------------------------
(* The theorems.                                                           *)

\* Every step keeps the invariant.
LEMMA NextKeeps ==
  ASSUME Bounds, Inv, [DaemonNext]_daemonVars
  PROVE  Inv'
<1>1. CASE Frame
  <2>1. ASSUME NEW d \in Deliveries, Deliver(d) PROVE Inv'
    BY <2>1, DeliverKeeps
  <2>2. ASSUME NEW l \in Lanes, HandleAgentStart(l) PROVE Inv'
    BY <2>2, HandleAgentStartKeeps
  <2>3. ASSUME NEW a \in Agents, HandleAgentStop(a) PROVE Inv'
    BY <2>3, HandleAgentStopKeeps
  <2>4. ASSUME NEW l \in Lanes, HandleAgentRestart(l) PROVE Inv'
    BY <2>4, HandleAgentRestartKeeps
  <2>5. CASE HandleDaemonUpgrade
    BY <2>5, UpgradeKeeps
  <2>6. QED BY <1>1, <2>1, <2>2, <2>3, <2>4, <2>5 DEF Frame
<1>2. CASE RunJob
  <2>1. CASE Give
    BY <2>1, GiveKeeps
  <2>2. CASE DeliverTo
    BY <2>2, DeliverToKeeps
  <2>3. CASE Pump
    BY <2>3, PumpKeeps
  <2>4. CASE StartSettled
    BY <2>4, SettledKeeps
  <2>5. CASE Finally
    BY <2>5, FinallyKeeps
  <2>6. CASE DrainPendingSessionDeliveries \/ DrainGoesOn
    BY <2>6, DrainKeeps
  <2>7. CASE MaybeStartPendingUpgrade
    BY <2>7, MaybeStartPendingUpgradeKeeps
  <2>8. CASE Splice
    BY <2>8, SpliceKeeps
  <2>9. CASE Turns
    BY <2>9, TurnsKeeps
  <2>10. QED BY <1>2, <2>1, <2>2, <2>3, <2>4, <2>5, <2>6, <2>7, <2>8, <2>9 DEF RunJob
<1>3. CASE Daemon
  <2>1. ASSUME NEW d \in Deliveries, Accepted(d) PROVE Inv'
    BY <2>1, AcceptedKeeps
  <2>2. ASSUME NEW d \in Deliveries, PrepareDone(d) PROVE Inv'
    BY <2>2, PrepareDoneKeeps
  <2>3. ASSUME NEW d \in Deliveries, StartTurn(d) PROVE Inv'
    BY <2>3, StartTurnAskedKeeps, StartTurnDroppedKeeps
  <2>4. ASSUME NEW a \in Agents, StartDone(a) PROVE Inv'
    BY <2>4, StartDoneKeeps
  <2>5. CASE PaceTimer
    BY <2>5, PaceTimerKeeps
  <2>6. CASE HandoffWritten \/ UpgradeIdleTimer \/ StartUpgradeWorker
    BY <2>6, UpgradeKeeps
  <2>7. QED BY <1>3, <2>1, <2>2, <2>3, <2>4, <2>5, <2>6 DEF Daemon
<1>4. CASE Runtime
  <2>1. ASSUME NEW i \in DOMAIN session, ThreadReady(i) PROVE Inv'
    BY <2>1, ThreadReadyKeeps
  <2>2. ASSUME NEW i \in DOMAIN session, TurnEnds(i) PROVE Inv'
    BY <2>2, TurnEndsKeeps
  <2>3. ASSUME NEW i \in DOMAIN session, NEW d \in Deliveries, TurnTaken(i, d) PROVE Inv'
    BY <2>3, TurnTakenKeeps
  <2>4. QED BY <1>4, <2>1, <2>2, <2>3 DEF Runtime
<1>5. CASE Fault
  <2>1. ASSUME NEW a \in Agents, StartFails(a) PROVE Inv'
    BY <2>1, StartFailsKeeps
  <2>2. ASSUME NEW d \in Deliveries, PrepareFails(d) PROVE Inv'
    BY <2>2, PrepareFailsKeeps
  <2>3. ASSUME NEW i \in DOMAIN session, Exit(i) PROVE Inv'
    BY <2>3, ExitKeeps
  <2>4. QED BY <1>5, <2>1, <2>2, <2>3 DEF Fault
<1>6. CASE UNCHANGED daemonVars
  <2>1. UNCHANGED <<call, sessions, waits, starting, jobs, trouble>> /\ upgrade' = upgrade
    BY <1>6 DEF daemonVars
  <2>2. upgrade \in {"none", "asked", "pending", "starting", "worker", "refused"}
    BY TypedBefore DEF Inv
  <2>3. QED BY <2>1, <2>2, QuietKeeps
<1>7. QED BY <1>1, <1>2, <1>3, <1>4, <1>5, <1>6 DEF DaemonNext

\* The invariant of the proof.
THEOREM InvHolds ==
  ASSUME Bounds
  PROVE  DaemonSpec => []Inv
<1>1. DaemonInit => Inv
  BY InitInv
<1>2. Inv /\ [DaemonNext]_daemonVars => Inv'
  BY NextKeeps
<1>3. QED BY <1>1, <1>2, PTL DEF DaemonSpec

\* DaemonTypeOK: the daemon's queues, counters and sessions stay what they are; above all
\* the count of starts stays between none and the limit, though it goes up in the pump
\* and down in the finally of a promise.
THEOREM TypeCorrect ==
  ASSUME Bounds
  PROVE  DaemonSpec => []DaemonTypeOK
<1>1. Inv => DaemonTypeOK
  BY DEF Inv, Typed
<1>2. QED BY <1>1, InvHolds, PTL

\* NoLostWakeup: whenever the daemon has nothing to do at once, a start that is queued
\* has a timer or a start that runs to wake the queue, and a delivery that waits and
\* has a slot has a drain, or a change of status, to come.
THEOREM WakeupsKept ==
  ASSUME Bounds
  PROVE  DaemonSpec => []NoLostWakeup
<1>1. Inv => NoLostWakeup
  <2>1. ASSUME Inv, jobs = <<>>, Usable # {}
        PROVE  \/ drain.on
               \/ \E d \in Deliveries : call[d].phase \in {"images", "lost"}
               \/ \E i \in DOMAIN session : session[i].status = "stopping"
    <3>1. Range(jobs) = {}
      BY <2>1, NoJobs
    <3>2. DrainIsComing
      BY <2>1 DEF Inv
    <3>3. QED BY <2>1, <3>1, <3>2 DEF DrainIsComing, TurnIsComing
  <2>2. ASSUME Inv, jobs = <<>>, startQueue # <<>> PROVE paced \/ active > 0
    <3>1. Range(jobs) = {}
      BY <2>2, NoJobs
    <3>2. PumpIsComing
      BY <2>2 DEF Inv, StartsInv
    <3>3. QED BY <2>2, <3>1, <3>2 DEF PumpIsComing
  <2>3. QED BY <2>1, <2>2 DEF NoLostWakeup, NoLostSlot, StartsGoOn
<1>2. QED BY <1>1, InvHolds, PTL

\* Never more starts run at once than the limit allows, and an agent waits in the
\* queue at most once, exactly while its start is queued.
THEOREM StartsBounded ==
  ASSUME Bounds
  PROVE  DaemonSpec => [](Cardinality(Running) <= MaxStarts /\ QueueIsQueued)
<1>1. Inv => Cardinality(Running) <= MaxStarts /\ QueueIsQueued
  <2>1. SUFFICES ASSUME Inv PROVE Cardinality(Running) <= MaxStarts
    BY DEF Inv, StartsInv
  <2>2. Typed /\ StartsInv
    BY <2>1 DEF Inv
  <2>3. /\ active = Cardinality(Running) + Cardinality(Finishing(jobs))
        /\ Cardinality(Running) \in Nat /\ Cardinality(Finishing(jobs)) \in Nat
    BY <2>2, StartsFacts
  <2>4. active \in 0 .. MaxStarts /\ MaxStarts \in Nat
    BY <2>2, TypedBefore DEF Bounds
  <2>5. QED BY <2>3, <2>4
<1>2. QED BY <1>1, InvHolds, PTL

\* A delivery is in one place: it waits for a slot, for a start, in the prompts of one
\* session, in one list of prompts or for the answer of one runtime, there once, and no
\* two jobs go on with it.
THEOREM OnePlace ==
  ASSUME Bounds
  PROVE  DaemonSpec => []CallsInv
<1>1. Inv => CallsInv
  BY DEF Inv
<1>2. QED BY <1>1, InvHolds, PTL
=============================================================================
