------------------------- MODULE NotifyOwner_proofs -------------------------
(***************************************************************************)
(* Theorems about NotifyOwner, for any requests and any number of hitches: *)
(* the owner's word decides what is in the group, unless a call put an     *)
(* older copy of a record back.                                            *)
(*                                                                         *)
(* Calls write whole records they read before an await.  The argument is   *)
(* that every copy a call holds is a version of the record as it is now:   *)
(* for a request nobody has undone it says the same, or "pending".         *)
(***************************************************************************)
EXTENDS NotifyOwner, FiniteSetTheorems, SequenceTheorems, TLAPS

\* There are finitely many requests, of any number; nothing is assumed of MaxHitches.
Bounds == IsFiniteSet(Requests)

Prompt == {"none", "dispatching", "sent", "failed"}
Intents == {"none", "sending", "sent_unconfirmed", "done", "failed"}
Asking == [at : {"new", "locked", "prepared", "lost"}, grant : Grants]
Posting == [at : {"none", "begin", "sending", "sent", "finished"}, of : Nat]
Deciding == [at : {"idle", "delivering", "reported"}, record : Records \cup {<<>>},
             left : Seq(Requests), answers : SUBSET Requests]
Copying == [at : {"idle", "called", "read", "sending"}, copy : Seq(Records)]
Sweeping == [at : {"idle", "read", "reported"}, copy : Seq(Records)]

Typed ==
  /\ confirmations \in Seq(Records)
  /\ grant \in Grants /\ intents \in [Requests -> Intents]
  /\ overdue \subseteq DOMAIN confirmations
  /\ posted \subseteq Requests /\ refused \subseteq Requests
  /\ request \in [Requests -> Asking] /\ delivery \in [Requests -> Posting]
  /\ deciding \in [Numbers -> Deciding] /\ prompting \in [Numbers -> Copying]
  /\ expiring \in Sweeping /\ host \in {"up", "recovering"}
  /\ approved \subseteq Requests /\ undone \subseteq Requests /\ dropped \subseteq approved
  /\ hitches \in Nat

(***************************************************************************)
(* The inductive invariant.                                                *)
(***************************************************************************)

\* Every confirmation was made for a request that has been prepared.
Asked == {r \in Requests : request[r].at = "prepared"}
Counted == Len(confirmations) <= Cardinality(Asked)

\* What a record lets through.
Lets(record) == ToSet(Allowed(record.status, record.ids))

\* The record x, of confirmation c, is a version of what is there now: the first
\* request is the same, only what was approved is let through, and a request that
\* is not undone is still there, decided the same or not yet.
VersionOf(now, late, gone, let, c, x) ==
  /\ c \in DOMAIN now
  /\ x.ids # <<>> /\ x.ids[1] = now[c].ids[1]
  /\ Lets(x) \subseteq let
  /\ \A r \in Ids(x) \ gone :
       /\ r \in Ids(now[c])
       /\ \/ x.status \in {"pending", now[c].status}
          \/ x.status = "expired" /\ now[c].status = "pending" /\ c \in late

Version(c, x) == VersionOf(confirmations, overdue, undone, approved, c, x)
Versions(copy) == \A c \in DOMAIN copy : Version(c, copy[c])

\* Every copy a call holds, and what is there, is such a version.
Copies ==
  /\ Versions(confirmations) /\ Versions(expiring.copy)
  /\ \A c \in Numbers : Versions(prompting[c].copy)
  /\ \A c \in Numbers :
       /\ prompting[c].at = "called" => c \in DOMAIN confirmations
       /\ prompting[c].at \in {"read", "sending"} => c \in DOMAIN prompting[c].copy

\* A decision under way has a record that is decided, and posts what it lets through.
Decisive ==
  \A c \in Numbers :
    IF deciding[c].at = "idle" THEN deciding[c].left = <<>>
    ELSE /\ deciding[c].record \in Records /\ deciding[c].record.status # "pending"
         /\ Version(c, deciding[c].record)
         /\ deciding[c].answers \subseteq Ids(deciding[c].record)
         /\ ToSet(deciding[c].left) \subseteq approved

\* What a request that is not undone has been told, is in its only record.
RecordedIn(now, asked, late, gone, let, told) ==
  /\ \A c \in DOMAIN now : Ids(now[c]) \subseteq asked \cup gone
  /\ \A c, d \in DOMAIN now : c # d => Ids(now[c]) \cap Ids(now[d]) \subseteq gone
  /\ \A c \in DOMAIN now : Ids(now[c]) \cap let \subseteq Lets(now[c]) \cup gone
  /\ \A r \in told \ gone :
       \E c \in DOMAIN now :
         /\ r \in Ids(now[c]) \ Lets(now[c])
         /\ now[c].status = "pending" => c \in late

Recorded ==
  /\ approved \subseteq Asked /\ undone \subseteq Asked
  /\ RecordedIn(confirmations, Asked, overdue, undone, approved, refused)

\* Only what was let through is posted, and what says it is sent is there.
Posts ==
  /\ posted \subseteq approved
  /\ \A r \in Requests :
       /\ delivery[r].at # "none" => r \in approved
       /\ intents[r] # "none" => r \in approved
       /\ intents[r] \in {"sent_unconfirmed", "done"} => r \in posted
       /\ delivery[r].at = "sent" => r \in posted

Inv == Typed /\ Counted /\ Copies /\ Decisive /\ Recorded /\ Posts

(***************************************************************************)
(* Sequences of requests.                                                  *)
(***************************************************************************)

\* A request more in a record: the first stays the first.
LEMMA AppendIs ==
  ASSUME NEW s \in Seq(Requests), NEW r \in Requests
  PROVE  /\ Append(s, r) \in Seq(Requests) /\ Append(s, r) # <<>>
         /\ ToSet(Append(s, r)) = ToSet(s) \cup {r}
         /\ s # <<>> => Append(s, r)[1] = s[1]
<1>1. Append(s, r) \in Seq(Requests) /\ Len(Append(s, r)) = Len(s) + 1 /\ Len(s) \in Nat
  OBVIOUS
<1>7. Append(s, r) # <<>>
  BY <1>1
<1>2. \A i \in 1 .. Len(s) : Append(s, r)[i] = s[i]
  OBVIOUS
<1>3. Append(s, r)[Len(s) + 1] = r /\ Len(s) \in Nat
  OBVIOUS
<1>4. DOMAIN s = 1 .. Len(s) /\ DOMAIN Append(s, r) = 1 .. Len(s) + 1
  OBVIOUS
<1>5. ToSet(Append(s, r)) = ToSet(s) \cup {r}
  BY <1>2, <1>3, <1>4 DEF ToSet
<1>6. s # <<>> => 1 \in 1 .. Len(s)
  OBVIOUS
<1> QED BY <1>1, <1>2, <1>5, <1>6, <1>7

\* The record of the first request.
LEMMA SingleIs ==
  ASSUME NEW r \in Requests
  PROVE  <<r>> \in Seq(Requests) /\ <<r>> # <<>> /\ ToSet(<<r>>) = {r} /\ <<r>>[1] = r
BY DEF ToSet

\* What is posted first, and what is left.
LEMMA TailIs ==
  ASSUME NEW s \in Seq(Requests), s # <<>>
  PROVE  /\ Tail(s) \in Seq(Requests) /\ ToSet(Tail(s)) \subseteq ToSet(s)
         /\ Head(s) \in ToSet(s) /\ Head(s) \in Requests
<1>1. Tail(s) \in Seq(Requests) /\ Len(Tail(s)) = Len(s) - 1 /\ Len(s) \in Nat /\ Len(s) > 0
  OBVIOUS
<1>2. \A i \in 1 .. Len(s) - 1 : Tail(s)[i] = s[i + 1] /\ i + 1 \in 1 .. Len(s)
  OBVIOUS
<1>3. DOMAIN s = 1 .. Len(s) /\ DOMAIN Tail(s) = 1 .. Len(s) - 1
  BY <1>1
<1>4. Head(s) = s[1] /\ 1 \in 1 .. Len(s)
  BY <1>1
<1>5. ToSet(Tail(s)) \subseteq ToSet(s)
  BY <1>2, <1>3 DEF ToSet
<1>6. Head(s) \in ToSet(s)
  BY <1>3, <1>4 DEF ToSet
<1>7. s[1] \in Requests
  BY <1>4
<1> QED BY <1>1, <1>4, <1>5, <1>6, <1>7

\* The requests of a sequence of them.
LEMMA SetOfRequests ==
  ASSUME NEW s \in Seq(Requests)
  PROVE  ToSet(s) \subseteq Requests
BY DEF ToSet

\* What a decision lets through.
LEMMA AllowedIs ==
  ASSUME NEW s \in Seq(Requests), s # <<>>, NEW d
  PROVE  /\ Allowed(d, s) \in Seq(Requests)
         /\ d = "always" => ToSet(Allowed(d, s)) = ToSet(s)
         /\ d = "once" => ToSet(Allowed(d, s)) = {s[1]}
         /\ d \notin {"always", "once"} => ToSet(Allowed(d, s)) = {}
         /\ s[1] \in ToSet(s)
<1>1. Len(s) \in Nat /\ Len(s) > 0 /\ DOMAIN s = 1 .. Len(s) /\ s[1] \in Requests
  OBVIOUS
<1>2. PICK t : t = SubSeq(s, 1, 1)
  OBVIOUS
<1>9. \A i \in 1 .. 1 : s[i] \in Requests
  BY <1>1
<1>10. t \in Seq(Requests) /\ Len(t) = 1 /\ t[1] = s[1]
  <2>1. PICK k \in Int : k = 1
    OBVIOUS
  <2>2. /\ t \in Seq(Requests) /\ Len(t) = IF k <= k THEN k - k + 1 ELSE 0
        /\ \A i \in 1 .. k - k + 1 : t[i] = s[k + i - 1]
    BY <1>2, <1>9, <2>1, SubSeqProperties
  <2>3. 1 \in 1 .. k - k + 1 /\ k + 1 - 1 = 1 /\ k - k + 1 = 1 /\ k <= k
    BY <2>1
  <2> QED BY <2>2, <2>3
<1>3. DOMAIN t = {1}
  BY <1>10
<1>4. ToSet(t) = {s[1]} /\ s[1] \in ToSet(s)
  BY <1>1, <1>10, <1>3 DEF ToSet
<1>5. PICK e : e = <<>> /\ e \in Seq(Requests)
  BY EmptySeq
<1>6. DOMAIN e = {}
  <2>1. Len(e) = 0
    BY <1>5, EmptySeq
  <2>2. DOMAIN e = 1 .. Len(e)
    OBVIOUS
  <2> QED BY <2>1, <2>2
<1>7. ToSet(e) = {}
  BY <1>6 DEF ToSet
<1> QED BY <1>2, <1>4, <1>5, <1>7, <1>10 DEF Allowed

\* ... and what a record does.
LEMMA LetsIs ==
  ASSUME NEW x \in Records, x.ids # <<>>
  PROVE  /\ x.status = "always" => Lets(x) = Ids(x)
         /\ x.status = "once" => Lets(x) = {x.ids[1]}
         /\ x.status \notin {"always", "once"} => Lets(x) = {}
         /\ x.ids[1] \in Ids(x) /\ Ids(x) \subseteq Requests /\ Lets(x) \subseteq Ids(x)
<1>1. x.ids \in Seq(Requests)
  BY DEF Records
<1>2. x.ids[1] \in ToSet(x.ids) /\ ToSet(x.ids) \subseteq Requests
  BY <1>1, AllowedIs, SetOfRequests
<1> QED BY <1>1, <1>2, AllowedIs DEF Lets, Ids

(***************************************************************************)
(* How records go on.                                                      *)
(***************************************************************************)

\* From now to next: no record goes, none loses its first request, and one that
\* is not undone stays where it is, decided the same, or decided before it was late.
Moves(now, next, late, gone) ==
  /\ DOMAIN now \subseteq DOMAIN next
  /\ \A c \in DOMAIN now : next[c].ids[1] = now[c].ids[1]
  /\ \A c \in DOMAIN now : \A r \in Ids(now[c]) \ gone :
       /\ r \in Ids(next[c])
       /\ \/ next[c].status = now[c].status
          \/ now[c].status = "pending" /\ (c \in late => next[c].status \in {"pending", "expired"})

\* Good records: of the type, and for some request.
Sound(now) == now \in Seq(Records) /\ \A c \in DOMAIN now : now[c].ids # <<>>

\* A copy of a record stays a version of it.
LEMMA VersionKept ==
  ASSUME NEW now, NEW next, NEW late, NEW late2, NEW gone, NEW gone2, NEW let, NEW let2,
         late \subseteq late2, gone \subseteq gone2, let \subseteq let2,
         Moves(now, next, late, gone2), NEW c, NEW x, VersionOf(now, late, gone, let, c, x)
  PROVE  VersionOf(next, late2, gone2, let2, c, x)
<1>1. c \in DOMAIN next /\ x.ids # <<>> /\ x.ids[1] = next[c].ids[1] /\ Lets(x) \subseteq let2
  BY DEF Moves, VersionOf
<1>2. ASSUME NEW r \in Ids(x) \ gone2
      PROVE  /\ r \in Ids(next[c])
             /\ \/ x.status \in {"pending", next[c].status}
                \/ x.status = "expired" /\ next[c].status = "pending" /\ c \in late2
  <2>1. /\ c \in DOMAIN now /\ r \in Ids(now[c])
        /\ \/ x.status \in {"pending", now[c].status}
           \/ x.status = "expired" /\ now[c].status = "pending" /\ c \in late
    BY <1>2 DEF VersionOf
  <2>2. /\ r \in Ids(next[c])
        /\ \/ next[c].status = now[c].status
           \/ now[c].status = "pending" /\ (c \in late => next[c].status \in {"pending", "expired"})
    BY <1>2, <2>1 DEF Moves
  <2> QED BY <2>1, <2>2
<1> QED BY <1>1, <1>2 DEF VersionOf

\* A record that is there is a version of itself.
LEMMA VersionOfItself ==
  ASSUME NEW now, NEW late, NEW gone, NEW let, NEW c \in DOMAIN now,
         now[c].ids # <<>>, Lets(now[c]) \subseteq let
  PROVE  VersionOf(now, late, gone, let, c, now[c])
BY DEF VersionOf

\* What is there when a copy of all records is written, and who is undone by it.
Written(now, copy) == [c \in DOMAIN now |-> IF c \in DOMAIN copy THEN copy[c] ELSE now[c]]
UndoneIn(now, copy) ==
  UNION {Ids(now[c]) : c \in {i \in DOMAIN copy : \/ now[i].status \notin {"pending", copy[i].status}
                                                  \/ ~ Ids(now[i]) \subseteq Ids(copy[i])}}

\* Writing a copy of all records, each a version of what is there.
Writes(now, copy, next, late, gone, gone2, let) ==
  /\ Sound(now) /\ \A c \in DOMAIN now : Lets(now[c]) \subseteq let
  /\ copy \in Seq(Records) /\ \A c \in DOMAIN copy : VersionOf(now, late, gone, let, c, copy[c])
  /\ next = Written(now, copy) /\ gone2 = gone \cup UndoneIn(now, copy)

\* ... moves the records on.
LEMMA WriteMoves ==
  ASSUME NEW now, NEW copy, NEW next, NEW late, NEW gone, NEW gone2, NEW let,
         Writes(now, copy, next, late, gone, gone2, let)
  PROVE  /\ Sound(next) /\ DOMAIN next = DOMAIN now /\ Len(next) = Len(now)
         /\ Moves(now, next, late, gone2)
         /\ \A c \in DOMAIN next : Ids(next[c]) \ gone2 \subseteq Ids(now[c])
         /\ \A c \in DOMAIN next : Lets(next[c]) \subseteq let
<1> USE DEF Writes
<1> DEFINE changed == {i \in DOMAIN copy : \/ now[i].status \notin {"pending", copy[i].status}
                                           \/ ~ Ids(now[i]) \subseteq Ids(copy[i])}
<1>1. now \in Seq(Records) /\ \A c \in DOMAIN now : now[c].ids # <<>> /\ now[c] \in Records
  BY DEF Sound
<1>2. Len(now) \in Nat /\ DOMAIN now = 1 .. Len(now) /\ \A c \in DOMAIN copy : copy[c] \in Records
  BY <1>1
<1>3. \A c \in DOMAIN copy : c \in DOMAIN now
  BY DEF VersionOf
<1>4. DOMAIN next = DOMAIN now
  BY DEF Written
<1>5. \A c \in DOMAIN now : next[c] = IF c \in DOMAIN copy THEN copy[c] ELSE now[c]
  BY DEF Written
<1>6. \A c \in DOMAIN now : next[c] \in Records /\ next[c].ids # <<>>
  BY <1>1, <1>2, <1>5 DEF VersionOf
<1>7. next \in Seq(Records) /\ Len(next) = Len(now)
  <2>1. next \in [1 .. Len(now) -> Records]
    BY <1>2, <1>6 DEF Written
  <2>2. \A f \in [1 .. Len(now) -> Records] : f \in Seq(Records) /\ Len(f) = Len(now)
    BY <1>2
  <2> QED BY <2>1, <2>2
<1>8. Sound(next)
  BY <1>4, <1>6, <1>7 DEF Sound
<1>9. \A c \in DOMAIN next : Ids(next[c]) \ gone2 \subseteq Ids(now[c])
  <2> SUFFICES ASSUME NEW c \in DOMAIN now, NEW r \in Ids(next[c]), r \notin gone2
               PROVE  r \in Ids(now[c])
    BY <1>4
  <2>1. r \notin gone
    OBVIOUS
  <2> QED BY <1>5, <2>1 DEF VersionOf
<1>10. \A c \in DOMAIN next : Lets(next[c]) \subseteq let
  BY <1>4, <1>5 DEF VersionOf
<1>11. \A c \in DOMAIN now : next[c].ids[1] = now[c].ids[1]
  BY <1>5 DEF VersionOf
<1>12. ASSUME NEW c \in DOMAIN now, NEW r \in Ids(now[c]) \ gone2
       PROVE  /\ r \in Ids(next[c])
              /\ \/ next[c].status = now[c].status
                 \/ now[c].status = "pending" /\ (c \in late => next[c].status \in {"pending", "expired"})
  <2>1. CASE c \notin DOMAIN copy
    BY <1>5, <1>12, <2>1
  <2>2. CASE c \in DOMAIN copy
    <3>1. c \notin changed
      BY <1>12 DEF UndoneIn
    <3>2. now[c].status \in {"pending", copy[c].status} /\ Ids(now[c]) \subseteq Ids(copy[c])
      BY <2>2, <3>1
    <3>3. next[c] = copy[c] /\ r \in Ids(copy[c]) \ gone
      BY <1>5, <1>12, <2>2, <3>2
    <3>4. \/ copy[c].status \in {"pending", now[c].status}
          \/ copy[c].status = "expired" /\ now[c].status = "pending" /\ c \in late
      BY <2>2, <3>3 DEF VersionOf
    <3> QED BY <3>2, <3>3, <3>4
  <2> QED BY <2>1, <2>2
<1> QED BY <1>4, <1>7, <1>8, <1>9, <1>10, <1>11, <1>12 DEF Moves

\* A request stays let through, or told, as it was.
LEMMA LetsMoves ==
  ASSUME NEW now, NEW next, NEW late, NEW gone, Sound(now), Sound(next),
         Moves(now, next, late, gone), NEW c \in DOMAIN now, NEW r \in Ids(now[c]) \ gone
  PROVE  /\ r \in Lets(now[c]) => r \in Lets(next[c])
         /\ r \notin Lets(now[c]) /\ (now[c].status = "pending" => c \in late)
            => r \notin Lets(next[c])
<1>1. now[c] \in Records /\ next[c] \in Records /\ now[c].ids # <<>> /\ next[c].ids # <<>>
  BY DEF Sound, Moves
<1>2. /\ r \in Ids(next[c]) /\ next[c].ids[1] = now[c].ids[1]
      /\ \/ next[c].status = now[c].status
         \/ now[c].status = "pending" /\ (c \in late => next[c].status \in {"pending", "expired"})
  BY DEF Moves
<1>3. now[c].status \in {"pending", "expired", "once", "always", "rejected"}
  BY <1>1 DEF Records, Decisions
<1> QED BY <1>1, <1>2, <1>3, LetsIs

\* Only requests that were not prepared come to the records, and only to n; only such,
\* or those of a record that lets them through, are approved; and only those of a
\* record that does not are told so.
Goes(now, next, asked, asked2, late, late2, gone, gone2, let, let2, told, told2, n) ==
  /\ Sound(now) /\ Sound(next) /\ Moves(now, next, late, gone2)
  /\ let \subseteq asked /\ asked \subseteq asked2 /\ late \subseteq late2 /\ gone \subseteq gone2
  /\ \A c \in DOMAIN next : \A r \in Ids(next[c]) \ gone2 :
       \/ c \in DOMAIN now /\ r \in Ids(now[c])
       \/ c = n /\ r \in asked2 \ (asked \cup let2)
  /\ \A r \in let2 \ let :
       \/ r \notin asked
       \/ \E c \in DOMAIN now : r \in Ids(now[c]) \cap Lets(next[c])
  /\ \A r \in (told2 \ told) \ gone2 : \E c \in DOMAIN next :
       /\ r \in Ids(next[c]) \ Lets(next[c])
       /\ next[c].status = "pending" => c \in late2

\* ... and then what is recorded stays so.
LEMMA RecordedKept ==
  ASSUME NEW now, NEW next, NEW asked, NEW asked2, NEW late, NEW late2, NEW gone, NEW gone2,
         NEW let, NEW let2, NEW told, NEW told2, NEW n,
         RecordedIn(now, asked, late, gone, let, told),
         Goes(now, next, asked, asked2, late, late2, gone, gone2, let, let2, told, told2, n)
  PROVE  RecordedIn(next, asked2, late2, gone2, let2, told2)
<1> USE DEF Goes
<1>0. \A c \in DOMAIN now : Ids(now[c]) \subseteq asked \cup gone
  BY DEF RecordedIn
<1>1. \A c \in DOMAIN next : Ids(next[c]) \subseteq asked2 \cup gone2
  <2> SUFFICES ASSUME NEW c \in DOMAIN next, NEW r \in Ids(next[c]) \ gone2
               PROVE  r \in asked2
    OBVIOUS
  <2>1. \/ c \in DOMAIN now /\ r \in Ids(now[c])
        \/ c = n /\ r \in asked2 \ (asked \cup let2)
    OBVIOUS
  <2> QED BY <1>0, <2>1
<1>2. ASSUME NEW c \in DOMAIN next, NEW d \in DOMAIN next, c # d,
             NEW r \in Ids(next[c]) \cap Ids(next[d]), r \notin gone2
      PROVE  FALSE
  <2>1. \/ c \in DOMAIN now /\ r \in Ids(now[c])
        \/ c = n /\ r \in asked2 \ (asked \cup let2)
    BY <1>2
  <2>2. \/ d \in DOMAIN now /\ r \in Ids(now[d])
        \/ d = n /\ r \in asked2 \ (asked \cup let2)
    BY <1>2
  <2>3. c \in DOMAIN now /\ r \in Ids(now[c]) => r \in asked
    BY <1>0, <1>2
  <2>4. d \in DOMAIN now /\ r \in Ids(now[d]) => r \in asked
    BY <1>0, <1>2
  <2>5. c \in DOMAIN now /\ d \in DOMAIN now => Ids(now[c]) \cap Ids(now[d]) \subseteq gone
    BY <1>2 DEF RecordedIn
  <2> QED BY <1>2, <2>1, <2>2, <2>3, <2>4, <2>5
<1>3. ASSUME NEW c \in DOMAIN next, NEW r \in Ids(next[c]) \cap let2, r \notin gone2
      PROVE  r \in Lets(next[c])
  <2>0. r \in Ids(next[c]) \ gone2 /\ r \in let2
    BY <1>3
  <2>5. \/ c \in DOMAIN now /\ r \in Ids(now[c])
        \/ c = n /\ r \in asked2 \ (asked \cup let2)
    BY <2>0
  <2>4. c \in DOMAIN now /\ r \in Ids(now[c])
    BY <2>0, <2>5
  <2>1. c \in DOMAIN now /\ r \in Ids(now[c]) /\ r \in asked
    BY <1>0, <2>0, <2>4
  <2>2. CASE r \in let
    <3>1. r \in Lets(now[c])
      BY <1>3, <2>1, <2>2 DEF RecordedIn
    <3> QED BY <1>3, <2>1, <3>1, LetsMoves
  <2>3. CASE r \notin let
    <3>1. PICK d \in DOMAIN now : r \in Ids(now[d]) \cap Lets(next[d])
      BY <1>3, <2>1, <2>3
    <3>2. d = c
      BY <1>3, <2>1, <3>1 DEF RecordedIn
    <3> QED BY <3>1, <3>2
  <2> QED BY <2>2, <2>3
<1>4. ASSUME NEW r \in told2 \ gone2
      PROVE  \E c \in DOMAIN next : /\ r \in Ids(next[c]) \ Lets(next[c])
                                    /\ next[c].status = "pending" => c \in late2
  <2>1. CASE r \notin told
    BY <1>4, <2>1
  <2>2. CASE r \in told
    <3>0. \A q \in told \ gone :
            \E c \in DOMAIN now :
              /\ q \in Ids(now[c]) \ Lets(now[c])
              /\ now[c].status = "pending" => c \in late
      BY Zenon DEF RecordedIn
    <3>5. r \in told \ gone
      BY <1>4, <2>2
    <3>1. PICK c \in DOMAIN now : /\ r \in Ids(now[c]) \ Lets(now[c])
                                  /\ now[c].status = "pending" => c \in late
      BY <3>0, <3>5, Zenon
    <3>4. r \in Ids(now[c]) \ gone2
      BY <1>4, <3>1
    <3>2. r \notin Lets(next[c])
      BY <3>1, <3>4, LetsMoves
    <3>3. /\ c \in DOMAIN next /\ r \in Ids(next[c])
          /\ \/ next[c].status = now[c].status
             \/ now[c].status = "pending" /\ (c \in late => next[c].status \in {"pending", "expired"})
      BY <1>4, <3>1 DEF Moves
    <3> QED BY <3>1, <3>2, <3>3
  <2> QED BY <2>1, <2>2
<1> QED BY <1>1, <1>2, <1>3, <1>4 DEF RecordedIn

\* Only the decision and the requests make a version.
LEMMA SameVersion ==
  ASSUME NEW now, NEW late, NEW gone, NEW let, NEW c, NEW x, NEW y,
         VersionOf(now, late, gone, let, c, x), y.ids = x.ids, y.status = x.status
  PROVE  VersionOf(now, late, gone, let, c, y)
BY DEF VersionOf, Lets, Ids

(***************************************************************************)
(* What steps of any kind leave true.                                      *)
(***************************************************************************)

\* Whatever was a version of a record still is.
StillVersions ==
  \A c, x : VersionOf(confirmations, overdue, undone, approved, c, x)
              => VersionOf(confirmations', overdue', undone', approved', c, x)

\* The records there are.
LEMMA RecordsSound ==
  ASSUME Inv
  PROVE  /\ Sound(confirmations) /\ \A c \in DOMAIN confirmations : Lets(confirmations[c]) \subseteq approved
         /\ Len(confirmations) \in Nat /\ DOMAIN confirmations = 1 .. Len(confirmations)
         /\ \A c \in DOMAIN confirmations : confirmations[c] \in Records /\ confirmations[c].ids # <<>>
         /\ \A c \in DOMAIN confirmations : Ids(confirmations[c]) \subseteq Requests \cap Asked
<1>1. confirmations \in Seq(Records)
  BY DEF Inv, Typed
<1>2. \A c \in DOMAIN confirmations : /\ confirmations[c].ids # <<>>
                                      /\ Lets(confirmations[c]) \subseteq approved
  BY DEF Inv, Copies, Versions, Version, VersionOf
<1>3. Len(confirmations) \in Nat /\ DOMAIN confirmations = 1 .. Len(confirmations)
  BY <1>1
<1>4. \A c \in DOMAIN confirmations : confirmations[c] \in Records
  BY <1>1
<1>5. \A c \in DOMAIN confirmations : Ids(confirmations[c]) \subseteq Requests \cap Asked
  <2>1. \A c \in DOMAIN confirmations : Ids(confirmations[c]) \subseteq Requests
    BY <1>2, <1>4, LetsIs
  <2>2. \A c \in DOMAIN confirmations : Ids(confirmations[c]) \subseteq Asked
    BY DEF Inv, Recorded, RecordedIn
  <2> QED BY <2>1, <2>2
<1> QED BY <1>1, <1>2, <1>3, <1>4, <1>5 DEF Sound

\* There are not more records than requests.
LEMMA FewRecords ==
  ASSUME Bounds, Inv
  PROVE  /\ Cardinality(Requests) \in Nat /\ Len(confirmations) <= Cardinality(Requests)
         /\ DOMAIN confirmations \subseteq Numbers
         /\ IsFiniteSet(Asked) /\ Cardinality(Asked) \in Nat
<1>1. Asked \subseteq Requests
  BY DEF Asked
<1>2. IsFiniteSet(Requests)
  BY DEF Bounds
<1>3. /\ Cardinality(Requests) \in Nat /\ Cardinality(Asked) \in Nat /\ IsFiniteSet(Asked)
      /\ Cardinality(Asked) <= Cardinality(Requests)
  BY <1>1, <1>2, FS_Subset, FS_CardinalityType
<1>4. Len(confirmations) <= Cardinality(Asked)
  BY DEF Inv, Counted
<1>5. Len(confirmations) \in Nat /\ DOMAIN confirmations = 1 .. Len(confirmations)
  BY RecordsSound
<1> QED BY <1>3, <1>4, <1>5 DEF Numbers

\* Nothing is written, approved, late or told.
LEMMA RecordsQuiet ==
  ASSUME Inv, UNCHANGED <<confirmations, overdue, undone, approved, refused>>, Asked' = Asked
  PROVE  Counted' /\ Recorded' /\ StillVersions /\ Versions(confirmations)'
<1>1. Counted'
  BY DEF Inv, Counted
<1>2. Recorded'
  BY DEF Inv, Recorded
<1>3. StillVersions
  BY DEF StillVersions
<1>4. Versions(confirmations)'
  BY DEF Inv, Copies, Versions, Version
<1> QED BY <1>1, <1>2, <1>3, <1>4

\* The copies of calls that do nothing.
LEMMA CopiesQuiet ==
  ASSUME Inv, StillVersions, Versions(confirmations)', UNCHANGED <<prompting, expiring>>,
         DOMAIN confirmations \subseteq DOMAIN confirmations'
  PROVE  Copies'
<1>1. \A c \in DOMAIN expiring.copy : VersionOf(confirmations, overdue, undone, approved, c, expiring.copy[c])
  BY DEF Inv, Copies, Versions, Version
<1>2. Versions(expiring.copy)'
  BY <1>1 DEF StillVersions, Versions, Version
<1>3. \A c \in Numbers : \A d \in DOMAIN prompting[c].copy :
        VersionOf(confirmations, overdue, undone, approved, d, prompting[c].copy[d])
  BY DEF Inv, Copies, Versions, Version
<1>4. \A c \in Numbers : Versions(prompting[c].copy)'
  BY <1>3 DEF StillVersions, Versions, Version
<1>5. \A c \in Numbers :
        /\ prompting[c].at = "called" => c \in DOMAIN confirmations'
        /\ prompting[c].at \in {"read", "sending"} => c \in DOMAIN prompting[c].copy
  BY DEF Inv, Copies
<1> QED BY <1>2, <1>4, <1>5 DEF Copies

\* The decisions of calls that do nothing.
LEMMA DecisiveQuiet ==
  ASSUME Inv, StillVersions, UNCHANGED deciding, approved \subseteq approved'
  PROVE  Decisive'
<1>1. \A c \in Numbers :
        IF deciding[c].at = "idle" THEN deciding[c].left = <<>>
        ELSE /\ deciding[c].record \in Records /\ deciding[c].record.status # "pending"
             /\ VersionOf(confirmations, overdue, undone, approved, c, deciding[c].record)
             /\ deciding[c].answers \subseteq Ids(deciding[c].record)
             /\ ToSet(deciding[c].left) \subseteq approved
  BY DEF Inv, Decisive, Version
<1>2. \A c \in Numbers : deciding[c].at # "idle" =>
        VersionOf(confirmations', overdue', undone', approved', c, deciding[c].record)
  BY <1>1 DEF StillVersions
<1> QED BY <1>1, <1>2 DEF Decisive, Version

\* The posts of steps that do not post.
LEMMA PostsQuiet ==
  ASSUME Inv, UNCHANGED <<posted, delivery, intents>>, approved \subseteq approved'
  PROVE  Posts'
BY DEF Inv, Posts

\* Records written back from copies.
LEMMA WritesKeep ==
  ASSUME Inv, NEW copy \in Seq(Records),
         \A c \in DOMAIN copy : VersionOf(confirmations, overdue, undone, approved, c, copy[c]),
         WriteAll(copy), UNCHANGED <<overdue, approved, refused>>, Asked' = Asked
  PROVE  /\ confirmations' \in Seq(Records) /\ DOMAIN confirmations' = DOMAIN confirmations
         /\ undone' \subseteq Requests /\ undone \subseteq undone'
         /\ Counted' /\ Recorded' /\ StillVersions /\ Versions(confirmations)'
<1>1. confirmations' = Written(confirmations, copy) /\ undone' = undone \cup UndoneIn(confirmations, copy)
  BY DEF WriteAll, UndoneBy, Written, UndoneIn
<1>2. /\ Sound(confirmations) /\ \A c \in DOMAIN confirmations : Lets(confirmations[c]) \subseteq approved
      /\ \A c \in DOMAIN confirmations : Ids(confirmations[c]) \subseteq Requests \cap Asked
  BY RecordsSound
<1>3. PICK now, next, gone, gone2 :
        now = confirmations /\ next = confirmations' /\ gone = undone /\ gone2 = undone'
  OBVIOUS
<1>4. /\ Sound(next) /\ DOMAIN next = DOMAIN now /\ Len(next) = Len(now)
      /\ Moves(now, next, overdue, gone2)
      /\ \A c \in DOMAIN next : Ids(next[c]) \ gone2 \subseteq Ids(now[c])
      /\ \A c \in DOMAIN next : Lets(next[c]) \subseteq approved
  <2>1. gone2 = gone \cup UndoneIn(now, copy) /\ next = Written(now, copy)
    BY <1>1, <1>3
  <2>3. Sound(now) /\ \A c \in DOMAIN now : Lets(now[c]) \subseteq approved
    BY <1>2, <1>3
  <2>4. \A c \in DOMAIN copy : VersionOf(now, overdue, gone, approved, c, copy[c])
    BY <1>3
  <2>5. Writes(now, copy, next, overdue, gone, gone2, approved)
    BY <2>1, <2>3, <2>4 DEF Writes
  <2> QED BY <2>5, WriteMoves
<1>5. undone' \subseteq Requests /\ undone \subseteq undone' /\ undone' \subseteq Asked
  <2>1. \A c \in DOMAIN copy : c \in DOMAIN confirmations
    BY DEF VersionOf
  <2>2. undone \subseteq Requests /\ undone \subseteq Asked
    BY DEF Inv, Typed, Recorded
  <2> QED BY <1>1, <1>2, <2>1, <2>2 DEF UndoneIn
<1>6. StillVersions
  <2>1. gone \subseteq gone2
    BY <1>3, <1>5
  <2>2. \A c, x : VersionOf(now, overdue, gone, approved, c, x)
                    => VersionOf(next, overdue, gone2, approved, c, x)
    BY <1>4, <2>1, VersionKept
  <2> QED BY <1>3, <2>2 DEF StillVersions
<1>7. Versions(confirmations)'
  <2>1. \A c \in DOMAIN next : VersionOf(next, overdue, gone2, approved, c, next[c])
    BY <1>4, VersionOfItself DEF Sound
  <2> QED BY <1>3, <2>1 DEF Versions, Version
<1>8. Recorded'
  <2>1. approved \subseteq Asked /\ RecordedIn(now, Asked, overdue, gone, approved, refused)
    BY <1>3 DEF Inv, Recorded
  <2>2. gone \subseteq gone2
    BY <1>3, <1>5
  <2>3. PICK asked : asked = Asked
    OBVIOUS
  <2>4. RecordedIn(next, asked, overdue, gone2, approved, refused)
    <3>1. \A c \in DOMAIN next : \A r \in Ids(next[c]) \ gone2 :
            \/ c \in DOMAIN now /\ r \in Ids(now[c])
            \/ c = 0 /\ r \in asked \ (asked \cup approved)
      BY <1>4
    <3>2. \A r \in approved \ approved :
            \/ r \notin asked
            \/ \E c \in DOMAIN now : r \in Ids(now[c]) \cap Lets(next[c])
      OBVIOUS
    <3>3. \A r \in (refused \ refused) \ gone2 : \E c \in DOMAIN next :
            /\ r \in Ids(next[c]) \ Lets(next[c])
            /\ next[c].status = "pending" => c \in overdue
      OBVIOUS
    <3>4. Sound(now) /\ approved \subseteq asked /\ RecordedIn(now, asked, overdue, gone, approved, refused)
      BY <1>2, <1>3, <2>1, <2>3
    <3>5. Goes(now, next, asked, asked, overdue, overdue, gone, gone2, approved, approved,
               refused, refused, 0)
      BY <1>4, <2>2, <3>1, <3>2, <3>3, <3>4 DEF Goes
    <3> QED BY <3>4, <3>5, RecordedKept
  <2> QED BY <1>3, <1>5, <2>1, <2>3, <2>4 DEF Recorded
<1>9. Counted'
  BY <1>3, <1>4 DEF Inv, Counted
<1> QED BY <1>3, <1>4, <1>5, <1>6, <1>7, <1>8, <1>9 DEF Sound

\* Steps of a post, and others that touch no record and no copy of one.
LEMMA QuietKeeps ==
  ASSUME Inv, Typed', Posts', Asked' = Asked,
         UNCHANGED <<confirmations, overdue, undone, approved, refused, prompting, expiring, deciding>>
  PROVE  Inv'
<1>1. Counted' /\ Recorded' /\ StillVersions /\ Versions(confirmations)'
  BY RecordsQuiet
<1>2. Copies'
  BY <1>1, CopiesQuiet
<1>3. Decisive'
  BY <1>1, DecisiveQuiet
<1> QED BY <1>1, <1>2, <1>3 DEF Inv

-----------------------------------------------------------------------------
(* Grants, requests and posts.                                             *)

\* A revoked grant answers no later request; what it let through stays approved.
LEMMA RevokeGrantKeeps ==
  ASSUME Inv, RevokeGrant
  PROVE  Inv'
<1> USE DEF RevokeGrant, calls, outside, history
<1>1. Typed'
  BY DEF Inv, Typed, Grants
<1>2. Posts'
  BY PostsQuiet
<1>3. Asked' = Asked
  BY DEF Asked
<1> QED BY <1>1, <1>2, <1>3, QuietKeeps

\* A request that is locked is not prepared.
LEMMA ReceiveKeeps ==
  ASSUME Inv, NEW r \in Requests, Receive(r)
  PROVE  Inv'
<1> USE DEF Receive, database, outside, history
<1>1. request' \in [Requests -> Asking]
  BY DEF Inv, Typed, Asking
<1>2. Typed'
  BY <1>1 DEF Inv, Typed
<1>3. Posts'
  BY PostsQuiet
<1>4. Asked' = Asked
  <2>1. request[r].at = "new" /\ request'[r].at = "locked" /\ \A q \in Requests : q # r => request'[q] = request[q]
    BY DEF Inv, Typed
  <2> QED BY <2>1 DEF Asked
<1> QED BY <1>2, <1>3, <1>4, QuietKeeps

\* That the host is up again changes no record, copy or post.
LEMMA HostUpKeeps ==
  ASSUME Inv, HostUp
  PROVE  Inv'
<1> USE DEF HostUp, database, calls, outside, history
<1>1. Typed'
  BY DEF Inv, Typed
<1>2. Posts'
  BY PostsQuiet
<1>3. Asked' = Asked
  BY DEF Asked
<1> QED BY <1>1, <1>2, <1>3, QuietKeeps

\* The post of a request that was let through goes on; where it says that it is
\* sent, it is there.
LEMMA DeliveryGoesToKeeps ==
  ASSUME Inv, NEW r \in Requests, NEW where \in {"sending", "sent", "finished"},
         NEW intent \in Intents \ {"none"}, DeliveryGoesTo(r, where, intent), UNCHANGED posted,
         delivery[r].at # "none",
         where = "sent" \/ intent \in {"sent_unconfirmed", "done"} => r \in posted
  PROVE  Inv'
<1> USE DEF DeliveryGoesTo, history
<1>1. /\ delivery' = [delivery EXCEPT ![r].at = where] /\ intents' = [intents EXCEPT ![r] = intent]
      /\ delivery \in [Requests -> Posting] /\ intents \in [Requests -> Intents]
  BY DEF Inv, Typed
<1>2. delivery' \in [Requests -> Posting] /\ intents' \in [Requests -> Intents]
  BY <1>1 DEF Posting
<1>3. Typed'
  BY <1>2 DEF Inv, Typed
<1>4. /\ delivery'[r].at = where /\ intents'[r] = intent
      /\ \A q \in Requests : q # r => delivery'[q] = delivery[q] /\ intents'[q] = intents[q]
  BY <1>1 DEF Posting
<1>5. Posts'
  <2>1. posted \subseteq approved /\ r \in approved
    BY DEF Inv, Posts
  <2>2. ASSUME NEW q \in Requests
        PROVE  /\ delivery'[q].at # "none" => q \in approved
               /\ intents'[q] # "none" => q \in approved
               /\ intents'[q] \in {"sent_unconfirmed", "done"} => q \in posted
               /\ delivery'[q].at = "sent" => q \in posted
    <3>1. CASE q = r
      BY <1>4, <2>1, <3>1
    <3>2. CASE q # r
      BY <1>4, <3>2 DEF Inv, Posts
    <3> QED BY <3>1, <3>2
  <2> QED BY <2>1, <2>2 DEF Posts
<1>6. Asked' = Asked
  BY DEF Asked
<1> QED BY <1>3, <1>5, <1>6, QuietKeeps

\* The intent is made or found.
LEMMA BeginDeliveryKeeps ==
  ASSUME Inv, NEW r \in Requests, BeginDelivery(r)
  PROVE  Inv'
<1>1. delivery[r].at # "none" /\ UNCHANGED posted
  BY DEF BeginDelivery
<1>2. intents[r] \in {"sent_unconfirmed", "done"} => r \in posted
  BY DEF Inv, Posts
<1>3. CASE intents[r] \in {"done", "failed"}
  <2>1. DeliveryGoesTo(r, "finished", intents[r])
    BY <1>3 DEF BeginDelivery
  <2> QED BY <1>1, <1>2, <1>3, <2>1, DeliveryGoesToKeeps DEF Intents
<1>4. CASE intents[r] = "sent_unconfirmed"
  <2>1. DeliveryGoesTo(r, "finished", "done")
    BY <1>4 DEF BeginDelivery
  <2> QED BY <1>1, <1>2, <1>4, <2>1, DeliveryGoesToKeeps DEF Intents
<1>5. CASE intents[r] \notin {"done", "failed", "sent_unconfirmed"}
  <2>1. DeliveryGoesTo(r, "sending", "sending")
    BY <1>5 DEF BeginDelivery
  <2> QED BY <1>1, <2>1, DeliveryGoesToKeeps DEF Intents
<1> QED BY <1>3, <1>4, <1>5

\* Only what was let through is sent.
LEMMA ShowKeeps ==
  ASSUME Inv, NEW r \in Requests, Show(r)
  PROVE  Inv'
<1> USE DEF Show, database, calls, history
<1>1. r \in approved /\ posted' = posted \cup {r}
  BY DEF Inv, Posts
<1>2. Typed'
  BY DEF Inv, Typed
<1>3. Posts'
  BY <1>1 DEF Inv, Posts
<1>4. Asked' = Asked
  BY DEF Asked
<1> QED BY <1>2, <1>3, <1>4, QuietKeeps

\* The post has been shown: its intent may say that it was sent.
LEMMA TransportSentKeeps ==
  ASSUME Inv, NEW r \in Requests, TransportSent(r)
  PROVE  Inv'
BY DeliveryGoesToKeeps DEF TransportSent, Intents

\* A delivery that ends has been shown, and its intent says so.
LEMMA DeliveryDoneKeeps ==
  ASSUME Inv, NEW r \in Requests, DeliveryDone(r)
  PROVE  Inv'
<1>1. r \in posted
  BY DEF DeliveryDone, Inv, Posts
<1> QED BY <1>1, DeliveryGoesToKeeps DEF DeliveryDone, Intents

\* A failed post is over; whether it was shown or not, it was approved.
LEMMA DeliveryFailsKeeps ==
  ASSUME Inv, NEW r \in Requests, DeliveryFails(r)
  PROVE  Inv'
BY DeliveryGoesToKeeps DEF DeliveryFails, Intents

\* A post begins, or is over.
LEMMA DeliveryBecomesKeeps ==
  ASSUME Inv, NEW r \in Requests, NEW c \in Nat, NEW where \in {"none", "begin"},
         delivery' = [delivery EXCEPT ![r] = [at |-> where, of |-> c]],
         UNCHANGED <<posted, intents>>, approved \subseteq approved', r \in approved'
  PROVE  Posts' /\ delivery' \in [Requests -> Posting]
<1>1. delivery \in [Requests -> Posting]
  BY DEF Inv, Typed
<1>2. delivery' \in [Requests -> Posting]
  BY <1>1 DEF Posting
<1>3. delivery'[r].at = where /\ \A q \in Requests : q # r => delivery'[q] = delivery[q]
  BY <1>1
<1>4. posted \subseteq approved
  BY DEF Inv, Posts
<1>5. ASSUME NEW q \in Requests
      PROVE  /\ delivery'[q].at # "none" => q \in approved'
             /\ intents[q] # "none" => q \in approved'
             /\ intents[q] \in {"sent_unconfirmed", "done"} => q \in posted
             /\ delivery'[q].at = "sent" => q \in posted
  <2>1. CASE q = r
    BY <1>3, <2>1 DEF Inv, Posts
  <2>2. CASE q # r
    BY <1>3, <2>2 DEF Inv, Posts
  <2> QED BY <2>1, <2>2
<1> QED BY <1>2, <1>4, <1>5 DEF Posts

\* A post that is reported is over: no post of the request is left.
LEMMA ReportDeliveryKeeps ==
  ASSUME Inv, NEW r \in Requests, ReportDelivery(r)
  PROVE  Inv'
<1> USE DEF ReportDelivery, database, outside, history
<1>1. r \in approved
  BY DEF Inv, Posts
<1>2. Posts' /\ delivery' \in [Requests -> Posting]
  BY <1>1, DeliveryBecomesKeeps DEF NoDelivery
<1>3. Typed'
  BY <1>2 DEF Inv, Typed
<1>4. Asked' = Asked
  BY DEF Asked
<1> QED BY <1>2, <1>3, <1>4, QuietKeeps

\* A post that was sent is not made again.
LEMMA RecoverSentKeeps ==
  ASSUME Inv, NEW r \in Requests, RecoverSent(r)
  PROVE  Inv'
<1> USE DEF RecoverSent, calls, outside, history
<1>1. intents \in [Requests -> Intents] /\ intents[r] = "sent_unconfirmed" /\ intents' = [intents EXCEPT ![r] = "done"]
  BY DEF Inv, Typed
<1>2. intents' \in [Requests -> Intents] /\ intents'[r] = "done" /\ \A q \in Requests : q # r => intents'[q] = intents[q]
  BY <1>1 DEF Intents
<1>3. Typed'
  BY <1>2 DEF Inv, Typed
<1>4. Posts'
  BY <1>1, <1>2 DEF Inv, Posts
<1>5. Asked' = Asked
  BY DEF Asked
<1> QED BY <1>3, <1>4, <1>5, QuietKeeps

\* A post that is begun again after a restart was approved.
LEMMA RecoverIntentKeeps ==
  ASSUME Inv, NEW r \in Requests, RecoverIntent(r)
  PROVE  Inv'
<1> USE DEF RecoverIntent, database, outside, history
<1>1. r \in approved
  BY DEF Inv, Posts
<1>2. Posts' /\ delivery' \in [Requests -> Posting]
  BY <1>1, DeliveryBecomesKeeps
<1>3. Typed'
  BY <1>2 DEF Inv, Typed
<1>4. Asked' = Asked
  BY DEF Asked
<1> QED BY <1>2, <1>3, <1>4, QuietKeeps

-----------------------------------------------------------------------------
(* Decisions.                                                              *)

\* A decision is for all requests of the record, and lets through what is approved.
LEMMA ClaimKeeps ==
  ASSUME Bounds, Inv, NEW c \in DOMAIN confirmations, NEW status \in Decisions \cup {"expired"},
         NEW left \in Seq(Requests), NEW answers, answers \subseteq Ids(confirmations[c]),
         Claim(c, status, left, answers),
         confirmations[c].status \in {"pending", status},
         confirmations[c].status = "pending" /\ c \in overdue => status = "expired",
         approved' = approved \cup ToSet(Allowed(status, confirmations[c].ids)),
         ToSet(left) \subseteq approved',
         grant' \in Grants,
         UNCHANGED <<overdue, undone, refused, prompting, expiring, posted, delivery, intents, request,
                     host, dropped, hitches>>
  PROVE  Inv'
<1>1. /\ Sound(confirmations) /\ \A d \in DOMAIN confirmations : Lets(confirmations[d]) \subseteq approved
      /\ DOMAIN confirmations = 1 .. Len(confirmations) /\ Len(confirmations) \in Nat
      /\ confirmations[c] \in Records /\ confirmations[c].ids # <<>> /\ confirmations \in Seq(Records)
      /\ Ids(confirmations[c]) \subseteq Requests \cap Asked
  BY RecordsSound DEF Sound
<1>2. c \in Numbers
  BY FewRecords
<1>3. PICK record : record = [confirmations[c] EXCEPT !.status = status]
  OBVIOUS
<1>4. record \in Records /\ record.ids = confirmations[c].ids /\ record.status = status
  BY <1>1, <1>3 DEF Records
<1>5. Ids(record) = Ids(confirmations[c]) /\ record.ids # <<>> /\ Lets(record) \subseteq Ids(record)
  BY <1>1, <1>4, LetsIs DEF Ids
<1>6. Lets(record) = ToSet(Allowed(status, confirmations[c].ids))
  BY <1>4 DEF Lets
<1>7. /\ confirmations' = [confirmations EXCEPT ![c] = record]
      /\ deciding' = [deciding EXCEPT ![c] =
           [at |-> "delivering", record |-> record, left |-> left, answers |-> answers]]
  BY <1>3 DEF Claim
<1>8. /\ DOMAIN confirmations' = DOMAIN confirmations /\ Len(confirmations') = Len(confirmations)
      /\ confirmations' \in Seq(Records) /\ confirmations'[c] = record
      /\ \A d \in DOMAIN confirmations : d # c => confirmations'[d] = confirmations[d]
  BY <1>1, <1>4, <1>7
<1>9. PICK now, next, let, let2, asked :
        /\ now = confirmations /\ next = confirmations' /\ let = approved /\ let2 = approved'
        /\ asked = Asked
  OBVIOUS
<1>10. Sound(next)
  BY <1>1, <1>5, <1>8, <1>9 DEF Sound
<1>11. Moves(now, next, overdue, undone)
  <2>1. \A d \in DOMAIN now : next[d].ids[1] = now[d].ids[1]
    BY <1>4, <1>8, <1>9
  <2>2. ASSUME NEW d \in DOMAIN now, NEW r \in Ids(now[d]) \ undone
        PROVE  /\ r \in Ids(next[d])
               /\ \/ next[d].status = now[d].status
                  \/ now[d].status = "pending" /\ (d \in overdue => next[d].status \in {"pending", "expired"})
    <3>1. CASE d # c
      BY <1>8, <1>9, <2>2, <3>1
    <3>2. CASE d = c
      <4>1. r \in Ids(next[d]) /\ next[d].status = status
        BY <1>4, <1>5, <1>8, <1>9, <2>2, <3>2
      <4> QED BY <1>9, <3>2, <4>1
    <3> QED BY <3>1, <3>2
  <2> QED BY <1>8, <1>9, <2>1, <2>2 DEF Moves
<1>12. let \subseteq let2 /\ \A d \in DOMAIN next : Lets(next[d]) \subseteq let2
  BY <1>1, <1>6, <1>8, <1>9
<1>13. UNCHANGED <<overdue, undone, refused, prompting, expiring, posted, delivery, intents, request,
                   host, dropped, hitches>> /\ grant' \in Grants
  BY DEF Inv, Typed
<1>14. StillVersions
  <2>1. \A d, x : VersionOf(now, overdue, undone, let, d, x) => VersionOf(next, overdue, undone, let2, d, x)
    BY <1>11, <1>12, VersionKept
  <2> QED BY <1>9, <1>13, <2>1 DEF StillVersions
<1>15. \A d \in DOMAIN next : VersionOf(next, overdue, undone, let2, d, next[d])
  BY <1>10, <1>12, VersionOfItself DEF Sound
<1>16. Versions(confirmations)'
  BY <1>9, <1>13, <1>15 DEF Versions, Version
<1>17. Copies'
  BY <1>8, <1>13, <1>14, <1>16, CopiesQuiet
<1>18. deciding \in [Numbers -> Deciding] /\ answers \in SUBSET Requests
  BY <1>1 DEF Inv, Typed
<1>19. deciding' \in [Numbers -> Deciding]
  BY <1>2, <1>4, <1>7, <1>18 DEF Deciding
<1>20. Decisive'
  <2>1. /\ deciding'[c] = [at |-> "delivering", record |-> record, left |-> left, answers |-> answers]
        /\ \A d \in Numbers : d # c => deciding'[d] = deciding[d]
    BY <1>2, <1>7, <1>18
  <2>2. VersionOf(confirmations', overdue', undone', approved', c, record)
    BY <1>8, <1>9, <1>13, <1>15
  <2>3. ASSUME NEW d \in Numbers
        PROVE  IF deciding'[d].at = "idle" THEN deciding'[d].left = <<>>
               ELSE /\ deciding'[d].record \in Records /\ deciding'[d].record.status # "pending"
                    /\ VersionOf(confirmations', overdue', undone', approved', d, deciding'[d].record)
                    /\ deciding'[d].answers \subseteq Ids(deciding'[d].record)
                    /\ ToSet(deciding'[d].left) \subseteq approved'
    <3>1. CASE d = c
      <4>1. status # "pending"
        BY DEF Decisions
      <4> QED BY <1>4, <1>5, <2>1, <2>2, <3>1, <4>1
    <3>2. CASE d # c
      <4>1. IF deciding[d].at = "idle" THEN deciding[d].left = <<>>
            ELSE /\ deciding[d].record \in Records /\ deciding[d].record.status # "pending"
                 /\ VersionOf(confirmations, overdue, undone, approved, d, deciding[d].record)
                 /\ deciding[d].answers \subseteq Ids(deciding[d].record)
                 /\ ToSet(deciding[d].left) \subseteq approved
        BY DEF Inv, Decisive, Version
      <4>2. approved \subseteq approved' /\ deciding'[d] = deciding[d]
        BY <2>1, <3>2
      <4> QED BY <1>14, <4>1, <4>2 DEF StillVersions
    <3> QED BY <3>1, <3>2
  <2> QED BY <2>3 DEF Decisive, Version
<1>21. Asked' = Asked
  BY <1>13 DEF Asked
<1>22. approved' \subseteq Asked /\ approved' \subseteq Requests
  <2>1. approved \subseteq Asked /\ approved \subseteq Requests
    BY DEF Inv, Typed, Recorded
  <2> QED BY <1>1, <1>5, <1>6, <2>1
<1>23. Recorded'
  <2>1. /\ Sound(now) /\ let \subseteq asked /\ undone \subseteq asked
        /\ RecordedIn(now, asked, overdue, undone, let, refused)
    BY <1>1, <1>9 DEF Inv, Recorded
  <2>2. \A d \in DOMAIN next : \A r \in Ids(next[d]) \ undone :
          \/ d \in DOMAIN now /\ r \in Ids(now[d])
          \/ d = 0 /\ r \in asked \ (asked \cup let2)
    BY <1>5, <1>8, <1>9
  <2>3. \A r \in let2 \ let :
          \/ r \notin asked
          \/ \E d \in DOMAIN now : r \in Ids(now[d]) \cap Lets(next[d])
    BY <1>5, <1>6, <1>8, <1>9
  <2>4. \A r \in (refused \ refused) \ undone : \E d \in DOMAIN next :
          /\ r \in Ids(next[d]) \ Lets(next[d])
          /\ next[d].status = "pending" => d \in overdue
    OBVIOUS
  <2>5. Goes(now, next, asked, asked, overdue, overdue, undone, undone, let, let2, refused, refused, 0)
    BY <1>10, <1>11, <2>1, <2>2, <2>3, <2>4 DEF Goes
  <2>6. RecordedIn(next, asked, overdue, undone, let2, refused)
    BY <2>1, <2>5, RecordedKept
  <2> QED BY <1>9, <1>13, <1>21, <1>22, <2>1, <2>6 DEF Recorded
<1>24. Posts'
  BY <1>13, PostsQuiet
<1>25. Counted'
  BY <1>8, <1>21 DEF Inv, Counted
<1>26. Typed'
  BY <1>8, <1>13, <1>19, <1>22 DEF Inv, Typed
<1> QED BY <1>17, <1>20, <1>23, <1>24, <1>25, <1>26 DEF Inv

\* The first to decide, in time.
LEMMA DecideKeeps ==
  ASSUME Bounds, Inv, NEW c \in Numbers, NEW d \in Decisions, Decide(c, d)
  PROVE  Inv'
<1> USE DEF Decide, outside
<1>1. /\ c \in DOMAIN confirmations /\ confirmations[c].status = "pending" /\ c \notin overdue
      /\ confirmations[c] \in Records /\ confirmations[c].ids # <<>>
  BY RecordsSound DEF IsOpen
<1>2. confirmations[c].ids \in Seq(Requests)
  BY <1>1 DEF Records
<1>3. PICK left : left = Allowed(d, confirmations[c].ids)
  OBVIOUS
<1>4. left \in Seq(Requests) /\ ToSet(left) \subseteq approved'
  BY <1>1, <1>2, <1>3, AllowedIs
<1>5. PICK answers : answers = Ids(confirmations[c])
  OBVIOUS
<1>6. Claim(c, d, left, answers)
  BY <1>3, <1>5
<1>7. grant' \in Grants
  BY DEF Inv, Typed, Grants
<1> QED BY <1>1, <1>3, <1>4, <1>5, <1>6, <1>7, ClaimKeeps

\* Too late: nothing is let through.
LEMMA DecideLateKeeps ==
  ASSUME Bounds, Inv, NEW c \in Numbers, DecideLate(c)
  PROVE  Inv'
<1> USE DEF DecideLate, outside, history
<1>1. /\ c \in DOMAIN confirmations /\ confirmations[c].status \in {"pending", "expired"}
      /\ confirmations[c] \in Records /\ confirmations[c].ids # <<>>
  BY RecordsSound
<1>2. confirmations[c].ids \in Seq(Requests)
  BY <1>1 DEF Records
<1>3. PICK left : left = <<>> /\ left \in Seq(Requests)
  BY EmptySeq
<1>4. ToSet(Allowed("expired", confirmations[c].ids)) = {}
  BY <1>1, <1>2, AllowedIs
<1>5. ToSet(left) \subseteq approved'
  <2>1. DOMAIN left = {}
    <3>1. Len(left) = 0
      BY <1>3, EmptySeq
    <3>2. DOMAIN left = 1 .. Len(left)
      BY <1>3
    <3> QED BY <3>1, <3>2
  <2> QED BY <2>1 DEF ToSet
<1>6. PICK answers : answers = Ids(confirmations[c])
  OBVIOUS
<1>7. Claim(c, "expired", left, answers)
  BY <1>3, <1>6
<1>8. grant' \in Grants
  BY DEF Inv, Typed
<1>9. approved' = approved \cup ToSet(Allowed("expired", confirmations[c].ids))
  BY <1>4
<1> QED BY <1>1, <1>3, <1>5, <1>6, <1>7, <1>8, <1>9, ClaimKeeps

\* What was approved is posted after a restart.
LEMMA RecoverDecisionKeeps ==
  ASSUME Bounds, Inv, NEW c \in Numbers, RecoverDecision(c)
  PROVE  Inv'
<1> USE DEF RecoverDecision, outside, history
<1>1. /\ c \in DOMAIN confirmations /\ confirmations[c].status \in {"once", "always"}
      /\ confirmations[c] \in Records /\ confirmations[c].ids # <<>>
      /\ Lets(confirmations[c]) \subseteq approved
  BY RecordsSound DEF Unfinished
<1>2. confirmations[c].ids \in Seq(Requests)
  BY <1>1 DEF Records
<1>3. PICK status, left : status = confirmations[c].status /\ left = Allowed(status, confirmations[c].ids)
  OBVIOUS
<1>4. left \in Seq(Requests) /\ ToSet(left) = Lets(confirmations[c])
  BY <1>1, <1>2, <1>3, AllowedIs DEF Lets
<1>5. PICK answers : answers = ToSet(left)
  OBVIOUS
<1>6. Claim(c, status, left, answers)
  BY <1>3, <1>5
<1>7. answers \subseteq Ids(confirmations[c])
  BY <1>1, <1>4, <1>5, LetsIs
<1>8. grant' \in Grants
  BY DEF Inv, Typed
<1>9. approved' = approved \cup ToSet(Allowed(status, confirmations[c].ids))
  BY <1>1, <1>3, <1>4
<1>10. status \in Decisions \cup {"expired"} /\ ToSet(left) \subseteq approved'
  BY <1>1, <1>3, <1>4 DEF Decisions
<1> QED BY <1>1, <1>3, <1>4, <1>6, <1>7, <1>8, <1>9, <1>10, ClaimKeeps

\* A decision goes on with less to post.
LEMMA DecidingKeeps ==
  ASSUME Inv, NEW c \in Numbers, NEW where \in {"delivering", "reported"}, NEW left \in Seq(Requests),
         deciding' = [deciding EXCEPT ![c] = [deciding[c] EXCEPT !.at = where, !.left = left]],
         deciding[c].at # "idle", ToSet(left) \subseteq ToSet(deciding[c].left), StillVersions,
         approved \subseteq approved'
  PROVE  Decisive' /\ deciding' \in [Numbers -> Deciding]
<1>1. deciding \in [Numbers -> Deciding] /\ deciding[c] \in Deciding
  BY DEF Inv, Typed
<1>2. PICK x : x = [deciding[c] EXCEPT !.at = where, !.left = left]
  OBVIOUS
<1>3. /\ x \in Deciding /\ x.at = where /\ x.left = left
      /\ x.record = deciding[c].record /\ x.answers = deciding[c].answers
  BY <1>1, <1>2 DEF Deciding
<1>4. deciding' = [deciding EXCEPT ![c] = x]
  BY <1>2
<1>5. deciding' \in [Numbers -> Deciding] /\ deciding'[c] = x /\ \A d \in Numbers : d # c => deciding'[d] = deciding[d]
  BY <1>1, <1>3, <1>4
<1>6. \A d \in Numbers :
        IF deciding[d].at = "idle" THEN deciding[d].left = <<>>
        ELSE /\ deciding[d].record \in Records /\ deciding[d].record.status # "pending"
             /\ VersionOf(confirmations, overdue, undone, approved, d, deciding[d].record)
             /\ deciding[d].answers \subseteq Ids(deciding[d].record)
             /\ ToSet(deciding[d].left) \subseteq approved
  BY DEF Inv, Decisive, Version
<1>7. ASSUME NEW d \in Numbers
      PROVE  IF deciding'[d].at = "idle" THEN deciding'[d].left = <<>>
             ELSE /\ deciding'[d].record \in Records /\ deciding'[d].record.status # "pending"
                  /\ VersionOf(confirmations', overdue', undone', approved', d, deciding'[d].record)
                  /\ deciding'[d].answers \subseteq Ids(deciding'[d].record)
                  /\ ToSet(deciding'[d].left) \subseteq approved'
  <2>1. CASE d = c
    <3>1. /\ deciding[c].record \in Records /\ deciding[c].record.status # "pending"
          /\ VersionOf(confirmations, overdue, undone, approved, c, deciding[c].record)
          /\ deciding[c].answers \subseteq Ids(deciding[c].record)
          /\ ToSet(deciding[c].left) \subseteq approved
      BY <1>6
    <3>2. VersionOf(confirmations', overdue', undone', approved', c, deciding[c].record)
      BY <3>1 DEF StillVersions
    <3> QED BY <1>3, <1>5, <2>1, <3>1, <3>2
  <2>2. CASE d # c
    BY <1>5, <1>6, <2>2 DEF StillVersions
  <2> QED BY <2>1, <2>2
<1> QED BY <1>5, <1>7 DEF Decisive, Version

\* Its posts are made one after the other.
LEMMA DeliverNextKeeps ==
  ASSUME Inv, NEW c \in Numbers, DeliverNext(c)
  PROVE  Inv'
<1> USE DEF DeliverNext, database, outside, history
<1>1. deciding \in [Numbers -> Deciding] /\ deciding[c] \in Deciding /\ deciding[c].left \in Seq(Requests)
  BY DEF Inv, Typed, Deciding
<1>2. deciding[c].left # <<>>
  OBVIOUS
<1>3. deciding[c].at # "idle" /\ ToSet(deciding[c].left) \subseteq approved
  BY <1>2 DEF Inv, Decisive
<1>4. PICK r : r = Head(deciding[c].left)
  OBVIOUS
<1>5. /\ r \in Requests /\ r \in approved /\ Tail(deciding[c].left) \in Seq(Requests)
      /\ ToSet(Tail(deciding[c].left)) \subseteq ToSet(deciding[c].left)
  BY <1>1, <1>2, <1>3, <1>4, TailIs
<1>6. Asked' = Asked
  BY DEF Asked
<1>7. Counted' /\ Recorded' /\ StillVersions /\ Versions(confirmations)'
  BY <1>6, RecordsQuiet
<1>8. Copies'
  BY <1>7, CopiesQuiet
<1>9. c \in Nat
  BY DEF Numbers
<1>10. Posts' /\ delivery' \in [Requests -> Posting]
  <2>1. CASE /\ delivery[r].at = "none"
             /\ delivery' = [delivery EXCEPT ![r] = [at |-> "begin", of |-> c]]
    BY <1>5, <1>9, <2>1, DeliveryBecomesKeeps
  <2>2. CASE delivery' = [delivery EXCEPT ![r] = NoDelivery]
    BY <1>5, <2>2, DeliveryBecomesKeeps DEF NoDelivery
  <2> QED BY <1>4, <2>1, <2>2
<1>11. Decisive' /\ deciding' \in [Numbers -> Deciding]
  <2>1. CASE UNCHANGED deciding
    BY <1>1, <1>7, <2>1, DecisiveQuiet
  <2>2. CASE deciding' = [deciding EXCEPT ![c].left = Tail(@)]
    <3>1. PICK where, left : where = deciding[c].at /\ left = Tail(deciding[c].left)
      OBVIOUS
    <3>2. where \in {"delivering", "reported"}
      BY <1>1, <1>3, <3>1 DEF Deciding
    <3>3. deciding' = [deciding EXCEPT ![c] = [deciding[c] EXCEPT !.at = where, !.left = left]]
      BY <1>1, <2>2, <3>1 DEF Deciding
    <3> QED BY <1>3, <1>5, <1>7, <3>1, <3>2, <3>3, DecidingKeeps
  <2> QED BY <1>4, <2>1, <2>2
<1>12. Typed'
  BY <1>10, <1>11 DEF Inv, Typed
<1> QED BY <1>7, <1>8, <1>10, <1>11, <1>12 DEF Inv

\* Who is told of a rejection is in a record that does not let it through.
LEMMA ReportDecisionKeeps ==
  ASSUME Inv, NEW c \in Numbers, ReportDecision(c)
  PROVE  Inv'
<1> USE DEF ReportDecision, database, history
<1>1. deciding \in [Numbers -> Deciding] /\ deciding[c] \in Deciding /\ deciding[c].left \in Seq(Requests)
  BY DEF Inv, Typed, Deciding
<1>2. PICK x : x = deciding[c].record
  OBVIOUS
<1>3. /\ x \in Records /\ x.status # "pending" /\ x.ids # <<>> /\ deciding[c].answers \subseteq Ids(x)
      /\ VersionOf(confirmations, overdue, undone, approved, c, x)
  BY <1>2 DEF Inv, Decisive, Version, VersionOf
<1>4. Asked' = Asked
  BY DEF Asked
<1>5. PICK no : no = {r \in deciding[c].answers : Answer(x, r) \in {"rejected", "approval_expired"}}
  OBVIOUS
<1>6. refused' = refused \cup no
  BY <1>2, <1>5
<1>7. no \subseteq Ids(x) /\ no \cap Lets(x) = {}
  <2>1. x.status \in {"expired", "once", "always", "rejected"}
    BY <1>3 DEF Records, Decisions
  <2>2. ASSUME NEW r \in no
        PROVE  r \notin Lets(x)
    <3>1. CASE x.status = "expired"
      BY <1>3, <3>1, LetsIs
    <3>2. CASE x.status # "expired"
      BY <1>5, <3>2 DEF Answer, Result, Lets
    <3> QED BY <3>1, <3>2
  <2> QED BY <1>3, <1>5, <2>2
<1>8. c \in DOMAIN confirmations /\ confirmations[c] \in Records /\ confirmations[c].ids # <<>>
  BY <1>3, RecordsSound DEF VersionOf
<1>9. ASSUME NEW r \in no \ undone
      PROVE  /\ r \in Ids(confirmations[c]) \ Lets(confirmations[c])
             /\ confirmations[c].status = "pending" => c \in overdue
  <2>1. /\ r \in Ids(x) /\ r \notin Lets(x) /\ r \notin undone
    BY <1>7, <1>9
  <2>2. /\ r \in Ids(confirmations[c]) /\ x.ids[1] = confirmations[c].ids[1]
        /\ \/ x.status = confirmations[c].status
           \/ x.status = "expired" /\ confirmations[c].status = "pending" /\ c \in overdue
    BY <1>3, <2>1 DEF VersionOf
  <2>3. x.status \in {"expired", "once", "always", "rejected"}
    BY <1>3 DEF Records, Decisions
  <2> QED BY <1>3, <1>8, <2>1, <2>2, <2>3, LetsIs
<1>10. Recorded'
  <2>1. RecordedIn(confirmations, Asked, overdue, undone, approved, refused)
    BY DEF Inv, Recorded
  <2>2. RecordedIn(confirmations, Asked, overdue, undone, approved, refused')
    <3>1. \A r \in refused' \ undone : \E d \in DOMAIN confirmations :
            /\ r \in Ids(confirmations[d]) \ Lets(confirmations[d])
            /\ confirmations[d].status = "pending" => d \in overdue
      BY <1>6, <1>8, <1>9, <2>1 DEF RecordedIn
    <3> QED BY <2>1, <3>1 DEF RecordedIn
  <2> QED BY <1>4, <2>2 DEF Inv, Recorded
<1>11. Counted' /\ StillVersions /\ Versions(confirmations)'
  <2>1. Counted'
    BY <1>4 DEF Inv, Counted
  <2>2. Versions(confirmations)'
    BY DEF Inv, Copies, Versions, Version
  <2> QED BY <2>1, <2>2 DEF StillVersions
<1>12. Copies'
  BY <1>11, CopiesQuiet
<1>13. Decisive' /\ deciding' \in [Numbers -> Deciding]
  <2>1. PICK left : left = deciding[c].left
    OBVIOUS
  <2>2. deciding' = [deciding EXCEPT ![c] = [deciding[c] EXCEPT !.at = "reported", !.left = left]]
    BY <1>1, <2>1 DEF Deciding
  <2> QED BY <1>1, <1>11, <2>1, <2>2, DecidingKeeps
<1>14. Posts'
  BY PostsQuiet
<1>15. refused' \subseteq Requests
  <2>1. Ids(x) \subseteq Requests
    BY <1>3, LetsIs
  <2> QED BY <1>6, <1>7, <2>1 DEF Inv, Typed
<1>16. Typed'
  BY <1>13, <1>15 DEF Inv, Typed
<1> QED BY <1>10, <1>11, <1>12, <1>13, <1>14, <1>16 DEF Inv

\* One record written back is all of them, with the one changed.
LEMMA WriteOneIs ==
  ASSUME Inv, NEW c \in DOMAIN confirmations, NEW x \in Records,
         VersionOf(confirmations, overdue, undone, approved, c, x)
  PROVE  /\ [confirmations EXCEPT ![c] = x] \in Seq(Records)
         /\ \A d \in DOMAIN [confirmations EXCEPT ![c] = x] :
              VersionOf(confirmations, overdue, undone, approved, d, [confirmations EXCEPT ![c] = x][d])
<1>1. confirmations \in Seq(Records)
  BY DEF Inv, Typed
<1>2. \A d \in DOMAIN confirmations : VersionOf(confirmations, overdue, undone, approved, d, confirmations[d])
  BY DEF Inv, Copies, Versions, Version
<1>3. PICK copy : copy = [confirmations EXCEPT ![c] = x]
  OBVIOUS
<1>4. copy \in Seq(Records) /\ DOMAIN copy = DOMAIN confirmations /\ copy[c] = x
  BY <1>1, <1>3
<1>5. \A d \in DOMAIN confirmations : d # c => copy[d] = confirmations[d]
  BY <1>1, <1>3
<1> QED BY <1>2, <1>3, <1>4, <1>5

\* The record of the decision is written over what is there.
LEMMA PersistDecisionKeeps ==
  ASSUME Inv, NEW c \in Numbers, PersistDecision(c)
  PROVE  Inv'
<1> USE DEF PersistDecision, outside
<1>1. deciding \in [Numbers -> Deciding]
  BY DEF Inv, Typed
<1>2. PICK x, y : x = deciding[c].record /\ y = [x EXCEPT !.done = TRUE]
  OBVIOUS
<1>3. /\ x \in Records /\ VersionOf(confirmations, overdue, undone, approved, c, x)
      /\ c \in DOMAIN confirmations
  BY <1>2 DEF Inv, Decisive, Version, VersionOf
<1>4. y \in Records /\ y.ids = x.ids /\ y.status = x.status
  BY <1>2, <1>3 DEF Records
<1>5. VersionOf(confirmations, overdue, undone, approved, c, y)
  BY <1>3, <1>4, SameVersion
<1>6. PICK copy : copy = [confirmations EXCEPT ![c] = y]
  OBVIOUS
<1>7. copy \in Seq(Records) /\ \A d \in DOMAIN copy : VersionOf(confirmations, overdue, undone, approved, d, copy[d])
  BY <1>3, <1>4, <1>5, <1>6, WriteOneIs
<1>8. WriteAll(copy)
  BY <1>2, <1>6 DEF WriteOne
<1>9. Asked' = Asked
  BY DEF Asked
<1>10. /\ confirmations' \in Seq(Records) /\ DOMAIN confirmations' = DOMAIN confirmations
       /\ undone' \subseteq Requests /\ undone \subseteq undone'
       /\ Counted' /\ Recorded' /\ StillVersions /\ Versions(confirmations)'
  BY <1>7, <1>8, <1>9, WritesKeep
<1>11. Copies'
  BY <1>10, CopiesQuiet
<1>12. PICK none : none = NoDecision
  OBVIOUS
<1>13. none \in Deciding /\ none.at = "idle" /\ none.left = <<>>
  <2>1. <<>> \in Seq(Requests)
    BY EmptySeq
  <2> QED BY <1>12, <2>1 DEF NoDecision, Deciding
<1>14. deciding' \in [Numbers -> Deciding] /\ deciding'[c] = none /\ \A d \in Numbers : d # c => deciding'[d] = deciding[d]
  BY <1>1, <1>12, <1>13
<1>15. Decisive'
  <2>1. \A d \in Numbers :
          IF deciding[d].at = "idle" THEN deciding[d].left = <<>>
          ELSE /\ deciding[d].record \in Records /\ deciding[d].record.status # "pending"
               /\ VersionOf(confirmations, overdue, undone, approved, d, deciding[d].record)
               /\ deciding[d].answers \subseteq Ids(deciding[d].record)
               /\ ToSet(deciding[d].left) \subseteq approved
    BY DEF Inv, Decisive, Version
  <2>2. ASSUME NEW d \in Numbers
        PROVE  IF deciding'[d].at = "idle" THEN deciding'[d].left = <<>>
               ELSE /\ deciding'[d].record \in Records /\ deciding'[d].record.status # "pending"
                    /\ VersionOf(confirmations', overdue', undone', approved', d, deciding'[d].record)
                    /\ deciding'[d].answers \subseteq Ids(deciding'[d].record)
                    /\ ToSet(deciding'[d].left) \subseteq approved'
    <3>1. CASE d = c
      BY <1>13, <1>14, <3>1
    <3>2. CASE d # c
      BY <1>10, <1>14, <2>1, <3>2 DEF StillVersions
    <3> QED BY <3>1, <3>2
  <2> QED BY <2>2 DEF Decisive, Version
<1>16. Posts'
  BY PostsQuiet
<1>17. Typed'
  BY <1>10, <1>14 DEF Inv, Typed
<1> QED BY <1>10, <1>11, <1>15, <1>16, <1>17 DEF Inv

-----------------------------------------------------------------------------
(* Cards, deadlines, the sweep.                                            *)

\* A call for a card that has read the records, or is over.
LEMMA PromptingKeeps ==
  ASSUME Inv, NEW c \in Numbers, NEW call \in Copying,
         prompting' = [prompting EXCEPT ![c] = call], UNCHANGED expiring,
         StillVersions, Versions(confirmations)', DOMAIN confirmations \subseteq DOMAIN confirmations',
         \A d \in DOMAIN call.copy : VersionOf(confirmations', overdue', undone', approved', d, call.copy[d]),
         call.at = "called" => c \in DOMAIN confirmations',
         call.at \in {"read", "sending"} => c \in DOMAIN call.copy
  PROVE  Copies' /\ prompting' \in [Numbers -> Copying]
<1>1. prompting \in [Numbers -> Copying]
  BY DEF Inv, Typed
<1>2. /\ prompting' \in [Numbers -> Copying] /\ prompting'[c] = call
      /\ \A d \in Numbers : d # c => prompting'[d] = prompting[d]
  BY <1>1
<1>3. \A d \in DOMAIN expiring.copy : VersionOf(confirmations, overdue, undone, approved, d, expiring.copy[d])
  BY DEF Inv, Copies, Versions, Version
<1>4. Versions(expiring.copy)'
  BY <1>3 DEF StillVersions, Versions, Version
<1>5. ASSUME NEW d \in Numbers
      PROVE  /\ \A e \in DOMAIN prompting'[d].copy :
                  VersionOf(confirmations', overdue', undone', approved', e, prompting'[d].copy[e])
             /\ prompting'[d].at = "called" => d \in DOMAIN confirmations'
             /\ prompting'[d].at \in {"read", "sending"} => d \in DOMAIN prompting'[d].copy
  <2>1. CASE d = c
    BY <1>2, <2>1
  <2>2. CASE d # c
    <3>1. /\ \A e \in DOMAIN prompting[d].copy :
               VersionOf(confirmations, overdue, undone, approved, e, prompting[d].copy[e])
          /\ prompting[d].at = "called" => d \in DOMAIN confirmations
          /\ prompting[d].at \in {"read", "sending"} => d \in DOMAIN prompting[d].copy
      BY DEF Inv, Copies, Versions, Version
    <3> QED BY <1>2, <2>2, <3>1 DEF StillVersions
  <2> QED BY <2>1, <2>2
<1>6. \A d \in Numbers : Versions(prompting[d].copy)'
  BY <1>5 DEF Versions, Version
<1> QED BY <1>2, <1>4, <1>5, <1>6 DEF Copies

\* A call that is over.
LEMMA NoCopyIs == NoCopy \in Copying /\ NoCopy \in Sweeping /\ NoCopy.at = "idle" /\ DOMAIN NoCopy.copy = {}
<1>1. PICK e : e = <<>> /\ e \in Seq(Records)
  BY EmptySeq
<1>2. Len(e) = 0 /\ DOMAIN e = 1 .. Len(e)
  BY <1>1, EmptySeq
<1>3. DOMAIN e = {}
  BY <1>2
<1>4. NoCopy = [at |-> "idle", copy |-> e]
  BY <1>1 DEF NoCopy
<1> QED BY <1>1, <1>3, <1>4 DEF Copying, Sweeping

\* The copy a prompt reads is the records themselves.
LEMMA PromptReadsKeeps ==
  ASSUME Inv, NEW c \in Numbers, PromptReads(c)
  PROVE  Inv'
<1> USE DEF PromptReads, PromptGoesTo, outside
<1>1. Asked' = Asked
  BY DEF Asked
<1>2. Counted' /\ Recorded' /\ StillVersions /\ Versions(confirmations)'
  BY <1>1, RecordsQuiet
<1>3. c \in DOMAIN confirmations /\ confirmations \in Seq(Records)
  BY DEF Inv, Typed, Copies
<1>4. PICK call : call = [at |-> "read", copy |-> confirmations]
  OBVIOUS
<1>5. call \in Copying /\ call.at = "read" /\ call.copy = confirmations
  BY <1>3, <1>4 DEF Copying
<1>6. \A d \in DOMAIN confirmations : VersionOf(confirmations', overdue', undone', approved', d, confirmations[d])
  BY <1>2 DEF Versions, Version
<1>7. Copies' /\ prompting' \in [Numbers -> Copying]
  BY <1>2, <1>3, <1>4, <1>5, <1>6, PromptingKeeps
<1>8. Decisive'
  BY <1>2, DecisiveQuiet
<1>9. Posts'
  BY PostsQuiet
<1>10. Typed'
  BY <1>7 DEF Inv, Typed
<1> QED BY <1>2, <1>7, <1>8, <1>9, <1>10 DEF Inv

\* The records it read are written, with the mark that its card is on the way.
LEMMA PromptStartsKeeps ==
  ASSUME Inv, NEW c \in Numbers, PromptStarts(c)
  PROVE  Inv'
<1> USE DEF PromptStarts, PromptGoesTo, outside
<1>1. prompting \in [Numbers -> Copying] /\ prompting[c].copy \in Seq(Records) /\ c \in DOMAIN prompting[c].copy
  BY DEF Inv, Typed, Copies, Copying
<1>2. PICK old, copy : old = prompting[c].copy /\ copy = [old EXCEPT ![c].prompt = "dispatching"]
  OBVIOUS
<1>3. old \in Seq(Records) /\ c \in DOMAIN old /\ old[c] \in Records
  BY <1>1, <1>2
<1>4. PICK x : x = [old[c] EXCEPT !.prompt = "dispatching"]
  OBVIOUS
<1>5. x \in Records /\ x.ids = old[c].ids /\ x.status = old[c].status
  BY <1>3, <1>4 DEF Records
<1>6. copy = [old EXCEPT ![c] = x]
  BY <1>2, <1>3, <1>4 DEF Records
<1>7. /\ copy \in Seq(Records) /\ DOMAIN copy = DOMAIN old /\ copy[c] = x
      /\ \A d \in DOMAIN old : d # c => copy[d] = old[d]
  BY <1>3, <1>5, <1>6
<1>8. \A d \in DOMAIN old : VersionOf(confirmations, overdue, undone, approved, d, old[d])
  BY <1>2 DEF Inv, Copies, Versions, Version
<1>9. \A d \in DOMAIN copy : VersionOf(confirmations, overdue, undone, approved, d, copy[d])
  <2>1. VersionOf(confirmations, overdue, undone, approved, c, x)
    BY <1>3, <1>5, <1>8, SameVersion
  <2> QED BY <1>7, <1>8, <2>1
<1>10. Asked' = Asked
  BY DEF Asked
<1>11. CASE WriteAll(copy) /\ prompting' = [prompting EXCEPT ![c] = [at |-> "sending", copy |-> copy]]
  <2>1. /\ confirmations' \in Seq(Records) /\ DOMAIN confirmations' = DOMAIN confirmations
        /\ undone' \subseteq Requests /\ undone \subseteq undone'
        /\ Counted' /\ Recorded' /\ StillVersions /\ Versions(confirmations)'
    BY <1>7, <1>9, <1>10, <1>11, WritesKeep
  <2>2. PICK call : call = [at |-> "sending", copy |-> copy]
    OBVIOUS
  <2>3. call \in Copying /\ call.at = "sending" /\ call.copy = copy
    BY <1>7, <2>2 DEF Copying
  <2>4. \A d \in DOMAIN copy : VersionOf(confirmations', overdue', undone', approved', d, copy[d])
    BY <1>9, <2>1 DEF StillVersions
  <2>5. Copies' /\ prompting' \in [Numbers -> Copying]
    BY <1>3, <1>7, <1>11, <2>1, <2>2, <2>3, <2>4, PromptingKeeps
  <2>6. Decisive'
    BY <2>1, DecisiveQuiet
  <2>7. Posts'
    BY PostsQuiet
  <2>8. Typed'
    BY <2>1, <2>5 DEF Inv, Typed
  <2> QED BY <2>1, <2>5, <2>6, <2>7, <2>8 DEF Inv
<1>12. CASE prompting' = [prompting EXCEPT ![c] = NoCopy] /\ UNCHANGED <<confirmations, undone>>
  <2>1. Counted' /\ Recorded' /\ StillVersions /\ Versions(confirmations)'
    BY <1>10, <1>12, RecordsQuiet
  <2>2. PICK call : call = NoCopy
    OBVIOUS
  <2>3. call \in Copying /\ call.at = "idle" /\ DOMAIN call.copy = {}
    BY <2>2, NoCopyIs
  <2>4. Copies' /\ prompting' \in [Numbers -> Copying]
    BY <1>12, <2>1, <2>2, <2>3, PromptingKeeps
  <2>5. Decisive'
    BY <2>1, DecisiveQuiet
  <2>6. Posts'
    BY PostsQuiet
  <2>7. Typed'
    BY <1>12, <2>4 DEF Inv, Typed
  <2> QED BY <2>1, <2>4, <2>5, <2>6, <2>7 DEF Inv
<1> QED BY <1>2, <1>11, <1>12

\* The record it read is written, with what became of the card.
LEMMA PromptEndsKeeps ==
  ASSUME Inv, NEW c \in Numbers, NEW outcome \in {"sent", "failed"}, PromptEnds(c, outcome)
  PROVE  Inv'
<1> USE DEF PromptEnds, PromptGoesTo, outside
<1>1. prompting \in [Numbers -> Copying] /\ prompting[c].copy \in Seq(Records) /\ c \in DOMAIN prompting[c].copy
  BY DEF Inv, Typed, Copies, Copying
<1>2. PICK x, y : x = prompting[c].copy[c] /\ y = [x EXCEPT !.prompt = outcome]
  OBVIOUS
<1>3. x \in Records /\ VersionOf(confirmations, overdue, undone, approved, c, x)
  BY <1>1, <1>2 DEF Inv, Copies, Versions, Version
<1>4. y \in Records /\ y.ids = x.ids /\ y.status = x.status /\ c \in DOMAIN confirmations
  BY <1>2, <1>3 DEF Records, VersionOf
<1>5. VersionOf(confirmations, overdue, undone, approved, c, y)
  BY <1>3, <1>4, SameVersion
<1>6. PICK copy : copy = [confirmations EXCEPT ![c] = y]
  OBVIOUS
<1>7. copy \in Seq(Records) /\ \A d \in DOMAIN copy : VersionOf(confirmations, overdue, undone, approved, d, copy[d])
  BY <1>4, <1>5, <1>6, WriteOneIs
<1>8. WriteAll(copy)
  BY <1>2, <1>6 DEF WriteOne
<1>9. Asked' = Asked
  BY DEF Asked
<1>10. /\ confirmations' \in Seq(Records) /\ DOMAIN confirmations' = DOMAIN confirmations
       /\ undone' \subseteq Requests /\ undone \subseteq undone'
       /\ Counted' /\ Recorded' /\ StillVersions /\ Versions(confirmations)'
  BY <1>7, <1>8, <1>9, WritesKeep
<1>11. PICK call : call = NoCopy
  OBVIOUS
<1>12. call \in Copying /\ call.at = "idle" /\ DOMAIN call.copy = {}
  BY <1>11, NoCopyIs
<1>13. Copies' /\ prompting' \in [Numbers -> Copying]
  BY <1>10, <1>11, <1>12, PromptingKeeps
<1>14. Decisive'
  BY <1>10, DecisiveQuiet
<1>15. Posts'
  BY PostsQuiet
<1>16. Typed'
  BY <1>10, <1>13 DEF Inv, Typed
<1> QED BY <1>10, <1>13, <1>14, <1>15, <1>16 DEF Inv

\* The records are as they were, but more may be late, undone or told.
LEMMA RecordsStay ==
  ASSUME Inv, UNCHANGED <<confirmations, approved>>, Asked' = Asked, overdue \subseteq overdue',
         undone \subseteq undone', undone' \subseteq Asked,
         \A r \in (refused' \ refused) \ undone' : \E c \in DOMAIN confirmations :
           /\ r \in Ids(confirmations[c]) \ Lets(confirmations[c])
           /\ confirmations[c].status = "pending" => c \in overdue'
  PROVE  Counted' /\ Recorded' /\ StillVersions /\ Versions(confirmations)'
<1>1. Counted'
  BY DEF Inv, Counted
<1>2. Moves(confirmations, confirmations, overdue, undone')
  BY DEF Moves
<1>3. StillVersions
  <2>1. \A c, x : VersionOf(confirmations, overdue, undone, approved, c, x)
                    => VersionOf(confirmations, overdue', undone', approved, c, x)
    BY <1>2, VersionKept
  <2> QED BY <2>1 DEF StillVersions
<1>4. Versions(confirmations)'
  BY <1>3 DEF StillVersions, Inv, Copies, Versions, Version
<1>5. Recorded'
  <2>1. /\ approved \subseteq Asked /\ Sound(confirmations)
        /\ RecordedIn(confirmations, Asked, overdue, undone, approved, refused)
    BY RecordsSound DEF Inv, Recorded
  <2>2. Goes(confirmations, confirmations, Asked, Asked, overdue, overdue', undone, undone',
             approved, approved, refused, refused', 0)
    BY <1>2, <2>1 DEF Goes
  <2>3. RecordedIn(confirmations, Asked, overdue', undone', approved, refused')
    BY <2>1, <2>2, RecordedKept
  <2> QED BY <2>1, <2>3 DEF Recorded
<1> QED BY <1>1, <1>3, <1>4, <1>5

\* A deadline only adds a record to those that are late.
LEMMA DeadlineKeeps ==
  ASSUME Inv, NEW c \in Numbers, Deadline(c)
  PROVE  Inv'
<1> USE DEF Deadline, database, calls, history
<1>1. Asked' = Asked
  BY DEF Asked
<1>2. Counted' /\ Recorded' /\ StillVersions /\ Versions(confirmations)'
  BY <1>1, RecordsStay DEF Inv, Recorded
<1>3. Copies'
  BY <1>2, CopiesQuiet
<1>4. Decisive'
  BY <1>2, DecisiveQuiet
<1>5. Posts'
  BY PostsQuiet
<1>6. Typed'
  BY DEF Inv, Typed
<1> QED BY <1>2, <1>3, <1>4, <1>5, <1>6 DEF Inv

\* The sweep's copy.
LEMMA ExpiringKeeps ==
  ASSUME Inv, StillVersions, Versions(confirmations)', UNCHANGED prompting,
         DOMAIN confirmations \subseteq DOMAIN confirmations',
         \A d \in DOMAIN expiring'.copy :
           VersionOf(confirmations', overdue', undone', approved', d, expiring'.copy[d])
  PROVE  Copies'
<1>1. \A c \in Numbers : \A d \in DOMAIN prompting[c].copy :
        VersionOf(confirmations, overdue, undone, approved, d, prompting[c].copy[d])
  BY DEF Inv, Copies, Versions, Version
<1>2. \A c \in Numbers : Versions(prompting[c].copy)'
  BY <1>1 DEF StillVersions, Versions, Version
<1>3. \A c \in Numbers :
        /\ prompting[c].at = "called" => c \in DOMAIN confirmations'
        /\ prompting[c].at \in {"read", "sending"} => c \in DOMAIN prompting[c].copy
  BY DEF Inv, Copies
<1>4. Versions(expiring.copy)'
  BY DEF Versions, Version
<1> QED BY <1>2, <1>3, <1>4 DEF Copies

\* The copy the sweep reads is the records themselves.
LEMMA SweepReadsKeeps ==
  ASSUME Inv, SweepReads
  PROVE  Inv'
<1> USE DEF SweepReads, database, outside, history
<1>1. Asked' = Asked
  BY DEF Asked
<1>2. Counted' /\ Recorded' /\ StillVersions /\ Versions(confirmations)'
  BY <1>1, RecordsQuiet
<1>3. expiring'.copy = confirmations
  OBVIOUS
<1>4. \A d \in DOMAIN confirmations : VersionOf(confirmations', overdue', undone', approved', d, confirmations[d])
  BY <1>2 DEF Versions, Version
<1>5. Copies'
  BY <1>2, <1>3, <1>4, ExpiringKeeps
<1>6. Decisive'
  BY <1>2, DecisiveQuiet
<1>7. Posts'
  BY PostsQuiet
<1>8. expiring' \in Sweeping
  BY DEF Inv, Typed, Sweeping
<1>9. Typed'
  BY <1>8 DEF Inv, Typed
<1> QED BY <1>2, <1>5, <1>6, <1>7, <1>9 DEF Inv

\* What the sweep writes back is a version of every record.
LEMMA SweepWritesKeeps ==
  ASSUME Inv, SweepWrites
  PROVE  Inv'
<1> USE DEF SweepWrites, outside
<1>1. PICK copy : copy = expiring.copy
  OBVIOUS
<1>2. copy \in Seq(Records) /\ \A d \in DOMAIN copy : VersionOf(confirmations, overdue, undone, approved, d, copy[d])
  BY <1>1 DEF Inv, Typed, Sweeping, Copies, Versions, Version
<1>3. Asked' = Asked
  BY DEF Asked
<1>4. /\ confirmations' \in Seq(Records) /\ DOMAIN confirmations' = DOMAIN confirmations
      /\ undone' \subseteq Requests /\ undone \subseteq undone'
      /\ Counted' /\ Recorded' /\ StillVersions /\ Versions(confirmations)'
  BY <1>1, <1>2, <1>3, WritesKeep
<1>5. DOMAIN expiring'.copy = {} /\ expiring' \in Sweeping
  BY NoCopyIs
<1>6. Copies'
  BY <1>4, <1>5, ExpiringKeeps
<1>7. Decisive'
  BY <1>4, DecisiveQuiet
<1>8. Posts'
  BY PostsQuiet
<1>9. Typed'
  BY <1>4, <1>5 DEF Inv, Typed
<1> QED BY <1>4, <1>6, <1>7, <1>8, <1>9 DEF Inv

\* The sweep tells of what expired in its copy, and that was late; a request decided
\* meanwhile counts as undone.
LEMMA SweepReportsKeeps ==
  ASSUME Inv, SweepReports
  PROVE  Inv'
<1>0. /\ UNCHANGED <<confirmations, grant, intents, request, delivery, deciding, prompting, overdue,
                     posted, host, approved, dropped, hitches>>
  BY DEF SweepReports, database
<1>1. PICK old, expired : old = expiring.copy /\ expired = ExpiredIn(old)
  OBVIOUS
<1>2. PICK copy : copy = [c \in DOMAIN old |->
                    IF c \in expired THEN [old[c] EXCEPT !.status = "expired", !.done = TRUE]
                    ELSE old[c]]
  OBVIOUS
<1>3. /\ expiring' = [at |-> "reported", copy |-> copy]
      /\ undone' = undone \cup UndoneIn(confirmations, copy)
      /\ refused' = refused \cup UNION {Ids(old[c]) : c \in expired}
  BY <1>1, <1>2 DEF SweepReports, UndoneBy, UndoneIn
<1>4. /\ old \in Seq(Records) /\ DOMAIN old = 1 .. Len(old) /\ Len(old) \in Nat
      /\ \A c \in DOMAIN old : old[c] \in Records
      /\ \A c \in DOMAIN old : VersionOf(confirmations, overdue, undone, approved, c, old[c])
  <2>1. old \in Seq(Records)
    BY <1>1 DEF Inv, Typed, Sweeping
  <2>2. DOMAIN old = 1 .. Len(old) /\ Len(old) \in Nat /\ \A c \in DOMAIN old : old[c] \in Records
    BY <2>1
  <2>3. \A c \in DOMAIN old : VersionOf(confirmations, overdue, undone, approved, c, old[c])
    BY <1>1 DEF Inv, Copies, Versions, Version
  <2> QED BY <2>1, <2>2, <2>3
<1>5. \A c \in expired : c \in DOMAIN old /\ old[c].status = "pending" /\ c \in overdue
  BY <1>1 DEF ExpiredIn
<1>6. ASSUME NEW c \in DOMAIN old
      PROVE  /\ copy[c] \in Records /\ copy[c].ids = old[c].ids
             /\ c \in expired => copy[c].status = "expired"
             /\ c \notin expired => copy[c] = old[c]
  <2>1. CASE c \in expired
    <3>1. copy[c] = [old[c] EXCEPT !.status = "expired", !.done = TRUE]
      BY <1>2, <2>1
    <3> QED BY <1>4, <2>1, <3>1 DEF Records
  <2>2. CASE c \notin expired
    BY <1>2, <1>4, <2>2
  <2> QED BY <2>1, <2>2
<1>7. copy \in Seq(Records) /\ DOMAIN copy = DOMAIN old
  <2>1. copy \in [1 .. Len(old) -> Records] /\ DOMAIN copy = DOMAIN old
    BY <1>2, <1>4, <1>6
  <2>2. \A f \in [1 .. Len(old) -> Records] : f \in Seq(Records)
    BY <1>4
  <2> QED BY <2>1, <2>2
<1>8. Asked' = Asked
  BY <1>0 DEF Asked
<1>9. \A c \in DOMAIN copy : c \in DOMAIN confirmations
  BY <1>4, <1>7 DEF VersionOf
<1>10. \A c \in DOMAIN confirmations : Ids(confirmations[c]) \subseteq Requests \cap Asked
  BY RecordsSound
<1>11. undone' \subseteq Requests /\ undone' \subseteq Asked /\ undone \subseteq undone'
  <2>1. undone \subseteq Requests /\ undone \subseteq Asked
    BY DEF Inv, Typed, Recorded
  <2> QED BY <1>3, <1>9, <1>10, <2>1 DEF UndoneIn
\* A record told of is late, and its requests are undone if it was decided.
<1>12. ASSUME NEW c \in expired, NEW r \in Ids(old[c]) \ undone'
       PROVE  /\ c \in DOMAIN confirmations /\ r \in Ids(confirmations[c])
              /\ confirmations[c].status \in {"pending", "expired"} /\ c \in overdue
  <2>1. r \in Ids(confirmations[c]) /\ c \in DOMAIN confirmations
    BY <1>4, <1>5, <1>11, <1>12 DEF VersionOf
  <2>2. copy[c].status = "expired" /\ c \in DOMAIN copy
    BY <1>5, <1>6, <1>7
  <2>3. r \notin UndoneIn(confirmations, copy)
    BY <1>3, <1>12
  <2>4. confirmations[c].status \in {"pending", copy[c].status}
    BY <2>1, <2>2, <2>3 DEF UndoneIn
  <2> QED BY <1>5, <2>1, <2>2, <2>4
<1>13. \A r \in (refused' \ refused) \ undone' : \E c \in DOMAIN confirmations :
           /\ r \in Ids(confirmations[c]) \ Lets(confirmations[c])
           /\ confirmations[c].status = "pending" => c \in overdue
  <2> SUFFICES ASSUME NEW r \in (refused' \ refused) \ undone'
               PROVE  \E c \in DOMAIN confirmations :
                        /\ r \in Ids(confirmations[c]) \ Lets(confirmations[c])
                        /\ confirmations[c].status = "pending" => c \in overdue
    OBVIOUS
  <2>1. PICK c \in expired : r \in Ids(old[c])
    BY <1>3
  <2>2. /\ c \in DOMAIN confirmations /\ r \in Ids(confirmations[c])
        /\ confirmations[c].status \in {"pending", "expired"} /\ c \in overdue
    BY <1>12, <2>1
  <2>3. confirmations[c] \in Records /\ confirmations[c].ids # <<>>
    BY <2>2, RecordsSound
  <2>4. r \notin Lets(confirmations[c])
    BY <2>2, <2>3, LetsIs
  <2> QED BY <2>2, <2>4
<1>14. Counted' /\ Recorded' /\ StillVersions /\ Versions(confirmations)'
  BY <1>0, <1>8, <1>11, <1>13, RecordsStay
<1>15. ASSUME NEW d \in DOMAIN copy
       PROVE  VersionOf(confirmations, overdue, undone', approved, d, copy[d])
  <2>0. VersionOf(confirmations, overdue, undone', approved, d, old[d])
    BY <1>0, <1>4, <1>7, <1>14 DEF StillVersions
  <2>1. CASE d \notin expired
    BY <1>6, <1>7, <2>0, <2>1
  <2>2. CASE d \in expired
    <3>1. /\ copy[d].ids = old[d].ids /\ copy[d].status = "expired" /\ Ids(copy[d]) = Ids(old[d])
          /\ copy[d] \in Records
      BY <1>6, <1>7, <2>2 DEF Ids
    <3>2. copy[d].ids # <<>>
      BY <2>0, <3>1 DEF VersionOf
    <3>3. Lets(copy[d]) = {}
      BY <3>1, <3>2, LetsIs
    <3>4. \A r \in Ids(copy[d]) \ undone' :
             /\ r \in Ids(confirmations[d])
             /\ \/ copy[d].status \in {"pending", confirmations[d].status}
                \/ copy[d].status = "expired" /\ confirmations[d].status = "pending" /\ d \in overdue
      BY <1>12, <2>2, <3>1
    <3> QED BY <2>0, <3>1, <3>2, <3>3, <3>4 DEF VersionOf
  <2> QED BY <2>1, <2>2
<1>16. Copies'
  <2>1. \A d \in DOMAIN expiring'.copy :
           VersionOf(confirmations', overdue', undone', approved', d, expiring'.copy[d])
    BY <1>0, <1>3, <1>15
  <2> QED BY <1>0, <1>14, <2>1, ExpiringKeeps
<1>17. Decisive'
  BY <1>0, <1>14, DecisiveQuiet
<1>18. Posts'
  BY <1>0, PostsQuiet
<1>19. expiring' \in Sweeping
  BY <1>3, <1>7 DEF Sweeping
<1>20. refused' \subseteq Requests
  <2>1. \A c \in DOMAIN old : Ids(old[c]) \subseteq Requests
    BY <1>4, LetsIs DEF VersionOf
  <2>2. refused \subseteq Requests
    BY DEF Inv, Typed
  <2> QED BY <1>3, <1>5, <2>1, <2>2
<1>21. Typed'
  BY <1>0, <1>11, <1>19, <1>20 DEF Inv, Typed
<1> QED BY <1>14, <1>16, <1>17, <1>18, <1>21 DEF Inv

-----------------------------------------------------------------------------
(* The process ends.                                                       *)

\* No call, and nothing being posted.
LEMMA NoCallsTyped ==
  ASSUME NEW posts, NEW decisions, NEW cards, NEW sweep,
         posts = [r \in Requests |-> NoDelivery], decisions = [c \in Numbers |-> NoDecision],
         cards = [c \in Numbers |-> NoCopy], sweep = NoCopy
  PROVE  /\ posts \in [Requests -> Posting] /\ decisions \in [Numbers -> Deciding]
         /\ cards \in [Numbers -> Copying] /\ sweep \in Sweeping
         /\ \A r \in Requests : posts[r].at = "none"
         /\ \A c \in Numbers : decisions[c].at = "idle" /\ decisions[c].left = <<>>
         /\ \A c \in Numbers : cards[c].at = "idle" /\ DOMAIN cards[c].copy = {}
         /\ DOMAIN sweep.copy = {}
<1>1. NoDelivery \in Posting /\ NoDelivery.at = "none"
  BY DEF NoDelivery, Posting
<1>2. NoDecision \in Deciding /\ NoDecision.at = "idle" /\ NoDecision.left = <<>>
  <2>1. <<>> \in Seq(Requests)
    BY EmptySeq
  <2> QED BY <2>1 DEF NoDecision, Deciding
<1> QED BY <1>1, <1>2, NoCopyIs

\* What is in memory is lost.
LEMMA CrashKeeps ==
  ASSUME Inv, Crash
  PROVE  Inv'
<1> USE DEF Crash, database, outside
<1>1. /\ delivery' = [r \in Requests |-> NoDelivery] /\ deciding' = [c \in Numbers |-> NoDecision]
      /\ prompting' = [c \in Numbers |-> NoCopy] /\ expiring' = NoCopy
  OBVIOUS
<1>2. /\ delivery' \in [Requests -> Posting] /\ deciding' \in [Numbers -> Deciding]
      /\ prompting' \in [Numbers -> Copying] /\ expiring' \in Sweeping
      /\ \A r \in Requests : delivery'[r].at = "none"
      /\ \A c \in Numbers : deciding'[c].at = "idle" /\ deciding'[c].left = <<>>
      /\ \A c \in Numbers : prompting'[c].at = "idle" /\ DOMAIN prompting'[c].copy = {}
      /\ DOMAIN expiring'.copy = {}
  BY <1>1, NoCallsTyped
<1>3. request \in [Requests -> Asking]
  BY DEF Inv, Typed
<1>4. request' \in [Requests -> Asking]
  BY <1>3 DEF Asking, Grants
<1>5. Asked' = Asked
  BY <1>3 DEF Asked
<1>6. dropped' \subseteq approved
  <2>1. \A r \in Requests : delivery[r] = [at |-> "begin", of |-> 0] => r \in approved
    BY DEF Inv, Posts
  <2> QED BY <2>1 DEF Inv, Typed
<1>7. Counted' /\ Recorded' /\ StillVersions /\ Versions(confirmations)'
  BY <1>5, RecordsQuiet
<1>8. Typed'
  BY <1>2, <1>4, <1>6 DEF Inv, Typed
<1>9. Copies'
  <2>1. Versions(expiring.copy)' /\ \A c \in Numbers : Versions(prompting[c].copy)'
    BY <1>2 DEF Versions
  <2> QED BY <1>2, <1>7, <2>1 DEF Copies
<1>10. Decisive'
  BY <1>2 DEF Decisive
<1>11. Posts'
  BY <1>2 DEF Inv, Posts
<1> QED BY <1>7, <1>8, <1>9, <1>10, <1>11 DEF Inv

-----------------------------------------------------------------------------
(* A request is prepared.                                                  *)

\* One more that is prepared.
LEMMA PreparedIs ==
  ASSUME Bounds, Inv, NEW r \in Requests, request[r].at = "locked",
         request' = [request EXCEPT ![r].at = "prepared"]
  PROVE  /\ request' \in [Requests -> Asking] /\ r \notin Asked /\ Asked' = Asked \cup {r}
         /\ Cardinality(Asked') = Cardinality(Asked) + 1 /\ Cardinality(Asked) \in Nat
<1>1. request \in [Requests -> Asking]
  BY DEF Inv, Typed
<1>2. request' \in [Requests -> Asking]
  BY <1>1 DEF Asking
<1>3. request'[r].at = "prepared" /\ \A q \in Requests : q # r => request'[q] = request[q]
  BY <1>1 DEF Asking
<1>4. r \notin Asked /\ Asked' = Asked \cup {r}
  BY <1>3 DEF Asked
<1>5. IsFiniteSet(Asked) /\ Cardinality(Asked) \in Nat
  BY FewRecords
<1>6. Cardinality(Asked \cup {r}) = Cardinality(Asked) + 1
  BY <1>4, <1>5, FS_AddElement
<1> QED BY <1>2, <1>4, <1>5, <1>6

\* A grant lets it through: it is in no record.
LEMMA UseGrantKeeps ==
  ASSUME Bounds, Inv, NEW r \in Requests, Prepared(r), UseGrant(r)
  PROVE  Inv'
<1> USE DEF Prepared, UseGrant, outside
<1>1. /\ request' \in [Requests -> Asking] /\ r \notin Asked /\ Asked' = Asked \cup {r}
      /\ Cardinality(Asked') = Cardinality(Asked) + 1 /\ Cardinality(Asked) \in Nat
  BY PreparedIs
<1>2. approved' = approved \cup {r} /\ UNCHANGED <<confirmations, overdue, undone, refused, prompting, expiring, deciding>>
  OBVIOUS
<1>3. Posts' /\ delivery' \in [Requests -> Posting]
  BY <1>2, DeliveryBecomesKeeps
<1>4. Moves(confirmations, confirmations, overdue, undone)
  BY DEF Moves
<1>5. StillVersions
  <2>1. approved \subseteq approved'
    BY <1>2
  <2>2. \A c, x : VersionOf(confirmations, overdue, undone, approved, c, x)
                    => VersionOf(confirmations, overdue, undone, approved', c, x)
    BY <1>4, <2>1, VersionKept
  <2> QED BY <1>2, <2>2 DEF StillVersions
<1>6. Versions(confirmations)'
  BY <1>2, <1>5 DEF StillVersions, Inv, Copies, Versions, Version
<1>7. Copies'
  BY <1>2, <1>5, <1>6, CopiesQuiet
<1>8. Decisive'
  BY <1>2, <1>5, DecisiveQuiet
<1>9. Recorded'
  <2>1. /\ approved \subseteq Asked /\ undone \subseteq Asked /\ Sound(confirmations)
        /\ RecordedIn(confirmations, Asked, overdue, undone, approved, refused)
    BY RecordsSound DEF Inv, Recorded
  <2>2. PICK asked : asked = Asked'
    OBVIOUS
  <2>3. Goes(confirmations, confirmations, Asked, asked, overdue, overdue, undone, undone,
             approved, approved', refused, refused, 0)
    BY <1>1, <1>2, <1>4, <2>1, <2>2 DEF Goes
  <2>4. RecordedIn(confirmations, asked, overdue, undone, approved', refused)
    BY <2>1, <2>3, RecordedKept
  <2> QED BY <1>1, <1>2, <2>1, <2>2, <2>4 DEF Recorded
<1>10. Counted'
  <2>1. Len(confirmations) <= Cardinality(Asked) /\ Len(confirmations) \in Nat
    BY RecordsSound DEF Inv, Counted
  <2> QED BY <1>1, <1>2, <2>1 DEF Counted
<1>11. Typed'
  BY <1>1, <1>3 DEF Inv, Typed, Grants
<1> QED BY <1>3, <1>7, <1>8, <1>9, <1>10, <1>11 DEF Inv

\* The owner is asked: the request comes to record c, which nobody has decided.
LEMMA AskingKeeps ==
  ASSUME Bounds, Inv, NEW r \in Requests, Prepared(r), AskOwner(r), NEW c \in Numbers,
         confirmations' \in Seq(Records),
         Len(confirmations') <= Len(confirmations) + 1,
         DOMAIN confirmations' = DOMAIN confirmations \cup {c},
         \A d \in DOMAIN confirmations : d # c => confirmations'[d] = confirmations[d],
         confirmations'[c].status = "pending", confirmations'[c].ids # <<>>,
         c \in DOMAIN confirmations =>
           /\ confirmations[c].status = "pending"
           /\ confirmations'[c].ids[1] = confirmations[c].ids[1]
           /\ Ids(confirmations[c]) \subseteq (Ids(confirmations[c]))',
         (Ids(confirmations[c]))' \subseteq {r} \cup (IF c \in DOMAIN confirmations THEN Ids(confirmations[c]) ELSE {}),
         prompting' = prompting \/ prompting' = [prompting EXCEPT ![c].at = "called"]
  PROVE  Inv'
<1> USE DEF Prepared, AskOwner, outside
<1>1. /\ request' \in [Requests -> Asking] /\ r \notin Asked /\ Asked' = Asked \cup {r}
      /\ Cardinality(Asked') = Cardinality(Asked) + 1 /\ Cardinality(Asked) \in Nat
  BY PreparedIs
<1>2. UNCHANGED <<approved, overdue, undone, refused, expiring, deciding, delivery, intents, posted, host, dropped, hitches>>
  OBVIOUS
<1>3. PICK now, next, asked : now = confirmations /\ next = confirmations' /\ asked = Asked'
  OBVIOUS
<1>4. /\ Sound(now) /\ \A d \in DOMAIN now : Lets(now[d]) \subseteq approved
      /\ \A d \in DOMAIN now : now[d] \in Records /\ now[d].ids # <<>>
  BY <1>3, RecordsSound
<1>5. /\ next \in Seq(Records) /\ DOMAIN next = DOMAIN now \cup {c}
      /\ \A d \in DOMAIN now : d # c => next[d] = now[d]
      /\ next[c].status = "pending" /\ next[c].ids # <<>>
      /\ c \in DOMAIN now => /\ now[c].status = "pending"
                             /\ next[c].ids[1] = now[c].ids[1]
                             /\ Ids(now[c]) \subseteq Ids(next[c])
      /\ Ids(next[c]) \subseteq {r} \cup (IF c \in DOMAIN now THEN Ids(now[c]) ELSE {})
  BY <1>3
<1>6. Sound(next) /\ next[c] \in Records
  BY <1>4, <1>5 DEF Sound
<1>7. Moves(now, next, overdue, undone)
  <2>1. \A d \in DOMAIN now : next[d].ids[1] = now[d].ids[1]
    BY <1>5
  <2>2. \A d \in DOMAIN now : Ids(now[d]) \subseteq Ids(next[d]) /\ next[d].status = now[d].status
    BY <1>5
  <2> QED BY <1>5, <2>1, <2>2 DEF Moves
<1>8. Lets(next[c]) = {}
  BY <1>5, <1>6, LetsIs
<1>9. StillVersions
  <2>1. \A d, x : VersionOf(now, overdue, undone, approved, d, x) => VersionOf(next, overdue, undone, approved, d, x)
    BY <1>7, VersionKept
  <2> QED BY <1>2, <1>3, <2>1 DEF StillVersions
<1>10. Versions(confirmations)'
  <2>1. \A d \in DOMAIN next : Lets(next[d]) \subseteq approved
    BY <1>4, <1>5, <1>8
  <2>2. \A d \in DOMAIN next : VersionOf(next, overdue, undone, approved, d, next[d])
    BY <1>6, <2>1, VersionOfItself DEF Sound
  <2> QED BY <1>2, <1>3, <2>2 DEF Versions, Version
<1>11. DOMAIN confirmations \subseteq DOMAIN confirmations' /\ c \in DOMAIN confirmations'
  OBVIOUS
<1>12. Copies' /\ prompting' \in [Numbers -> Copying]
  <2>1. CASE prompting' = prompting
    BY <1>2, <1>9, <1>10, <1>11, <2>1, CopiesQuiet DEF Inv, Typed
  <2>2. CASE prompting' = [prompting EXCEPT ![c].at = "called"]
    <3>1. prompting[c] \in Copying
      BY DEF Inv, Typed
    <3>2. PICK call : call = [prompting[c] EXCEPT !.at = "called"]
      OBVIOUS
    <3>3. call \in Copying /\ call.at = "called" /\ call.copy = prompting[c].copy
      BY <3>1, <3>2 DEF Copying
    <3>4. prompting' = [prompting EXCEPT ![c] = call]
      BY <2>2, <3>2
    <3>5. \A d \in DOMAIN call.copy : VersionOf(confirmations, overdue, undone, approved, d, call.copy[d])
      BY <3>3 DEF Inv, Copies, Versions, Version
    <3>6. \A d \in DOMAIN call.copy : VersionOf(confirmations', overdue', undone', approved', d, call.copy[d])
      BY <1>9, <3>5 DEF StillVersions
    <3> QED BY <1>2, <1>9, <1>10, <1>11, <3>3, <3>4, <3>6, PromptingKeeps
  <2> QED BY <2>1, <2>2
<1>13. Decisive'
  BY <1>2, <1>9, DecisiveQuiet
<1>14. Recorded'
  <2>1. /\ approved \subseteq Asked /\ undone \subseteq Asked
        /\ RecordedIn(now, Asked, overdue, undone, approved, refused)
    BY <1>3 DEF Inv, Recorded
  <2>2. \A d \in DOMAIN next : \A q \in Ids(next[d]) \ undone :
          \/ d \in DOMAIN now /\ q \in Ids(now[d])
          \/ d = c /\ q \in asked \ (Asked \cup approved)
    BY <1>1, <1>3, <1>5, <2>1
  <2>3. Goes(now, next, Asked, asked, overdue, overdue, undone, undone, approved, approved,
             refused, refused, c)
    BY <1>1, <1>3, <1>4, <1>6, <1>7, <2>1, <2>2 DEF Goes
  <2>4. RecordedIn(next, asked, overdue, undone, approved, refused)
    BY <2>1, <2>3, RecordedKept
  <2> QED BY <1>1, <1>2, <1>3, <2>1, <2>4 DEF Recorded
<1>15. Counted'
  <2>1. Len(confirmations) <= Cardinality(Asked) /\ Len(confirmations) \in Nat /\ Len(confirmations') \in Nat
    BY RecordsSound DEF Inv, Counted
  <2> QED BY <1>1, <2>1 DEF Counted
<1>16. Posts'
  BY <1>2, PostsQuiet
<1>17. grant' \in Grants /\ request[r] \in Asking
  BY DEF Inv, Typed, Grants, Asking
<1>18. overdue' \subseteq DOMAIN confirmations'
  BY <1>2, <1>11 DEF Inv, Typed
<1>19. Typed'
  BY <1>1, <1>2, <1>12, <1>17, <1>18 DEF Inv, Typed
<1> QED BY <1>12, <1>13, <1>14, <1>15, <1>16, <1>19 DEF Inv

\* It joins one that waits.
LEMMA JoinKeeps ==
  ASSUME Bounds, Inv, NEW r \in Requests, Prepared(r), AskOwner(r), JoinConfirmation(r)
  PROVE  Inv'
<1>1. PICK c \in Waiting :
        /\ confirmations' = [confirmations EXCEPT ![c].ids = Append(@, r)]
        /\ prompting' = IF confirmations[c].prompt = "failed"
                        THEN [prompting EXCEPT ![c].at = "called"] ELSE prompting
  BY DEF JoinConfirmation
<1>2. /\ c \in Numbers /\ c \in DOMAIN confirmations /\ confirmations[c].status = "pending"
      /\ confirmations \in Seq(Records) /\ confirmations[c] \in Records /\ confirmations[c].ids # <<>>
  BY RecordsSound DEF Waiting, IsOpen, Sound
<1>3. PICK old, ids : old = confirmations[c] /\ ids = Append(old.ids, r)
  OBVIOUS
<1>4. old.ids \in Seq(Requests) /\ old.ids # <<>>
  BY <1>2, <1>3 DEF Records
<1>5. ids \in Seq(Requests) /\ ids # <<>> /\ ToSet(ids) = ToSet(old.ids) \cup {r} /\ ids[1] = old.ids[1]
  BY <1>3, <1>4, AppendIs
<1>6. PICK x : x = [old EXCEPT !.ids = ids]
  OBVIOUS
<1>7. x \in Records /\ x.ids = ids /\ x.status = "pending"
  BY <1>2, <1>3, <1>5, <1>6 DEF Records
<1>8. confirmations' = [confirmations EXCEPT ![c] = x]
  BY <1>1, <1>3, <1>6
<1>9. /\ confirmations' \in Seq(Records) /\ DOMAIN confirmations' = DOMAIN confirmations
      /\ Len(confirmations') = Len(confirmations) /\ Len(confirmations) \in Nat
      /\ confirmations'[c] = x /\ \A d \in DOMAIN confirmations : d # c => confirmations'[d] = confirmations[d]
  BY <1>2, <1>7, <1>8
<1>10. (Ids(confirmations[c]))' = Ids(confirmations[c]) \cup {r}
  BY <1>3, <1>5, <1>7, <1>9 DEF Ids
<1>11. DOMAIN confirmations' = DOMAIN confirmations \cup {c} /\ Len(confirmations') <= Len(confirmations) + 1
  BY <1>2, <1>9
<1>12. prompting' = prompting \/ prompting' = [prompting EXCEPT ![c].at = "called"]
  BY <1>1
<1> QED BY <1>2, <1>3, <1>5, <1>7, <1>9, <1>10, <1>11, <1>12, AskingKeeps

\* It is the first of a new one.
LEMMA NewKeeps ==
  ASSUME Bounds, Inv, NEW r \in Requests, Prepared(r), AskOwner(r), NewConfirmation(r)
  PROVE  Inv'
<1>1. confirmations \in Seq(Records) /\ Len(confirmations) \in Nat /\ DOMAIN confirmations = 1 .. Len(confirmations)
  BY RecordsSound DEF Sound
<1>2. PICK c : c = Len(confirmations) + 1
  OBVIOUS
<1>3. PICK ids : ids = <<r>>
  OBVIOUS
<1>4. ids \in Seq(Requests) /\ ids # <<>> /\ ToSet(ids) = {r}
  BY <1>3, SingleIs
<1>5. PICK x : x = [status |-> "pending", ids |-> ids, prompt |-> "none", done |-> FALSE]
  OBVIOUS
<1>6. x \in Records /\ x.ids = ids /\ x.status = "pending"
  BY <1>4, <1>5 DEF Records
<1>7. confirmations' = Append(confirmations, x) /\ prompting' = [prompting EXCEPT ![c].at = "called"]
  BY <1>2, <1>3, <1>5 DEF NewConfirmation
<1>8. /\ confirmations' \in Seq(Records) /\ Len(confirmations') = Len(confirmations) + 1
      /\ confirmations'[c] = x /\ \A d \in 1 .. Len(confirmations) : confirmations'[d] = confirmations[d]
  BY <1>1, <1>2, <1>6, <1>7
<1>9. DOMAIN confirmations' = 1 .. Len(confirmations) + 1
  BY <1>8
<1>10. DOMAIN confirmations' = DOMAIN confirmations \cup {c} /\ c \notin DOMAIN confirmations
  BY <1>1, <1>2, <1>9
<1>11. c \in Numbers
  <2>1. r \notin Asked /\ Asked \cup {r} \subseteq Requests /\ Cardinality(Asked \cup {r}) = Cardinality(Asked) + 1
    BY PreparedIs DEF Prepared, Asked
  <2>2. IsFiniteSet(Requests) /\ Cardinality(Requests) \in Nat /\ Cardinality(Asked) \in Nat
    BY FewRecords DEF Bounds
  <2>3. Cardinality(Asked) + 1 <= Cardinality(Requests)
    BY <2>1, <2>2, FS_Subset
  <2>4. Len(confirmations) <= Cardinality(Asked)
    BY DEF Inv, Counted
  <2> QED BY <1>1, <1>2, <2>2, <2>3, <2>4 DEF Numbers
<1>12. (Ids(confirmations[c]))' = {r}
  BY <1>4, <1>6, <1>8 DEF Ids
<1>13. \A d \in DOMAIN confirmations : d # c => confirmations'[d] = confirmations[d]
  BY <1>1, <1>8
<1>14. Len(confirmations') <= Len(confirmations) + 1
  BY <1>1, <1>8
<1>15. (Ids(confirmations[c]))' \subseteq {r} \cup (IF c \in DOMAIN confirmations THEN Ids(confirmations[c]) ELSE {})
  BY <1>12
<1>16. c \in DOMAIN confirmations =>
         /\ confirmations[c].status = "pending"
         /\ confirmations'[c].ids[1] = confirmations[c].ids[1]
         /\ Ids(confirmations[c]) \subseteq (Ids(confirmations[c]))'
  BY <1>10
<1>17. confirmations'[c].status = "pending" /\ confirmations'[c].ids # <<>>
  BY <1>4, <1>6, <1>8
<1> QED BY <1>7, <1>8, <1>10, <1>11, <1>13, <1>14, <1>15, <1>16, <1>17, AskingKeeps

\* A prepared request joins a record, has one made for it, or is let through by the grant.
LEMMA PreparedKeeps ==
  ASSUME Bounds, Inv, NEW r \in Requests, Prepared(r)
  PROVE  Inv'
BY UseGrantKeeps, JoinKeeps, NewKeeps DEF Prepared, AskOwner

-----------------------------------------------------------------------------
(* The theorems.                                                           *)

\* At the start there are no requests, no records and no copies.
LEMMA InitInv ==
  ASSUME Bounds, NotifyInit
  PROVE  Inv
<1> USE DEF NotifyInit
<1>1. PICK e : e = <<>> /\ e \in Seq(Records)
  BY EmptySeq
<1>2. Len(e) = 0 /\ DOMAIN e = 1 .. Len(e)
  BY <1>1, EmptySeq
<1>3. confirmations = e /\ Len(confirmations) = 0 /\ DOMAIN confirmations = {}
  BY <1>1, <1>2
<1>4. /\ delivery \in [Requests -> Posting] /\ deciding \in [Numbers -> Deciding]
      /\ prompting \in [Numbers -> Copying] /\ expiring \in Sweeping
      /\ \A r \in Requests : delivery[r].at = "none"
      /\ \A c \in Numbers : deciding[c].at = "idle" /\ deciding[c].left = <<>>
      /\ \A c \in Numbers : prompting[c].at = "idle" /\ DOMAIN prompting[c].copy = {}
      /\ DOMAIN expiring.copy = {}
  BY NoCallsTyped
<1>5. /\ request \in [Requests -> Asking] /\ Asked = {}
  BY DEF Asking, Grants, Asked
<1>6. Typed
  BY <1>1, <1>3, <1>4, <1>5 DEF Typed, Grants, Intents
<1>7. Counted
  <2>1. Cardinality(Asked) = 0
    BY <1>5, FS_EmptySet
  <2> QED BY <1>3, <2>1 DEF Counted
<1>8. Copies
  BY <1>3, <1>4 DEF Copies, Versions
<1>9. Decisive
  BY <1>4 DEF Decisive
<1>10. Recorded
  BY <1>3 DEF Recorded, RecordedIn
<1>11. Posts
  BY <1>4 DEF Posts
<1> QED BY <1>6, <1>7, <1>8, <1>9, <1>10, <1>11 DEF Inv

\* Every step keeps the inductive invariant: one case per action.
LEMMA NextKeeps ==
  ASSUME Bounds, Inv, [NotifyNext]_notifyVars
  PROVE  Inv'
<1>1. CASE UNCHANGED notifyVars
  <2> USE <1>1 DEF notifyVars, database, calls, outside, history
  <2>1. Asked' = Asked
    BY DEF Asked
  <2>2. Posts'
    BY PostsQuiet
  <2>3. Typed'
    BY DEF Inv, Typed
  <2> QED BY <2>1, <2>2, <2>3, QuietKeeps
<1>2. ASSUME NEW r \in Requests, Receive(r) \/ Prepared(r) \/ Delivering(r)
      PROVE  Inv'
  BY <1>2, ReceiveKeeps, PreparedKeeps, BeginDeliveryKeeps, ShowKeeps, TransportSentKeeps,
     DeliveryDoneKeeps, DeliveryFailsKeeps, ReportDeliveryKeeps DEF Delivering
<1>3. ASSUME NEW c \in Numbers,
             \/ DecideLate(c) \/ \E d \in Decisions : Decide(c, d)
             \/ Completing(c) \/ Prompts(c) \/ Deadline(c)
      PROVE  Inv'
  <2>1. CASE DecideLate(c) \/ \E d \in Decisions : Decide(c, d)
    BY <2>1, DecideLateKeeps, DecideKeeps
  <2>2. CASE Completing(c)
    BY <2>2, DeliverNextKeeps, ReportDecisionKeeps, PersistDecisionKeeps DEF Completing
  <2>3. CASE Prompts(c) \/ Deadline(c)
    BY <2>3, PromptReadsKeeps, PromptStartsKeeps, PromptEndsKeeps, DeadlineKeeps DEF Prompts
  <2> QED BY <1>3, <2>1, <2>2, <2>3
<1>4. CASE RevokeGrant \/ SweepReads \/ SweepReports \/ SweepWrites \/ Crash
  BY <1>4, RevokeGrantKeeps, SweepReadsKeeps, SweepReportsKeeps, SweepWritesKeeps, CrashKeeps
<1>5. CASE Recover
  BY <1>5, RecoverSentKeeps, RecoverIntentKeeps, RecoverDecisionKeeps, HostUpKeeps DEF Recover
<1> QED BY <1>1, <1>2, <1>3, <1>4, <1>5 DEF NotifyNext

\* Every copy a call of the plugin host holds is a version of its record.
THEOREM InvHolds ==
  ASSUME Bounds
  PROVE  NotifySpec => []Inv
<1>1. NotifyInit => Inv
  BY InitInv
<1>2. Inv /\ [NotifyNext]_notifyVars => Inv'
  BY NextKeeps
<1> QED BY <1>1, <1>2, PTL DEF NotifySpec

\* Records, intents and calls are what the handler and its store make of them,
\* and there is not more than one record per request.
THEOREM TypeCorrect ==
  ASSUME Bounds
  PROVE  NotifySpec => []NotifyTypeOK
<1>1. Inv => NotifyTypeOK
  <2> SUFFICES ASSUME Inv PROVE NotifyTypeOK
    OBVIOUS
  <2>1. Len(confirmations) <= Cardinality(Requests)
    BY FewRecords
  <2>2. \A c \in Numbers : deciding[c].at # "idle" => c \in DOMAIN confirmations
    BY DEF Inv, Decisive, Version, VersionOf
  <2>3. \A r \in Requests : delivery[r].at \in {"none", "begin", "sending", "sent", "finished"}
    BY DEF Inv, Typed, Posting
  <2> QED BY <2>1, <2>2, <2>3 DEF Inv, Typed, NotifyTypeOK, Intents
<1> QED BY <1>1, InvHolds, PTL

\* The owner decides (completeTargetAccessConfirmation and what calls it): only
\* what was let through is in the group, what is reported sent is there, and what
\* is reported rejected or expired is not, unless an older copy was written back.
THEOREM OwnerDecides ==
  ASSUME Bounds
  PROVE  NotifySpec => []ShownAsDecided
<1>1. Inv => ShownAsDecided
  <2> SUFFICES ASSUME Inv PROVE ShownAsDecided
    OBVIOUS
  <2>1. posted \subseteq approved
    BY DEF Inv, Posts
  <2>2. posted \cap refused \subseteq undone
    <3> SUFFICES ASSUME NEW r \in posted \cap refused, r \notin undone
                 PROVE  FALSE
      OBVIOUS
    <3>1. RecordedIn(confirmations, Asked, overdue, undone, approved, refused)
      BY DEF Inv, Recorded
    <3>2. PICK c \in DOMAIN confirmations : r \in Ids(confirmations[c]) \ Lets(confirmations[c])
      BY <3>1 DEF RecordedIn
    <3> QED BY <2>1, <3>1, <3>2 DEF RecordedIn
  <2>3. \A r \in Requests : delivery[r].at = "finished" /\ Result(r) = "sent" => r \in posted
    BY DEF Inv, Posts, Result
  <2> QED BY <2>1, <2>2, <2>3 DEF ShownAsDecided
<1> QED BY <1>1, InvHolds, PTL
=============================================================================
