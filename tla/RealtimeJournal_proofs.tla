------------------------ MODULE RealtimeJournal_proofs ------------------------
(***************************************************************************)
(* Theorems about RealtimeJournal, for a journal of any size and any       *)
(* number of events, breaks and resyncs: the state keeps its type, the     *)
(* mark of the tab is honest, a resume is complete and gaps are repaired.  *)
(*                                                                         *)
(* Two facts carry the argument.  An event that an open stream still owes  *)
(* the tab has a packet under way with its number or a higher one: when    *)
(* that packet is handled, its span reaches back to the mark, or the jump  *)
(* of the numbers is a gap.  And an announced message of the newest page   *)
(* is shown, or a fetch under way brings it, or is counted as forgone: the *)
(* page of a later moment has no older message than that of the answer.    *)
(***************************************************************************)
EXTENDS RealtimeJournal, SequenceTheorems, FiniteSetTheorems, TLAPS

Streams ==
  [state : {"none", "open", "lost", "refused", "hidden"}, url : 0 .. MaxEvents,
   slow : BOOLEAN, pending : Seq(Packets), wire : Seq(Packets)]
Fetching == [phase : {"idle", "asked", "answered"}, got : SUBSET Numbers, upto : 0 .. MaxEvents]

ServerTyped ==
  /\ events \in Seq(Topics) /\ Len(events) <= MaxEvents
  /\ batch \in Seq(Packets) /\ Len(batch) <= 1 /\ draining \in BOOLEAN
ClientTyped ==
  /\ thread \in BOOLEAN /\ last \in 0 .. MaxEvents /\ view \subseteq Numbers
  /\ seen \in 0 .. MaxEvents /\ fetch \in [Fetches -> Fetching]
HistoryTyped ==
  /\ opened \in 0 .. MaxEvents /\ blind \in 0 .. MaxEvents /\ vouched \subseteq Numbers
  /\ warned \in 0 .. MaxEvents /\ forgone \subseteq Numbers
CountersTyped == breaks \in 0 .. MaxBreaks /\ resyncs \in 0 .. MaxResyncs
Typed == ServerTyped /\ stream \in Streams /\ ClientTyped /\ HistoryTyped /\ CountersTyped

(***************************************************************************)
(* The inductive invariant.                                                *)
(***************************************************************************)

\* A packet of the journal es: a demand to fetch, or numbers of recorded events.
Proper(p, es) ==
  /\ p.topic # "elsewhere" /\ p.seq <= Len(es)
  /\ p.topic # "resync" => 1 <= p.first
  /\ p.ids \subseteq DOMAIN es
  /\ p.topic = "activity" => \A i \in p.ids : es[i] = "activity" /\ i <= p.seq

\* What a stream carries to the tab.
Carried(s) == Range(s.wire) \cup Range(s.pending)

\* Packets name recorded events, and merged activity is newer than what waits.
Passing ==
  /\ \A p \in Carried(stream) \cup Range(batch) : Proper(p, events)
  /\ \A q \in Range(batch) :
       /\ q.topic = "activity"
       /\ \A p \in Range(stream.pending) : p.topic = "activity" => p.seq <= q.seq

\* No mark is ahead of the journal.
Behind ==
  /\ last <= Len(events) /\ opened <= Len(events) /\ warned <= Len(events)
  /\ seen <= Len(events) /\ stream.url <= Len(events)

Known(i) == Taken(i) \/ i <= warned

\* What a stream will ask for when it comes back reaches back far enough.
UrlIsHonest == \A i \in Counted : i <= stream.url => Known(i)

\* What an open stream owes has a packet that is at least as new.
Announced ==
  stream.state = "open" =>
    \A i \in Counted : Known(i) \/ \E p \in Carried(stream) \cup Range(batch) : i <= p.seq

\* A fetch brings message i: it is not answered yet, or the answer has it.
BeingFetched(i) ==
  \/ fetch["gap"].phase = "asked"
  \/ fetch["gap"].phase = "answered" /\ i \in fetch["gap"].got

\* The newest page of messages.
Page == Newest(Of({"message"}))

\* An announced message of the page is shown, or forgone, or being fetched; and an
\* answer has the page up to the number it was read at.
Repairing ==
  /\ fetch["gap"].upto <= Len(events)
  /\ ~thread => \A i \in Page :
       /\ i <= warned => i \in view \cup forgone \/ BeingFetched(i)
       /\ (fetch["gap"].phase = "answered" /\ i <= fetch["gap"].upto) => i \in fetch["gap"].got

Inv == Typed /\ Passing /\ Behind /\ MarkIsHonest /\ UrlIsHonest /\ Announced /\ Repairing

(***************************************************************************)
(* Packets and streams.                                                    *)
(***************************************************************************)

\* The range of a sequence, element by element.
LEMMA InRange ==
  ASSUME NEW S, NEW s \in Seq(S)
  PROVE  /\ Range(s) \subseteq S
         /\ \A i \in 1 .. Len(s) : s[i] \in Range(s)
         /\ \A x \in Range(s) : \E i \in 1 .. Len(s) : x = s[i]
         /\ Len(s) = 0 => s = <<>>
         /\ Range(<<>>) = {}
BY LenProperties, EmptySeq DEF Range

\* A packet that joins a sequence at its end.
LEMMA AppendRange ==
  ASSUME NEW S, NEW s \in Seq(S), NEW p \in S
  PROVE  Append(s, p) \in Seq(S) /\ Range(Append(s, p)) = Range(s) \cup {p}
<1>1. /\ Append(s, p) \in Seq(S) /\ Len(Append(s, p)) = Len(s) + 1
      /\ Append(s, p)[Len(s) + 1] = p
      /\ \A i \in 1 .. Len(s) : Append(s, p)[i] = s[i]
  BY AppendProperties
<1>2. DOMAIN Append(s, p) = 1 .. Len(s) + 1 /\ DOMAIN s = 1 .. Len(s) /\ Len(s) \in Nat
  BY <1>1, LenProperties
<1>3. ASSUME NEW x PROVE x \in Range(Append(s, p)) <=> x \in Range(s) \cup {p}
  BY <1>1, <1>2 DEF Range
<1>4. QED BY <1>1, <1>3

\* What is broadcast: a number not above the newest.
LEMMA EnvelopeIsPacket ==
  ASSUME BoundsAssumption, NEW topic \in Topics, NEW i \in Numbers
  PROVE  Envelope(topic, i) \in Packets
BY DEF Envelope, Packets, Numbers, BoundsAssumption

\* A demand to fetch up to a number.
LEMMA ResyncIsPacket ==
  ASSUME NEW i \in 0 .. MaxEvents PROVE Resync(i) \in Packets
BY BoundsAssumption DEF BoundsAssumption, Resync, Packets

\* queuePendingSsePacket: what was queued stays, or a packet of its key replaced it.
LEMMA QueuedKeeps ==
  ASSUME NEW ps \in Seq(Packets), NEW packet \in Packets
  PROVE  /\ Queued(ps, packet) \in Seq(Packets)
         /\ packet \in Range(Queued(ps, packet))
         /\ Range(Queued(ps, packet)) \subseteq Range(ps) \cup {packet}
         /\ \A p \in Range(ps) : p \in Range(Queued(ps, packet)) \/ Key(p) = Key(packet)
<1>1. CASE \E i \in DOMAIN ps : Key(ps[i]) = Key(packet)
  <2> DEFINE qs == [i \in DOMAIN ps |-> IF Key(ps[i]) = Key(packet) THEN packet ELSE ps[i]]
  <2>1. Queued(ps, packet) = qs
    BY <1>1 DEF Queued
  <2>2. Len(ps) \in Nat /\ DOMAIN ps = 1 .. Len(ps) /\ ps \in [1 .. Len(ps) -> Packets]
    BY LenProperties
  <2>3. qs \in [1 .. Len(ps) -> Packets]
    BY <2>2
  <2>4. qs \in Seq(Packets)
    BY <2>2, <2>3, SeqDef
  <2>5. packet \in Range(qs)
    BY <1>1 DEF Range
  <2>6. Range(qs) \subseteq Range(ps) \cup {packet}
    BY DEF Range
  <2>7. \A p \in Range(ps) : p \in Range(qs) \/ Key(p) = Key(packet)
    BY DEF Range
  <2>8. QED BY <2>1, <2>4, <2>5, <2>6, <2>7
<1>2. CASE ~ \E i \in DOMAIN ps : Key(ps[i]) = Key(packet)
  <2>1. Queued(ps, packet) = Append(ps, packet)
    BY <1>2 DEF Queued
  <2>2. QED BY <2>1, AppendRange
<1>3. QED BY <1>1, <1>2

\* A stream that differs in its packets only.
SameStream(s, t) == t \in Streams /\ t.state = s.state /\ t.url = s.url

\* writeSsePacket: the packet joins an open stream; one of its key may give way.
LEMMA WrittenKeeps ==
  ASSUME NEW s \in Streams, NEW packet \in Packets, NEW t \in Written(s, packet)
  PROVE  /\ SameStream(s, t)
         /\ Carried(t) \subseteq Carried(s) \cup {packet}
         /\ Range(t.pending) \subseteq Range(s.pending) \cup {packet}
         /\ s.state = "open" => packet \in Carried(t)
         /\ \A p \in Carried(s) : \/ p \in Carried(t)
                                  \/ /\ p \in Range(s.pending) /\ Key(p) = Key(packet)
                                     /\ packet \in Carried(t)
<1> USE DEF Streams
<1>1. CASE s.state # "open"
  BY <1>1 DEF Written, SameStream
<1>2. CASE s.state = "open" /\ s.slow
  <2>1. t = [s EXCEPT !.pending = Queued(s.pending, packet)]
    BY <1>2 DEF Written
  <2>2. s.pending \in Seq(Packets)
    OBVIOUS
  <2>3. QED BY <1>2, <2>1, <2>2, QueuedKeeps DEF SameStream, Carried
<1>3. CASE s.state = "open" /\ ~s.slow
  <2>1. PICK full \in BOOLEAN : t = [s EXCEPT !.wire = Append(s.wire, packet), !.slow = full]
    BY <1>3 DEF Written
  <2>2. s.wire \in Seq(Packets)
    OBVIOUS
  <2>3. Append(s.wire, packet) \in Seq(Packets) /\ Range(Append(s.wire, packet)) = Range(s.wire) \cup {packet}
    BY <2>2, AppendRange
  <2>4. PICK mid : mid = [s EXCEPT !.wire = Append(s.wire, packet)]
    OBVIOUS
  <2>5. /\ mid \in Streams /\ mid.state = s.state /\ mid.url = s.url
        /\ mid.pending = s.pending /\ mid.wire = Append(s.wire, packet)
    BY <2>3, <2>4
  <2>6. t = [mid EXCEPT !.slow = full]
    BY <2>1, <2>4
  <2>7. /\ t \in Streams /\ t.state = s.state /\ t.url = s.url
        /\ t.pending = s.pending /\ t.wire = Append(s.wire, packet)
    BY <2>5, <2>6
  <2>8. QED BY <2>3, <2>7 DEF SameStream, Carried
<1>4. QED BY <1>1, <1>2, <1>3

\* flushPendingSsePackets: what waits moves to the wire, nothing is lost.
LEMMA FlushedKeeps ==
  ASSUME NEW s \in Streams, NEW t \in Flushed(s)
  PROVE  /\ SameStream(s, t) /\ Carried(t) = Carried(s)
         /\ Range(t.pending) \subseteq Range(s.pending)
<1> USE DEF Streams
<1>1. PICK to \in [sent : 0 .. Len(s.pending), full : BOOLEAN] :
        t = [s EXCEPT !.wire = s.wire \o SubSeq(s.pending, 1, to.sent),
                      !.pending = SubSeq(s.pending, to.sent + 1, Len(s.pending)), !.slow = to.full]
  BY DEF Flushed
<1> DEFINE n == to.sent
           gone == SubSeq(s.pending, 1, n)
           kept == SubSeq(s.pending, n + 1, Len(s.pending))
<1>2. /\ s.wire \in Seq(Packets) /\ s.pending \in Seq(Packets)
      /\ n \in 0 .. Len(s.pending) /\ Len(s.pending) \in Nat
      /\ \A i \in 1 .. Len(s.pending) : s.pending[i] \in Packets
  BY LenProperties, ElementOfSeq
<1>3. /\ gone \in Seq(Packets) /\ Len(gone) = n
      /\ \A i \in 1 .. n : gone[i] = s.pending[i]
  <2>1. \A i \in 1 .. n : s.pending[i] \in Packets
    BY <1>2
  <2>2. n \in Int
    BY <1>2
  <2> HIDE DEF n
  <2>3. /\ gone \in Seq(Packets) /\ Len(gone) = IF 1 <= n THEN n - 1 + 1 ELSE 0
        /\ \A i \in 1 .. n - 1 + 1 : gone[i] = s.pending[1 + i - 1]
    BY <2>1, <2>2, SubSeqProperties
  <2>4. QED BY <1>2, <2>2, <2>3
<1>4. /\ kept \in Seq(Packets) /\ Len(kept) = Len(s.pending) - n
      /\ \A i \in 1 .. Len(s.pending) - n : kept[i] = s.pending[n + i]
  <2>1. \A i \in n + 1 .. Len(s.pending) : s.pending[i] \in Packets
    BY <1>2
  <2>2. n + 1 \in Int /\ Len(s.pending) \in Int
    BY <1>2
  <2> HIDE DEF n
  <2>3. /\ kept \in Seq(Packets)
        /\ Len(kept) = IF n + 1 <= Len(s.pending) THEN Len(s.pending) - (n + 1) + 1 ELSE 0
        /\ \A i \in 1 .. Len(s.pending) - (n + 1) + 1 : kept[i] = s.pending[n + 1 + i - 1]
    BY <2>1, <2>2, SubSeqProperties
  <2>4. QED BY <1>2, <2>2, <2>3
<1>5. /\ s.wire \o gone \in Seq(Packets)
      /\ Range(s.wire \o gone) = Range(s.wire) \cup Range(gone)
  <2> HIDE DEF gone
  <2>1. QED BY <1>2, <1>3, ConcatProperties, RangeConcatenation
<1>6. Range(s.pending) = Range(gone) \cup Range(kept)
  <2> HIDE DEF n
  <2>1. gone \o kept = s.pending
    <3>1. 1 \in 1 .. Len(s.pending) + 1 /\ n \in 1 - 1 .. Len(s.pending) /\ Len(s.pending) \in n .. Len(s.pending)
      BY <1>2
    <3>2. gone \o kept = SubSeq(s.pending, 1, Len(s.pending))
      BY <1>2, <3>1, ConcatAdjacentSubSeq
    <3>3. QED BY <1>2, <3>2, SubSeqFull
  <2> HIDE DEF gone, kept
  <2>2. Range(gone \o kept) = Range(gone) \cup Range(kept)
    BY <1>3, <1>4, RangeConcatenation
  <2>3. QED BY <2>1, <2>2
<1>7. PICK mid : mid = [s EXCEPT !.wire = s.wire \o gone]
  OBVIOUS
<1>8. /\ mid \in Streams /\ mid.state = s.state /\ mid.url = s.url
      /\ mid.pending = s.pending /\ mid.wire = s.wire \o gone
  BY <1>5, <1>7
<1>9. PICK end : end = [mid EXCEPT !.pending = kept]
  OBVIOUS
<1>10. /\ end \in Streams /\ end.state = s.state /\ end.url = s.url
       /\ end.pending = kept /\ end.wire = s.wire \o gone
  BY <1>4, <1>8, <1>9
<1>11. t = [end EXCEPT !.slow = to.full]
  BY <1>1, <1>7, <1>9
<1>12. /\ t \in Streams /\ t.state = s.state /\ t.url = s.url
       /\ t.pending = kept /\ t.wire = s.wire \o gone
  BY <1>10, <1>11
<1>13. QED BY <1>5, <1>6, <1>12 DEF SameStream, Carried

\* The tab takes the first packet of the wire.
LEMMA HeadLeaves ==
  ASSUME NEW s \in Streams, s.wire # <<>>, NEW t, t = [s EXCEPT !.wire = Tail(s.wire)]
  PROVE  /\ SameStream(s, t) /\ t.pending = s.pending
         /\ Head(s.wire) \in Packets /\ Head(s.wire) \in Carried(s)
         /\ Carried(s) = Carried(t) \cup {Head(s.wire)}
<1> USE DEF Streams
<1>1. /\ Head(s.wire) \in Packets /\ Tail(s.wire) \in Seq(Packets)
      /\ Len(Tail(s.wire)) = Len(s.wire) - 1
      /\ \A i \in 1 .. Len(Tail(s.wire)) : Tail(s.wire)[i] = s.wire[i + 1]
      /\ Len(s.wire) \in Nat \ {0} /\ Head(s.wire) = s.wire[1]
  BY HeadTailProperties, EmptySeq, LenProperties
<1>3. Range(s.wire) = Range(Tail(s.wire)) \cup {Head(s.wire)}
  <2>1. s.wire = <<s.wire[1]>> \o Tail(s.wire)
    <3>1. SubSeq(s.wire, 1, Len(s.wire)) = <<s.wire[1]>> \o SubSeq(s.wire, 1 + 1, Len(s.wire))
      BY <1>1, SubSeqRecursiveFirst
    <3>2. QED BY <1>1, <3>1, SubSeqFull, TailIsSubSeq
  <2>2. <<s.wire[1]>> \in Seq(Packets) /\ Range(<<s.wire[1]>>) = {s.wire[1]}
    BY <1>1 DEF Range
  <2>3. PICK one, rest : one = <<s.wire[1]>> /\ rest = Tail(s.wire)
    OBVIOUS
  <2>4. one \in Seq(Packets) /\ rest \in Seq(Packets)
    BY <1>1, <2>2, <2>3
  <2>5. Range(one \o rest) = Range(one) \cup Range(rest)
    BY <2>4, RangeConcatenation
  <2>6. QED BY <1>1, <2>1, <2>2, <2>3, <2>5
<1>4. t \in Streams /\ t.state = s.state /\ t.url = s.url /\ t.pending = s.pending /\ t.wire = Tail(s.wire)
  BY <1>1
<1>5. QED BY <1>1, <1>3, <1>4 DEF SameStream, Carried

\* A replay in order has the packet of every one of its events, and no other.
LEMMA InOrderHasAll ==
  ASSUME BoundsAssumption, ServerTyped, NEW numbers \in SUBSET (DOMAIN events),
         NEW w \in InOrder(numbers)
  PROVE  /\ w \in Seq(Packets)
         /\ Range(w) = {Envelope(events[i], i) : i \in numbers}
<1> DEFINE all == {Envelope(events[i], i) : i \in numbers}
           f == [i \in numbers |-> Envelope(events[i], i)]
<1>1. /\ DOMAIN events = 1 .. Len(events) /\ Len(events) \in Nat
      /\ \A i \in numbers : i \in Numbers /\ events[i] \in Topics
  BY LenProperties DEF ServerTyped, Numbers
<1>2. all \subseteq Packets
  BY <1>1, EnvelopeIsPacket
<1>3. IsFiniteSet(all)
  <2>1. IsFiniteSet(numbers)
    <3> HIDE DEF f, all
    <3>1. IsFiniteSet(1 .. Len(events)) /\ numbers \in SUBSET (1 .. Len(events))
      BY <1>1, FS_Interval
    <3>2. QED BY <3>1, FS_Subset
  <2>2. f \in Surjection(numbers, all)
    <3>1. f \in [numbers -> all]
      OBVIOUS
    <3>2. \A p \in all : \E i \in numbers : f[i] = p
      OBVIOUS
    <3> HIDE DEF f, all
    <3>3. QED BY <3>1, <3>2 DEF Surjection
  <2> HIDE DEF f, all
  <2>3. QED BY <2>1, <2>2, FS_Surjection
<1>4. PICK k \in Nat : k = Cardinality(all)
  BY <1>3, FS_CardinalityType
<1>5. /\ w \in [1 .. k -> all]
      /\ \A i, j \in 1 .. k : i # j => w[i] # w[j]
  BY <1>4 DEF InOrder, SetToSeqs
<1> HIDE DEF all
<1>6. w \in Injection(1 .. k, all)
  BY <1>5 DEF Injection, IsInjective
<1>7. Cardinality(1 .. k) = k
  BY <1>4, FS_Interval
<1>8. w \in Surjection(1 .. k, all)
  BY <1>3, <1>4, <1>6, <1>7, FS_Injection
<1>9. Range(w) = all
  BY <1>5, <1>8 DEF Range, Surjection
<1>10. w \in Seq(Packets)
  BY <1>2, <1>4, <1>5, SeqDef
<1>11. QED BY <1>9, <1>10 DEF all

\* The journal is the newest part of what was recorded.
LEMMA JournalReaches ==
  ASSUME BoundsAssumption, ServerTyped
  PROVE  /\ Journal \subseteq DOMAIN events
         /\ Journal = {} => events = <<>>
         /\ \A i \in DOMAIN events : i \in Journal \/ \A j \in Journal : i <= j - 1
         /\ Journal # {} => \E i \in Journal : \A j \in Journal : i <= j
<1>1. DOMAIN events = 1 .. Len(events) /\ Len(events) \in Nat
  BY LenProperties DEF ServerTyped
<1>2. Len(events) = 0 => events = <<>>
  BY EmptySeq DEF ServerTyped
<1> DEFINE low == IF Len(events) > Keep THEN Len(events) - Keep + 1 ELSE 1
<1>3. low \in Nat /\ low >= 1
  BY <1>1 DEF BoundsAssumption
<1>4. \A i : i \in Journal <=> i \in low .. Len(events)
  BY <1>1 DEF BoundsAssumption, Journal
<1>5. Len(events) # 0 => low <= Len(events)
  BY <1>1 DEF BoundsAssumption
<1> HIDE DEF low
<1>6. QED BY <1>1, <1>2, <1>3, <1>4, <1>5

\* GET /api/events: the stream has every event after the number it asked for,
\* or a demand to fetch that is as new as any.
LEMMA AcceptedOffers ==
  ASSUME BoundsAssumption, ServerTyped, NEW url \in 0 .. MaxEvents, NEW t \in Accepted(url)
  PROVE  /\ t \in Streams /\ t.url = url /\ t.pending = <<>>
         /\ \A p \in Carried(t) : Proper(p, events)
         /\ t.state = "open" /\ url # 0 =>
              \A i \in DOMAIN events :
                Visible(events[i]) /\ url < i => \E p \in Carried(t) : i <= p.seq
<1>1. /\ DOMAIN events = 1 .. Len(events) /\ Len(events) \in Nat /\ Len(events) <= MaxEvents
      /\ \A i \in DOMAIN events : events[i] \in Topics
  BY LenProperties, ElementOfSeq DEF ServerTyped
<1>2. <<>> \in Seq(Packets) /\ Range(<<>>) = {}
  BY EmptySeq DEF Range
<1>3. CASE draining
  <2>1. t = Closed("refused", url)
    BY <1>3 DEF Accepted
  <2>2. QED BY <1>2, <2>1 DEF Closed, Streams, Carried
<1>4. CASE ~draining
  <2>1. PICK w \in Replay(url) : t = [Closed("open", url) EXCEPT !.wire = w]
    BY <1>4 DEF Accepted
  <2>2. /\ w \in Seq(Packets)
        /\ \A p \in Range(w) : Proper(p, events)
        /\ url # 0 => \A i \in DOMAIN events :
             Visible(events[i]) /\ url < i => \E p \in Range(w) : i <= p.seq
    <3> DEFINE oldest == CHOOSE i \in Journal : \A j \in Journal : i <= j
               gap == Journal # {} /\ url < oldest - 1
               kept == {i \in Journal : i > url /\ Visible(events[i])}
    <3>1. CASE url = 0
      BY <1>2, <3>1, <2>1 DEF Replay
    <3>2. CASE url # 0 /\ gap
      <4>1. w = <<Resync(CurrentSeq)>>
        BY <3>2, <2>1 DEF Replay
      <4>2. Resync(CurrentSeq) \in Packets
        BY <1>1, ResyncIsPacket DEF CurrentSeq, BoundsAssumption
      <4>3. w \in Seq(Packets) /\ Range(w) = {Resync(CurrentSeq)}
        BY <4>1, <4>2 DEF Range
      <4>4. QED BY <1>1, <4>3 DEF Resync, Proper, CurrentSeq
    <3>3. CASE url # 0 /\ ~gap
      <4>1. w \in InOrder(kept)
        BY <3>3, <2>1 DEF Replay
      <4>2. kept \subseteq DOMAIN events
        BY JournalReaches
      <4>3. w \in Seq(Packets) /\ Range(w) = {Envelope(events[i], i) : i \in kept}
        <5> HIDE DEF kept
        <5>1. QED BY <4>1, <4>2, InOrderHasAll
      <4>4. ASSUME NEW i \in kept PROVE Proper(Envelope(events[i], i), events)
        BY <1>1, <4>2 DEF Proper, Envelope, Visible, Topics
      <4>5. ASSUME NEW i \in DOMAIN events, Visible(events[i]), url < i
            PROVE  i \in kept
        <5>1. Journal # {}
          BY <1>1, JournalReaches
        <5>2. oldest \in Journal /\ \A j \in Journal : oldest <= j
          BY <5>1, JournalReaches
        <5>3. oldest \in DOMAIN events /\ (i \in Journal \/ i <= oldest - 1)
          BY <5>2, JournalReaches
        <5> HIDE DEF oldest
        <5>4. ~ (url < oldest - 1)
          BY <3>3, <5>1
        <5>5. i \in Journal
          BY <1>1, <4>5, <5>3, <5>4
        <5>6. QED BY <4>5, <5>5
      <4>6. \A i \in DOMAIN events : Envelope(events[i], i).seq = i
        BY DEF Envelope
      <4>7. \A i \in kept : i <= Envelope(events[i], i).seq
        BY <1>1, <4>2, <4>6
      <4> HIDE DEF kept
      <4>8. QED BY <4>3, <4>4, <4>5, <4>7
    <3>4. QED BY <3>1, <3>2, <3>3
  <2>3. /\ t.state = "open" /\ t.url = url /\ t.slow = FALSE /\ t.pending = <<>> /\ t.wire = w
        /\ t \in Streams
    BY <1>2, <2>1, <2>2 DEF Closed, Streams
  <2>4. QED BY <1>2, <2>2, <2>3 DEF Carried
<1>5. QED BY <1>3, <1>4 DEF ServerTyped

(***************************************************************************)
(* Steps that take nothing from the wire.                                  *)
(***************************************************************************)

\* The tab's marks stay; the journal, the shown records and blind may grow.
Calm ==
  /\ UNCHANGED <<thread, last, seen, warned, vouched, opened>>
  /\ view \subseteq view'
  /\ blind' = blind \/ blind' = Len(events)
  /\ Len(events) <= Len(events')
  /\ \A i \in DOMAIN events : i \in DOMAIN events' /\ events'[i] = events[i]
  /\ stream'.url \in {stream.url, last, 0}

\* Numbers of recorded events.
LEMMA EventNumbers ==
  ASSUME ServerTyped
  PROVE  /\ DOMAIN events = 1 .. Len(events) /\ Len(events) \in Nat /\ Len(events) <= MaxEvents
         /\ \A i \in DOMAIN events : events[i] \in Topics
BY LenProperties, ElementOfSeq DEF ServerTyped

\* What counted and was known stays so, and the marks stay honest.
LEMMA CalmStep ==
  ASSUME BoundsAssumption, Inv, ServerTyped', stream' \in Streams, Calm
  PROVE  /\ Behind' /\ MarkIsHonest' /\ UrlIsHonest'
         /\ \A i \in DOMAIN events : i \in Counted' => i \in Counted
         /\ \A i \in DOMAIN events : Known(i) => Known(i)'
<1>1. /\ DOMAIN events = 1 .. Len(events) /\ Len(events) \in Nat
      /\ DOMAIN events' = 1 .. Len(events') /\ Len(events') \in Nat
  BY EventNumbers DEF Inv, Typed, ServerTyped
<1>2. /\ last \in Nat /\ opened \in Nat /\ warned \in Nat /\ seen \in Nat /\ blind \in Nat
      /\ stream.url \in Nat /\ stream'.url \in Nat
  BY BoundsAssumption DEF Inv, Typed, ClientTyped, HistoryTyped, Streams, BoundsAssumption
<1>3. Behind'
  BY <1>1, <1>2 DEF Behind, Inv, Calm
<1>4. ASSUME NEW i \in DOMAIN events, i \in Counted' PROVE i \in Counted
  BY <1>1, <1>2, <1>4 DEF Counted, Due, Calm, Visible
<1>5. ASSUME NEW i \in DOMAIN events, Known(i) PROVE Known(i)'
  BY <1>1, <1>5 DEF Known, Taken, Calm
<1>6. Counted' \subseteq DOMAIN events'
  BY DEF Counted, Due
<1>7. MarkIsHonest'
  <2>1. ASSUME NEW i \in Counted', i <= last' PROVE Known(i)'
    <3>1. i \in DOMAIN events
      BY <1>1, <1>2, <1>6, <2>1 DEF Calm, Inv, Behind
    <3>2. Known(i)
      BY <1>4, <2>1, <3>1 DEF Inv, MarkIsHonest, Known, Calm
    <3>3. QED BY <1>5, <3>1, <3>2
  <2>2. QED BY <2>1 DEF MarkIsHonest, Known
<1>8. UrlIsHonest'
  <2>1. ASSUME NEW i \in Counted', i <= stream'.url PROVE Known(i)'
    <3>1. i \in DOMAIN events
      BY <1>1, <1>2, <1>6, <2>1 DEF Calm, Inv, Behind
    <3>2. Known(i)
      BY <1>4, <2>1, <3>1 DEF Inv, MarkIsHonest, UrlIsHonest, Known, Calm
    <3>3. QED BY <1>5, <3>1, <3>2
  <2>2. QED BY <2>1 DEF UrlIsHonest
<1>9. QED BY <1>3, <1>4, <1>5, <1>7, <1>8

\* The page holds recorded messages; an event that is recorded pushes older ones out
\* of it, and never brings one back.
LEMMA PageShrinks ==
  ASSUME BoundsAssumption, ServerTyped, ServerTyped', Len(events) <= Len(events'),
         \A i \in DOMAIN events : i \in DOMAIN events' /\ events'[i] = events[i]
  PROVE  /\ \A i \in Page : i \in DOMAIN events /\ i \in Nat /\ i <= Len(events) /\ events[i] = "message"
         /\ \A i \in Page' : i <= Len(events) => i \in Page
<1>1. /\ DOMAIN events = 1 .. Len(events) /\ Len(events) \in Nat
      /\ DOMAIN events' = 1 .. Len(events') /\ Len(events') \in Nat
  BY EventNumbers DEF ServerTyped
<1>2. \A i \in Page : i \in DOMAIN events /\ i \in Nat /\ i <= Len(events) /\ events[i] = "message"
  BY <1>1 DEF Page, Newest, Of
<1>3. ASSUME NEW i \in Page', i <= Len(events) PROVE i \in Page
  <2> DEFINE newer == {j \in Of({"message"}) : j > i}
             later == {j \in Of({"message"})' : j > i}
  <2>1. i \in Of({"message"})' /\ Cardinality(later) < PageSize
    BY <1>3 DEF Page, Newest
  <2>2. i \in Of({"message"})
    BY <1>1, <1>3, <2>1 DEF Of
  <2>3. newer \subseteq later
    BY DEF Of
  <2>4. IsFiniteSet(later)
    <3>1. later \in SUBSET (1 .. Len(events')) /\ IsFiniteSet(1 .. Len(events'))
      BY <1>1, FS_Interval DEF Of
    <3> HIDE DEF later
    <3>2. QED BY <3>1, FS_Subset
  <2>5. Cardinality(newer) < PageSize
    <3>1. newer \in SUBSET later
      BY <2>3
    <3> HIDE DEF newer, later
    <3>2. /\ IsFiniteSet(newer) /\ Cardinality(newer) <= Cardinality(later)
      BY <2>4, <3>1, FS_Subset
    <3>3. Cardinality(newer) \in Nat /\ Cardinality(later) \in Nat
      BY <2>4, <3>2, FS_CardinalityType
    <3>4. QED BY <2>1, <3>2, <3>3, BoundsAssumption DEF BoundsAssumption
  <2>6. QED BY <2>2, <2>5 DEF Page, Newest
<1>4. QED BY <1>2, <1>3

\* Repairs go on as long as the fetch of the gap is left alone.
LEMMA CalmRepair ==
  ASSUME BoundsAssumption, Inv, ServerTyped', Calm, fetch'["gap"] = fetch["gap"], forgone' = forgone
  PROVE  Repairing'
<1>1. ServerTyped
  BY DEF Inv, Typed
<1>2. /\ Len(events) \in Nat /\ Len(events') \in Nat /\ Len(events) <= Len(events')
      /\ DOMAIN events = 1 .. Len(events) /\ DOMAIN events' = 1 .. Len(events')
  BY <1>1, EventNumbers DEF Calm, ServerTyped
<1>3. warned \in Nat /\ warned <= Len(events) /\ fetch["gap"].upto \in Nat
  BY BoundsAssumption
     DEF Inv, Typed, HistoryTyped, ClientTyped, Behind, Fetching, Fetches, BoundsAssumption
<1>4. /\ \A i \in Page' : i \in DOMAIN events' /\ (i <= Len(events) => i \in Page)
  <2>1. \A i \in Page' : i \in DOMAIN events'
    BY DEF Page, Newest, Of
  <2>2. QED BY <1>1, <2>1, PageShrinks DEF Calm
<1>5. fetch'["gap"].upto <= Len(events')
  BY <1>2, <1>3 DEF Inv, Repairing
<1>6. ASSUME ~thread', NEW i \in Page'
      PROVE  /\ i <= warned' => i \in view' \cup forgone' \/ BeingFetched(i)'
             /\ (fetch'["gap"].phase = "answered" /\ i <= fetch'["gap"].upto) => i \in fetch'["gap"].got
  <2>1. ~thread /\ warned' = warned /\ view \subseteq view' /\ i \in Nat
    BY <1>2, <1>4, <1>6 DEF Calm
  <2>2. ASSUME i <= warned PROVE i \in view' \cup forgone' \/ BeingFetched(i)'
    <3>1. i \in Page
      BY <1>2, <1>3, <1>4, <1>6, <2>1, <2>2
    <3>2. i \in view \cup forgone \/ BeingFetched(i)
      BY <2>1, <2>2, <3>1 DEF Inv, Repairing
    <3>3. QED BY <2>1, <3>2 DEF BeingFetched
  <2>3. ASSUME fetch["gap"].phase = "answered", i <= fetch["gap"].upto PROVE i \in fetch["gap"].got
    <3>1. i \in Page
      BY <1>2, <1>3, <1>4, <1>6, <2>1, <2>3 DEF Inv, Repairing
    <3>2. QED BY <2>1, <2>3, <3>1 DEF Inv, Repairing
  <2>4. QED BY <2>1, <2>2, <2>3
<1>7. QED BY <1>5, <1>6 DEF Repairing

\* A packet stays proper when the journal grows.
LEMMA ProperGrows ==
  ASSUME ServerTyped, ServerTyped', Calm, NEW p \in Packets, Proper(p, events)
  PROVE  Proper(p, events')
<1>1. Len(events) \in Nat /\ Len(events') \in Nat /\ p.seq \in Int
  BY EventNumbers DEF ServerTyped, Packets
<1>2. QED BY <1>1 DEF Proper, Calm

\* What is under way are packets.
LEMMA UnderWay ==
  ASSUME Typed
  PROVE  /\ Carried(stream) \subseteq Packets /\ Range(batch) \subseteq Packets
         /\ Range(stream.pending) \subseteq Carried(stream)
         /\ batch # <<>> => batch[1] \in Range(batch) /\ Range(batch) = {batch[1]}
<1>1. stream.wire \in Seq(Packets) /\ stream.pending \in Seq(Packets) /\ batch \in Seq(Packets)
  BY DEF Typed, ServerTyped, Streams
<1>2. batch # <<>> => DOMAIN batch = {1}
  <2>1. DOMAIN batch = 1 .. Len(batch) /\ Len(batch) \in Nat /\ (batch # <<>> => Len(batch) # 0)
    BY <1>1, LenProperties, EmptySeq
  <2>2. QED BY <2>1 DEF Typed, ServerTyped
<1>3. QED BY <1>1, <1>2, RangeOfSeq DEF Carried, Range

\* writeSsePacket: nothing that is owed loses its packet.
LEMMA WriteKeeps ==
  ASSUME BoundsAssumption, Inv, ServerTyped', Calm,
         NEW packet \in Packets, stream' \in Written(stream, packet), Proper(packet, events'),
         \A p \in Range(stream.pending) : Key(p) = Key(packet) => p.seq <= packet.seq,
         \/ batch' = batch /\ packet.topic # "activity"
         \/ batch' = <<>> /\ Range(batch) = {packet},
         \A i \in DOMAIN events' : i \in DOMAIN events \/ i <= packet.seq
  PROVE  stream' \in Streams /\ Passing' /\ Announced'
<1>1. PICK s : s = stream'
  OBVIOUS
<1>2. /\ SameStream(stream, s) /\ Carried(s) \subseteq Carried(stream) \cup {packet}
      /\ Range(s.pending) \subseteq Range(stream.pending) \cup {packet}
      /\ stream.state = "open" => packet \in Carried(s)
      /\ \A p \in Carried(stream) : \/ p \in Carried(s)
                                    \/ /\ p \in Range(stream.pending) /\ Key(p) = Key(packet)
                                       /\ packet \in Carried(s)
  BY <1>1, WrittenKeeps DEF Inv, Typed
<1>3. /\ Carried(stream)' = Carried(s) /\ Range(stream.pending)' = Range(s.pending)
      /\ stream'.state = s.state
  BY <1>1 DEF Carried
<1>4. stream' \in Streams
  BY <1>1, <1>2 DEF SameStream
<1>5. Range(batch)' \subseteq Range(batch) /\ (Range(batch)' # {} => packet.topic # "activity")
  BY DEF Range
<1>6. Passing'
  <2>1. \A p \in Carried(s) \cup Range(batch)' : Proper(p, events')
    BY <1>2, <1>5, ProperGrows, UnderWay DEF Inv, Passing, Typed
  <2>2. ASSUME NEW q \in Range(batch)'
        PROVE  /\ q.topic = "activity"
               /\ \A p \in Range(s.pending) : p.topic = "activity" => p.seq <= q.seq
    BY <1>2, <1>5 DEF Inv, Passing
  <2>3. QED BY <1>3, <2>1, <2>2 DEF Passing
<1>7. Announced'
  <2>1. ASSUME s.state = "open", NEW i \in Counted'
        PROVE  Known(i)' \/ \E p \in Carried(s) \cup Range(batch)' : i <= p.seq
    <3>1. stream.state = "open" /\ packet \in Carried(s)
      BY <1>2, <2>1 DEF SameStream
    <3>2. i \in DOMAIN events'
      BY DEF Counted, Due
    <3>3. CASE i \notin DOMAIN events
      BY <3>1, <3>2, <3>3
    <3>4. CASE i \in DOMAIN events
      <4>1. i \in Counted /\ (Known(i) => Known(i)')
        BY <1>4, <2>1, <3>4, CalmStep
      <4>2. CASE Known(i)
        BY <4>1, <4>2
      <4>3. CASE ~Known(i)
        <5>1. PICK p \in Carried(stream) \cup Range(batch) : i <= p.seq
          BY <3>1, <4>1, <4>3 DEF Inv, Announced
        <5>2. p \in Packets /\ i \in Nat
          BY <3>4, <5>1, UnderWay, EventNumbers DEF Inv, Typed
        <5>3. CASE p \in Carried(s) \cup Range(batch)'
          BY <5>1, <5>3
        <5>4. CASE p \in Carried(stream) /\ p \notin Carried(s)
          <6>1. p.seq <= packet.seq
            BY <1>2, <5>4
          <6>2. QED BY <3>1, <5>1, <5>2, <6>1 DEF Packets
        <5>5. CASE p \in Range(batch) /\ p \notin Range(batch)'
          BY <3>1, <5>1, <5>5
        <5>6. QED BY <5>1, <5>3, <5>4, <5>5
      <4>4. QED BY <4>2, <4>3
    <3>5. QED BY <3>3, <3>4
  <2>2. QED BY <1>3, <2>1 DEF Announced
<1>8. QED BY <1>4, <1>6, <1>7

\* A closed stream owes nothing.
LEMMA CloseKeeps ==
  ASSUME BoundsAssumption, Inv, events' = events, batch' = batch \/ batch' = <<>>,
         NEW state \in {"none", "lost", "hidden"}, NEW url \in 0 .. MaxEvents,
         stream' = Closed(state, url)
  PROVE  stream' \in Streams /\ stream'.url = url /\ Passing' /\ Announced'
<1>1. PICK s : s = stream'
  OBVIOUS
<1>2. /\ s.state = state /\ s.url = url /\ s.slow = FALSE /\ s.pending = <<>> /\ s.wire = <<>>
      /\ s \in Streams
  BY <1>1, EmptySeq DEF Closed, Streams
<1>3. Range(s.wire) = {} /\ Range(s.pending) = {}
  BY <1>2 DEF Range
<1>4. Range(batch)' \subseteq Range(batch)
  BY DEF Range
<1>5. Passing'
  <2>1. Carried(stream)' = {} /\ Range(stream.pending)' = {}
    BY <1>1, <1>3 DEF Carried
  <2>2. QED BY <1>4, <2>1 DEF Passing, Inv
<1>6. Announced'
  BY <1>1, <1>2 DEF Announced
<1>7. QED BY <1>1, <1>2, <1>5, <1>6

\* A stream that is opened, or refused, after the number it asks for: the replay
\* has what it owes, or blind accounts for it.
LEMMA ConnectKeeps ==
  ASSUME BoundsAssumption, Inv, Calm, UNCHANGED server,
         NEW url \in {last, stream.url}, stream' \in Accepted(url),
         url = 0 => last = 0 \/ blind' = Len(events)
  PROVE  stream' \in Streams /\ Passing' /\ Announced'
<1> USE DEF server
<1>1. url \in 0 .. MaxEvents
  BY DEF Inv, Typed, ClientTyped, Streams
<1>2. ServerTyped
  BY DEF Inv, Typed
<1>3. PICK s : s = stream'
  OBVIOUS
<1>4. /\ s \in Streams /\ s.url = url /\ s.pending = <<>>
      /\ \A p \in Carried(s) : Proper(p, events)
      /\ s.state = "open" /\ url # 0 =>
           \A i \in DOMAIN events : Visible(events[i]) /\ url < i => \E p \in Carried(s) : i <= p.seq
  BY <1>1, <1>2, <1>3, AcceptedOffers
<1>5. Carried(stream)' = Carried(s) /\ Range(stream.pending)' = {} /\ Range(batch)' = Range(batch)
  BY <1>3, <1>4 DEF Carried, Range
<1>6. Passing'
  <2>1. \A p \in Carried(s) \cup Range(batch) : Proper(p, events)
    BY <1>4 DEF Inv, Passing
  <2>2. \A q \in Range(batch) : q.topic = "activity"
    BY DEF Inv, Passing
  <2>3. QED BY <1>5, <2>1, <2>2 DEF Passing
<1>7. Announced'
  <2>1. ASSUME s.state = "open", NEW i \in Counted'
        PROVE  Known(i)' \/ \E p \in Carried(s) \cup Range(batch) : i <= p.seq
    <3>1. /\ i \in DOMAIN events /\ i \in Nat /\ i <= Len(events) /\ Visible(events[i])
          /\ last # 0 /\ blind' < i
      <4>1. i \in DOMAIN events' /\ Visible(events'[i]) /\ last' # 0 /\ blind' < i
        BY DEF Counted, Due
      <4>2. QED BY <1>2, <4>1, EventNumbers DEF Calm
    <3>2. url # 0
      BY <1>2, <3>1, EventNumbers
    <3>3. CASE url < i
      BY <1>4, <2>1, <3>1, <3>2, <3>3
    <3>4. CASE i <= url
      <4>1. i \in Counted /\ (Known(i) => Known(i)')
        BY <1>2, <1>3, <1>4, <2>1, <3>1, CalmStep DEF ServerTyped, Calm
      <4>2. Known(i)
        BY <3>4, <4>1 DEF Inv, MarkIsHonest, UrlIsHonest, Known
      <4>3. QED BY <4>1, <4>2
    <3>5. QED BY <1>1, <3>1, <3>3, <3>4
  <2>2. QED BY <1>3, <1>5, <2>1 DEF Announced
<1>8. QED BY <1>3, <1>4, <1>6, <1>7

\* A calm step that leaves the fetch of the gap alone keeps the invariant.
LEMMA CalmInv ==
  ASSUME BoundsAssumption, Inv, Calm, Typed', Passing', Announced',
         fetch'["gap"] = fetch["gap"], forgone' = forgone
  PROVE  Inv'
<1>1. ServerTyped' /\ stream' \in Streams
  BY DEF Typed
<1>2. Behind' /\ MarkIsHonest' /\ UrlIsHonest'
  BY <1>1, CalmStep
<1>3. Repairing'
  BY <1>1, CalmRepair
<1>4. QED BY <1>2, <1>3 DEF Inv

(***************************************************************************)
(* The steps of the server.                                                *)
(***************************************************************************)

\* An event is recorded and sent, or merged into what waits for the timer.
LEMMA RecordStep ==
  ASSUME BoundsAssumption, Inv, NEW topic \in Topics, RecordRealtimeEvent(topic)
  PROVE  Inv'
<1> USE DEF server, client, history
<1> DEFINE n == Len(events) + 1
           packet == Envelope(topic, n)
<1>1. /\ UNCHANGED <<draining, client, history, breaks, resyncs>>
      /\ Len(events) < MaxEvents /\ events' = Append(events, topic)
      /\ \/ /\ topic = "activity" /\ batch' = Merged(batch, packet) /\ stream' = stream
         \/ /\ topic # "activity" /\ Visible(topic) /\ stream' \in Written(stream, packet) /\ batch' = batch
         \/ /\ topic # "activity" /\ ~Visible(topic) /\ stream' = stream /\ batch' = batch
  BY DEF RecordRealtimeEvent
<1>2. ServerTyped /\ stream \in Streams
  BY DEF Inv, Typed
<1>3. /\ DOMAIN events = 1 .. Len(events) /\ Len(events) \in Nat
      /\ events' \in Seq(Topics) /\ Len(events') = n /\ DOMAIN events' = 1 .. n
      /\ events'[n] = topic /\ \A i \in DOMAIN events : events'[i] = events[i]
      /\ n \in Numbers
  <2>1. events \in Seq(Topics)
    BY <1>2 DEF ServerTyped
  <2>2. /\ Append(events, topic) \in Seq(Topics) /\ Len(Append(events, topic)) = n
        /\ Append(events, topic)[n] = topic
        /\ \A i \in 1 .. Len(events) : Append(events, topic)[i] = events[i]
    BY <2>1, AppendProperties
  <2>3. DOMAIN Append(events, topic) = 1 .. n
    BY <2>2, LenProperties
  <2>4. QED BY <1>1, <1>2, <2>2, <2>3, EventNumbers, BoundsAssumption DEF Numbers, BoundsAssumption
<1>4. packet \in Packets /\ packet.topic = topic /\ packet.seq = n /\ packet.first = n /\ packet.ids = {n}
  <2>1. packet \in Packets
    BY <1>3, EnvelopeIsPacket
  <2>2. QED BY <2>1 DEF Envelope
<1> HIDE DEF packet
<1>5. Visible(topic) => Proper(packet, events')
  BY <1>3, <1>4 DEF Proper, Visible
<1>6. stream'.url = stream.url
  BY <1>1, <1>2, <1>4, WrittenKeeps DEF SameStream
<1>7. Calm
  BY <1>1, <1>3, <1>6 DEF Calm
<1>8. \A p \in Carried(stream) \cup Range(batch) : p \in Packets /\ p.seq \in Nat /\ p.seq <= Len(events)
  BY UnderWay, BoundsAssumption DEF Inv, Passing, Proper, Typed, Packets, BoundsAssumption
<1>9. ServerTyped' /\ stream' \in Streams /\ Passing' /\ Announced'
  <2>1. CASE topic = "activity"
    <3>1. batch' = Merged(batch, packet) /\ stream' = stream
      BY <1>1, <2>1
    <3>2. PICK q \in Packets :
            /\ batch' = <<q>> /\ q.topic = "activity" /\ q.seq = n /\ 1 <= q.first
            /\ \A i \in q.ids : i = n \/ \E p \in Range(batch) : i \in p.ids
      <4>1. CASE batch = <<>>
        BY <1>3, <1>4, <2>1, <3>1, <4>1 DEF Merged, Numbers
      <4>2. CASE batch # <<>>
        <5>1. batch[1] \in Packets /\ batch[1] \in Range(batch)
          BY <4>2, UnderWay DEF Inv, Typed
        <5>2. 1 <= batch[1].first
          BY <5>1 DEF Inv, Passing, Proper
        <5>3. PICK q : q = [packet EXCEPT !.first = batch[1].first, !.ids = packet.ids \cup batch[1].ids]
          OBVIOUS
        <5>4. PICK mid : mid = [packet EXCEPT !.first = batch[1].first]
          OBVIOUS
        <5>5. mid \in Packets /\ mid.topic = "activity" /\ mid.seq = n /\ mid.first = batch[1].first /\ mid.ids = {n}
          BY <1>4, <2>1, <5>1, <5>4 DEF Packets
        <5>6. q = [mid EXCEPT !.ids = packet.ids \cup batch[1].ids]
          BY <5>3, <5>4
        <5>7. packet.ids \cup batch[1].ids \in SUBSET Numbers
          BY <1>4, <5>1 DEF Packets
        <5>8. q \in Packets /\ q.topic = "activity" /\ q.seq = n /\ q.first = batch[1].first /\ q.ids = {n} \cup batch[1].ids
          BY <1>4, <5>5, <5>6, <5>7 DEF Packets
        <5>9. batch' = <<q>>
          BY <3>1, <4>2, <5>3 DEF Merged
        <5>10. QED BY <5>1, <5>2, <5>8, <5>9
      <4>3. QED BY <4>1, <4>2
    <3>3. Range(batch)' = {q} /\ batch' \in Seq(Packets) /\ Len(batch)' = 1
      BY <3>2 DEF Range
    <3>4. ServerTyped'
      BY <1>1, <1>2, <1>3, <3>3 DEF ServerTyped
    <3>5. Proper(q, events')
      <4>1. ASSUME NEW i \in q.ids PROVE i \in DOMAIN events' /\ events'[i] = "activity" /\ i <= n
        <5>1. CASE i = n
          BY <1>3, <2>1, <5>1
        <5>2. CASE i # n
          <6>1. PICK p \in Range(batch) : i \in p.ids
            BY <3>2, <5>2
          <6>2. p.topic = "activity" /\ p.seq <= Len(events) /\ i \in DOMAIN events /\ events[i] = "activity"
            BY <6>1 DEF Inv, Passing, Proper
          <6>3. QED BY <1>3, <6>2
        <5>3. QED BY <5>1, <5>2
      <4>2. QED BY <1>3, <3>2, <4>1 DEF Proper
    <3>6. \A p \in Carried(stream) : Proper(p, events')
      BY <1>2, <1>7, <3>4, UnderWay, ProperGrows DEF Inv, Typed, Passing
    <3>7. Passing'
      <4>1. ASSUME NEW p \in Range(stream.pending) PROVE p.seq <= q.seq
        BY <1>3, <1>8, <3>2, UnderWay DEF Inv, Typed
      <4>2. QED BY <3>1, <3>2, <3>3, <3>5, <3>6, <4>1 DEF Passing, Carried
    <3>8. Announced'
      <4>1. ASSUME NEW i \in Counted' PROVE i <= q.seq
        BY <1>3, <3>2 DEF Counted, Due
      <4>2. QED BY <3>3, <4>1 DEF Announced
    <3>9. QED BY <1>2, <3>1, <3>4, <3>7, <3>8
  <2>2. CASE topic # "activity" /\ Visible(topic)
    <3>1. stream' \in Written(stream, packet) /\ batch' = batch
      BY <1>1, <2>2
    <3>2. ServerTyped'
      BY <1>1, <1>2, <1>3, <3>1 DEF ServerTyped
    <3>3. \A p \in Range(stream.pending) : p.seq <= packet.seq
      BY <1>3, <1>4, <1>8, UnderWay DEF Inv, Typed
    <3>4. \A i \in DOMAIN events' : i <= packet.seq
      BY <1>3, <1>4
    <3>5. QED BY <1>4, <1>5, <1>7, <2>2, <3>1, <3>2, <3>3, <3>4, WriteKeeps
  <2>3. CASE topic # "activity" /\ ~Visible(topic)
    <3>1. stream' = stream /\ batch' = batch
      BY <1>1, <2>3
    <3>2. ServerTyped'
      BY <1>1, <1>2, <1>3, <3>1 DEF ServerTyped
    <3>3. \A p \in Carried(stream) \cup Range(batch) : Proper(p, events')
      BY <1>2, <1>7, <3>2, UnderWay, ProperGrows DEF Inv, Typed, Passing
    <3>4. Passing'
      BY <3>1, <3>3 DEF Passing, Inv, Carried
    <3>5. Announced'
      <4>1. ASSUME stream.state = "open", NEW i \in Counted'
            PROVE  Known(i)' \/ \E p \in Carried(stream) \cup Range(batch) : i <= p.seq
        <5>1. i \in DOMAIN events' /\ Visible(events'[i])
          BY DEF Counted, Due
        <5>2. i \in DOMAIN events
          BY <1>3, <2>3, <5>1
        <5>3. i \in Counted /\ (Known(i) => Known(i)')
          BY <1>2, <1>7, <3>1, <3>2, <4>1, <5>2, CalmStep
        <5>4. QED BY <4>1, <5>3 DEF Inv, Announced
      <4>2. QED BY <3>1, <4>1 DEF Announced, Carried
    <3>6. QED BY <1>2, <3>1, <3>2, <3>4, <3>5
  <2>4. QED BY <2>1, <2>2, <2>3
<1>10. Typed'
  BY <1>1, <1>9 DEF Typed, Inv, ClientTyped, HistoryTyped, CountersTyped
<1>11. QED BY <1>1, <1>7, <1>9, <1>10, CalmInv

\* Everything but the stream, the batch and the counters is left alone.
LEMMA OnlyStream ==
  ASSUME BoundsAssumption, Inv, UNCHANGED <<events, client, history>>,
         batch' = batch \/ batch' = <<>>, draining' \in BOOLEAN,
         CountersTyped', stream' \in Streams, stream'.url = stream.url, Passing', Announced'
  PROVE  Inv'
<1> USE DEF client, history
<1>1. Calm
  BY DEF Calm
<1>2. Typed'
  <2>1. <<>> \in Seq(Packets) /\ Len(<<>>) = 0
    BY EmptySeq
  <2>2. batch' \in Seq(Packets) /\ Len(batch') <= 1
    <3>1. CASE batch' = batch
      BY <3>1 DEF Inv, Typed, ServerTyped
    <3>2. CASE batch' = <<>>
      BY <2>1, <3>2
    <3>3. QED BY <3>1, <3>2
  <2>3. ServerTyped'
    BY <2>2 DEF Inv, Typed, ServerTyped
  <2>4. QED BY <2>3 DEF Inv, Typed, ClientTyped, HistoryTyped
<1>3. QED BY <1>1, <1>2, CalmInv

\* The merged activity is written when its timer ends.
LEMMA FlushBatchStep == ASSUME BoundsAssumption, Inv, FlushRealtimeBroadcasts PROVE Inv'
<1> USE DEF client, history
<1>1. /\ batch # <<>> /\ stream' \in Written(stream, batch[1]) /\ batch' = <<>>
      /\ UNCHANGED <<events, draining, client, history, breaks, resyncs>>
  BY DEF FlushRealtimeBroadcasts
<1>2. batch[1] \in Packets /\ Range(batch) = {batch[1]}
  BY <1>1, UnderWay DEF Inv, Typed
<1>3. /\ batch[1].topic = "activity" /\ Proper(batch[1], events')
      /\ \A p \in Range(stream.pending) : p.topic = "activity" => p.seq <= batch[1].seq
  BY <1>1, <1>2 DEF Inv, Passing
<1>4. \A p \in Range(stream.pending) : Key(p) = Key(batch[1]) => p.seq <= batch[1].seq
  BY <1>3 DEF Key
<1>5. stream'.url = stream.url
  BY <1>1, <1>2, WrittenKeeps DEF SameStream, Inv, Typed
<1>6. ServerTyped'
  BY <1>1, EmptySeq DEF Inv, Typed, ServerTyped
<1>7. Calm
  BY <1>1, <1>5 DEF Calm
<1>8. stream' \in Streams /\ Passing' /\ Announced'
  BY <1>1, <1>2, <1>3, <1>4, <1>6, <1>7, WriteKeeps
<1>9. CountersTyped'
  BY <1>1 DEF Inv, Typed, CountersTyped
<1>10. QED BY <1>1, <1>5, <1>6, <1>8, <1>9, OnlyStream DEF ServerTyped

\* Every tab is asked to fetch its state.
LEMMA BroadcastStep == ASSUME BoundsAssumption, Inv, BroadcastStateDelta PROVE Inv'
<1> USE DEF client, history, server
<1> DEFINE packet == Resync(CurrentSeq)
<1>1. /\ resyncs < MaxResyncs /\ resyncs' = resyncs + 1 /\ stream' \in Written(stream, packet)
      /\ UNCHANGED <<server, client, history, breaks>>
  BY DEF BroadcastStateDelta
<1>2. ServerTyped /\ ServerTyped'
  BY <1>1 DEF Inv, Typed, ServerTyped
<1>3. CurrentSeq \in 0 .. MaxEvents /\ CurrentSeq = Len(events)
  BY <1>2, EventNumbers, BoundsAssumption DEF CurrentSeq, BoundsAssumption
<1>4. packet \in Packets /\ packet.topic = "resync" /\ packet.seq = Len(events) /\ packet.ids = {}
  BY <1>3, ResyncIsPacket DEF Resync
<1> HIDE DEF packet
<1>5. Proper(packet, events')
  BY <1>1, <1>2, <1>4, EventNumbers DEF Proper
<1>6. \A p \in Range(stream.pending) : p.seq <= packet.seq
  BY <1>4, UnderWay DEF Inv, Typed, Passing, Proper
<1>7. stream'.url = stream.url
  BY <1>1, <1>4, WrittenKeeps DEF SameStream, Inv, Typed
<1>8. Calm
  BY <1>1, <1>7 DEF Calm
<1>9. stream' \in Streams /\ Passing' /\ Announced'
  BY <1>1, <1>2, <1>4, <1>5, <1>6, <1>8, WriteKeeps
<1>10. CountersTyped'
  BY <1>1, BoundsAssumption DEF Inv, Typed, CountersTyped, BoundsAssumption
<1>11. QED BY <1>1, <1>2, <1>7, <1>9, <1>10, OnlyStream DEF ServerTyped

\* What waits for a slow connection goes out.
LEMMA FlushPendingStep == ASSUME BoundsAssumption, Inv, FlushPendingSsePackets PROVE Inv'
<1> USE DEF client, history, server
<1>1. /\ stream' \in Flushed(stream)
      /\ UNCHANGED <<server, client, history, breaks, resyncs>>
  BY DEF FlushPendingSsePackets
<1>2. PICK s : s = stream'
  OBVIOUS
<1>3. /\ SameStream(stream, s) /\ Carried(s) = Carried(stream)
      /\ Range(s.pending) \subseteq Range(stream.pending)
  BY <1>1, <1>2, FlushedKeeps DEF Inv, Typed
<1>4. Carried(stream)' = Carried(stream) /\ Range(stream.pending)' = Range(s.pending)
  BY <1>2, <1>3 DEF Carried
<1>5. Passing'
  BY <1>1, <1>3, <1>4 DEF Inv, Passing
<1>6. Announced'
  <2>1. Counted' = Counted /\ \A i : Known(i)' = Known(i)
    <3>1. UNCHANGED <<events, last, opened, blind, vouched, view, seen, warned>>
      BY <1>1
    <3>2. QED BY <3>1 DEF Counted, Due, Known, Taken
  <2>2. stream'.state = stream.state
    BY <1>2, <1>3 DEF SameStream
  <2>3. QED BY <1>1, <1>4, <2>1, <2>2 DEF Announced, Inv
<1>7. ServerTyped' /\ CountersTyped'
  BY <1>1 DEF Inv, Typed, ServerTyped, CountersTyped
<1>8. stream' \in Streams /\ stream'.url = stream.url
  BY <1>2, <1>3 DEF SameStream
<1>9. QED BY <1>1, <1>5, <1>6, <1>7, <1>8, OnlyStream DEF ServerTyped

\* The drain tells every stream at once.
LEMMA DrainStep == ASSUME BoundsAssumption, Inv, BeginDrain PROVE Inv'
<1> USE DEF client, history
<1>1. /\ draining' = TRUE /\ breaks' = breaks + 1 /\ breaks < MaxBreaks
      /\ UNCHANGED <<events, batch, client, history, resyncs>>
      /\ \/ stream.state = "open" /\ stream' = [stream EXCEPT !.wire = Append(stream.wire, Resync(0))]
         \/ stream.state # "open" /\ stream' = stream
  BY DEF BeginDrain
<1>2. PICK s : s = stream'
  OBVIOUS
<1>3. Resync(0) \in Packets /\ Resync(0).topic = "resync" /\ Resync(0).seq = 0 /\ Resync(0).ids = {}
  BY ResyncIsPacket, BoundsAssumption DEF BoundsAssumption, Resync
<1>4. /\ SameStream(stream, s) /\ s.pending = stream.pending
      /\ Carried(stream) \subseteq Carried(s) /\ Carried(s) \subseteq Carried(stream) \cup {Resync(0)}
  <2>1. stream \in Streams
    BY DEF Inv, Typed
  <2>2. CASE stream.state # "open"
    BY <1>1, <1>2, <2>1, <2>2 DEF SameStream
  <2>3. CASE stream.state = "open"
    <3>1. stream.wire \in Seq(Packets)
      BY <2>1 DEF Streams
    <3>2. PICK old, wire : old = stream.wire /\ wire = Append(old, Resync(0))
      OBVIOUS
    <3>3. wire \in Seq(Packets) /\ Range(wire) = Range(old) \cup {Resync(0)}
      BY <1>3, <3>1, <3>2, AppendRange
    <3>4. s = [stream EXCEPT !.wire = wire]
      BY <1>1, <1>2, <2>3, <3>2
    <3>5. /\ s \in Streams /\ s.state = stream.state /\ s.url = stream.url
          /\ s.pending = stream.pending /\ s.wire = wire
      BY <2>1, <3>3, <3>4 DEF Streams
    <3>6. QED BY <3>2, <3>3, <3>5 DEF SameStream, Carried
  <2>4. QED BY <2>2, <2>3
<1>5. Carried(stream)' = Carried(s) /\ Range(stream.pending)' = Range(stream.pending)
  BY <1>2, <1>4 DEF Carried
<1>6. Passing'
  <2>1. Proper(Resync(0), events)
    BY <1>3, EventNumbers DEF Proper, Inv, Typed
  <2>2. \A p \in Carried(s) : Proper(p, events')
    BY <1>1, <1>4, <2>1 DEF Inv, Passing
  <2>3. QED BY <1>1, <1>5, <2>2 DEF Inv, Passing
<1>7. Announced'
  <2>1. Counted' = Counted /\ \A i : Known(i)' = Known(i)
    BY <1>1 DEF Counted, Due, Known, Taken
  <2>2. stream'.state = stream.state
    BY <1>2, <1>4 DEF SameStream
  <2>3. QED BY <1>1, <1>4, <1>5, <2>1, <2>2 DEF Announced, Inv
<1>8. CountersTyped'
  BY <1>1, BoundsAssumption DEF Inv, Typed, CountersTyped, BoundsAssumption
<1>9. stream' \in Streams /\ stream'.url = stream.url
  BY <1>2, <1>4 DEF SameStream
<1>10. QED BY <1>1, <1>6, <1>7, <1>8, <1>9, OnlyStream

\* The next process: the streams break, merged activity is lost with its timer.
LEMMA RestartStep == ASSUME BoundsAssumption, Inv, Restart PROVE Inv'
<1> USE DEF client, history
<1>1. /\ draining' = FALSE /\ batch' = <<>>
      /\ UNCHANGED <<events, client, history, breaks, resyncs>>
      /\ \/ stream.state = "open" /\ stream' = Closed("lost", stream.url)
         \/ stream.state # "open" /\ stream' = stream
  BY DEF Restart
<1>2. stream.url \in 0 .. MaxEvents
  BY DEF Inv, Typed, Streams
<1>3. stream' \in Streams /\ stream'.url = stream.url /\ Passing' /\ Announced'
  <2>1. CASE stream.state = "open"
    BY <1>1, <1>2, <2>1, CloseKeeps
  <2>2. CASE stream.state # "open"
    <3>1. Range(batch)' = {} /\ Carried(stream)' = Carried(stream)
      BY <1>1, <2>2 DEF Range, Carried
    <3>2. Passing'
      BY <1>1, <2>2, <3>1 DEF Inv, Passing
    <3>3. Announced'
      BY <1>1, <2>2 DEF Announced
    <3>4. QED BY <1>1, <2>2, <3>2, <3>3 DEF Inv, Typed
  <2>3. QED BY <2>1, <2>2
<1>4. CountersTyped'
  BY <1>1 DEF Inv, Typed, CountersTyped
<1>5. QED BY <1>1, <1>3, <1>4, OnlyStream

(***************************************************************************)
(* The steps of the tab.                                                   *)
(***************************************************************************)

\* The larger of two numbers.
LEMMA LargerIs ==
  ASSUME NEW a \in Nat, NEW b \in Nat
  PROVE  Larger(a, b) \in {a, b} /\ a <= Larger(a, b) /\ b <= Larger(a, b)
BY DEF Larger

\* applySseSeq, applyRealtimeJournalEvent: whatever counts up to the number of a
\* packet is known once the packet is handled, and what was known stays known.
LEMMA Handled ==
  ASSUME BoundsAssumption, Inv, HandlePacket, NEW p, p = Head(stream.wire)
  PROVE  /\ p \in Packets /\ p.seq \in Nat /\ Proper(p, events) /\ events' = events
         /\ Counted' \subseteq Counted /\ \A i \in Counted : Known(i) => Known(i)'
         /\ \A i \in Counted' : i <= p.seq => Known(i)'
         /\ last' \in Nat /\ (last' <= last \/ last' <= p.seq)
<1> USE DEF server
<1>1. /\ stream.wire # <<>> /\ last' = AppliedSeq(p)
      /\ opened' = (IF last = 0 THEN CurrentSeq ELSE opened)
      /\ \/ /\ p.topic = "resync" \/ HasGap(p)
            /\ RefreshAfterSseGap(p) /\ vouched' = vouched
         \/ /\ ~(p.topic = "resync" \/ HasGap(p))
            /\ TakeOver(p) /\ vouched' = vouched \cup ((p.first .. p.seq) \ p.ids)
      /\ UNCHANGED <<server, thread, blind, breaks, resyncs>>
  BY DEF HandlePacket
<1>2. p \in Packets /\ Proper(p, events)
  BY <1>1, HeadLeaves DEF Inv, Typed, Passing
<1>3. /\ p.seq \in Nat /\ p.first \in Nat /\ p.ids \in SUBSET Numbers
      /\ p.topic \in Topics \cup {"resync"}
      /\ last \in Nat /\ warned \in Nat /\ seen \in Nat /\ opened \in Nat /\ blind \in Nat
  BY <1>2, BoundsAssumption
     DEF Packets, Inv, Typed, ClientTyped, HistoryTyped, BoundsAssumption
<1>4. DOMAIN events = 1 .. Len(events) /\ Len(events) \in Nat
  BY EventNumbers DEF Inv, Typed
<1>5. last' \in Nat /\ (last' <= last \/ last' <= p.seq) /\ (last = 0 \/ last' # 0 \/ p.seq = 0)
  BY <1>1, <1>3, LargerIs DEF AppliedSeq
<1>6. vouched \subseteq vouched' /\ events' = events /\ blind' = blind
  BY <1>1
<1>7. Counted' \subseteq Counted
  <2>1. ASSUME NEW i \in Counted' PROVE i \in Counted
    <3>1. /\ i \in DOMAIN events /\ i > opened' /\ Visible(events[i]) /\ blind < i /\ i \notin vouched
      BY <1>6 DEF Counted, Due
    <3>2. last # 0
      BY <1>1, <1>4, <3>1 DEF CurrentSeq
    <3>3. opened' = opened
      BY <1>1, <3>2
    <3>4. QED BY <3>1, <3>2, <3>3 DEF Counted, Due
  <2>2. QED BY <2>1
<1>8. view \subseteq view' /\ seen <= seen' /\ warned <= warned' /\ seen' \in Nat /\ warned' \in Nat
  <2>1. CASE RefreshAfterSseGap(p)
    BY <1>3, <2>1, LargerIs DEF RefreshAfterSseGap
  <2>2. CASE TakeOver(p)
    BY <1>3, <2>2, LargerIs DEF TakeOver
  <2>3. QED BY <1>1, <2>1, <2>2
<1>9. ASSUME NEW i \in Counted, Known(i) PROVE Known(i)'
  <2>1. i \in Nat
    BY <1>4 DEF Counted, Due
  <2>2. i \in view \/ (events[i] = "activity" /\ i <= seen) \/ i <= warned
    BY <1>9 DEF Known, Taken
  <2>3. i \in view' \/ (events'[i] = "activity" /\ i <= seen') \/ i <= warned'
    BY <1>3, <1>6, <1>8, <2>1, <2>2
  <2>4. QED BY <2>3 DEF Known, Taken
<1>10. ASSUME NEW i \in Counted', i <= p.seq PROVE Known(i)'
  <2>1. i \in Counted /\ i \in DOMAIN events /\ i \in Nat /\ i >= 1 /\ i \notin vouched' /\ last # 0
    BY <1>4, <1>7 DEF Counted, Due
  <2>2. CASE i <= last
    BY <1>9, <2>1, <2>2 DEF Inv, MarkIsHonest, Known
  <2>3. CASE last < i /\ RefreshAfterSseGap(p)
    <3>1. i <= warned'
      BY <1>3, <1>8, <1>10, <2>1, <2>3, LargerIs DEF RefreshAfterSseGap
    <3>2. QED BY <3>1 DEF Known
  <2>4. CASE last < i /\ ~(p.topic = "resync" \/ HasGap(p)) /\ TakeOver(p)
    <3>1. p.first >= 1 /\ p.first <= last + 1
      BY <1>2, <1>3, <1>10, <2>1, <2>4 DEF Proper, HasGap
    <3>2. vouched' = vouched \cup ((p.first .. p.seq) \ p.ids)
      BY <1>1, <2>4
    <3>3. i \in p.ids
      BY <1>3, <1>10, <2>1, <2>4, <3>1, <3>2
    <3>4. CASE p.topic \in {"message", "reply"}
      BY <2>4, <3>3, <3>4 DEF TakeOver, Known, Taken
    <3>5. CASE p.topic = "activity"
      <4>1. events[i] = "activity"
        BY <1>2, <3>3, <3>5 DEF Proper
      <4>2. i <= seen'
        BY <1>3, <1>8, <1>10, <2>1, <2>4, <3>5, LargerIs DEF TakeOver
      <4>3. QED BY <1>6, <4>1, <4>2 DEF Known, Taken
    <3>6. QED BY <1>2, <1>3, <2>4, <3>4, <3>5 DEF Topics, Proper
  <2>5. QED BY <1>1, <1>3, <2>1, <2>2, <2>3, <2>4
<1>11. QED BY <1>2, <1>3, <1>5, <1>6, <1>7, <1>9, <1>10

\* The tab handles a packet.
LEMMA HandleStep == ASSUME BoundsAssumption, Inv, HandlePacket PROVE Inv'
<1> USE DEF server
<1>1. PICK p : p = Head(stream.wire)
  OBVIOUS
<1>2. /\ stream.wire # <<>> /\ stream' = [stream EXCEPT !.wire = Tail(stream.wire)]
      /\ last' = AppliedSeq(p)
      /\ opened' = (IF last = 0 THEN CurrentSeq ELSE opened)
      /\ \/ /\ p.topic = "resync" \/ HasGap(p)
            /\ RefreshAfterSseGap(p) /\ vouched' = vouched
         \/ /\ ~(p.topic = "resync" \/ HasGap(p))
            /\ TakeOver(p) /\ vouched' = vouched \cup ((p.first .. p.seq) \ p.ids)
      /\ UNCHANGED <<events, batch, draining, thread, blind, breaks, resyncs>>
  BY <1>1 DEF HandlePacket
<1>3. /\ p \in Packets /\ p.seq \in Nat /\ Proper(p, events)
      /\ Counted' \subseteq Counted /\ \A i \in Counted : Known(i) => Known(i)'
      /\ \A i \in Counted' : i <= p.seq => Known(i)'
      /\ last' \in Nat /\ (last' <= last \/ last' <= p.seq)
  BY <1>1, Handled
<1>4. /\ DOMAIN events = 1 .. Len(events) /\ Len(events) \in Nat /\ Len(events) <= MaxEvents
      /\ MaxEvents \in Nat /\ p.seq <= Len(events)
      /\ p.ids \in SUBSET Numbers /\ p.first \in Nat /\ p.topic \in Topics \cup {"resync"}
      /\ p.topic # "resync" => 1 <= p.first
  BY <1>3, EventNumbers, BoundsAssumption DEF Inv, Typed, BoundsAssumption, Proper, Packets
<1>5. /\ last \in Nat /\ opened \in Nat /\ warned \in Nat /\ seen \in Nat /\ forgone \subseteq Numbers
      /\ last <= Len(events) /\ opened <= Len(events) /\ warned <= Len(events) /\ seen <= Len(events)
      /\ stream.url <= Len(events)
  BY <1>4 DEF Inv, Typed, ClientTyped, HistoryTyped, Behind
<1>6. PICK s : s = stream'
  OBVIOUS
<1>7. /\ s \in Streams /\ s.state = stream.state /\ s.url = stream.url /\ s.pending = stream.pending
      /\ Carried(stream) = Carried(s) \cup {p}
  BY <1>1, <1>2, <1>6, HeadLeaves DEF Inv, Typed, SameStream
<1>8. Carried(stream)' = Carried(s) /\ Range(stream.pending)' = Range(stream.pending)
  BY <1>6, <1>7 DEF Carried
<1>9. ASSUME RefreshAfterSseGap(p), vouched' = vouched
      PROVE /\ warned' \in Nat /\ warned' <= Len(events) /\ forgone' \subseteq Numbers
            /\ fetch' \in [Fetches -> Fetching] /\ view' \subseteq Numbers
            /\ seen' \in Nat /\ seen' <= Len(events) /\ vouched' \subseteq Numbers /\ Repairing'
  <2> DEFINE gap == fetch["gap"]
  <2>1. /\ warned' = Larger(warned, p.seq) /\ view' = view /\ seen' = seen
        /\ fetch' = (IF gap.phase = "idle" THEN [fetch EXCEPT !["gap"].phase = "asked"] ELSE fetch)
        /\ forgone' = (IF gap.phase = "answered" THEN forgone \cup (gap.upto + 1 .. p.seq) ELSE forgone)
    BY <1>9 DEF RefreshAfterSseGap
  <2>2. warned' \in Nat /\ warned' <= Len(events) /\ warned' \in {warned, p.seq}
    BY <1>3, <1>4, <1>5, <2>1, LargerIs
  <2>3. /\ fetch' \in [Fetches -> Fetching] /\ gap \in Fetching
        /\ gap.phase = "idle" => fetch'["gap"].phase = "asked"
        /\ gap.phase # "idle" => fetch' = fetch
        /\ fetch'["gap"].upto = gap.upto
    BY <2>1 DEF Inv, Typed, ClientTyped, Fetching, Fetches
  <2>4. forgone' \subseteq Numbers /\ forgone \subseteq forgone'
    <3>1. gap.upto \in Nat
      BY <2>3, <1>4 DEF Fetching
    <3>2. \A i \in gap.upto + 1 .. p.seq : i \in Numbers
      BY <1>3, <1>4, <3>1 DEF Numbers
    <3> HIDE DEF gap
    <3>3. QED BY <1>5, <2>1, <3>2
  <2>5. Repairing'
    <3>1. gap.upto \in Nat /\ gap.upto <= Len(events) /\ gap.phase \in {"idle", "asked", "answered"}
      BY <2>3, <1>4 DEF Fetching, Inv, Repairing
    <3>2. Page' = Page /\ thread' = thread /\ \A i \in Page : i \in Nat
      <4>1. Page' = Page
        BY <1>2 DEF Page, Newest, Of
      <4>2. \A i \in Page : i \in Nat
        BY <1>4 DEF Page, Newest, Of
      <4>3. QED BY <1>2, <4>1, <4>2
    <3>3. ASSUME ~thread, NEW i \in Page, i <= warned'
          PROVE  i \in view' \cup forgone' \/ BeingFetched(i)'
      <4>1. CASE gap.phase = "idle"
        BY <2>3, <4>1 DEF BeingFetched
      <4>2. CASE gap.phase = "asked"
        BY <2>3, <4>2 DEF BeingFetched
      <4>3. CASE gap.phase = "answered"
        <5>1. fetch' = fetch /\ forgone' = forgone \cup (gap.upto + 1 .. p.seq)
          BY <2>1, <2>3, <4>3
        <5>2. CASE i <= gap.upto
          <6>1. i \in gap.got
            BY <3>3, <4>3, <5>2 DEF Inv, Repairing
          <6>2. QED BY <4>3, <5>1, <6>1 DEF BeingFetched
        <5>3. CASE ~(i <= gap.upto) /\ i <= p.seq
          <6>1. i \in gap.upto + 1 .. p.seq
            BY <1>3, <3>1, <3>2, <3>3, <5>3
          <6>2. QED BY <5>1, <6>1
        <5>4. CASE ~(i <= p.seq)
          <6>1. i <= warned
            BY <1>3, <1>5, <2>2, <3>2, <3>3, <5>4
          <6>2. i \in view \cup forgone \/ BeingFetched(i)
            BY <3>3, <6>1 DEF Inv, Repairing
          <6>3. QED BY <2>1, <2>4, <5>1, <6>2 DEF BeingFetched
        <5>5. QED BY <5>2, <5>3, <5>4
      <4>4. QED BY <3>1, <4>1, <4>2, <4>3
    <3>4. ASSUME ~thread, NEW i \in Page, fetch'["gap"].phase = "answered", i <= fetch'["gap"].upto
          PROVE  i \in fetch'["gap"].got
      <4>1. fetch' = fetch
        BY <2>3, <3>4
      <4>2. QED BY <3>4, <4>1 DEF Inv, Repairing
    <3>5. fetch'["gap"].upto <= Len(events')
      BY <1>2, <2>3, <3>1
    <3>6. QED BY <3>2, <3>3, <3>4, <3>5 DEF Repairing
  <2>6. /\ vouched' \subseteq Numbers /\ view' \subseteq Numbers
        /\ seen' \in Nat /\ seen' <= Len(events)
    BY <1>5, <1>9, <2>1 DEF Inv, Typed, ClientTyped, HistoryTyped
  <2>7. QED BY <2>2, <2>3, <2>4, <2>5, <2>6
<1>10. ASSUME ~(p.topic = "resync" \/ HasGap(p)), TakeOver(p),
              vouched' = vouched \cup ((p.first .. p.seq) \ p.ids)
      PROVE /\ warned' \in Nat /\ warned' <= Len(events) /\ forgone' \subseteq Numbers
            /\ fetch' \in [Fetches -> Fetching] /\ view' \subseteq Numbers
            /\ seen' \in Nat /\ seen' <= Len(events) /\ vouched' \subseteq Numbers /\ Repairing'
  <2>1. /\ view' = (IF p.topic \in {"message", "reply"} THEN view \cup p.ids ELSE view)
        /\ seen' = (IF p.topic = "activity" THEN Larger(seen, p.seq) ELSE seen)
        /\ UNCHANGED <<fetch, warned, forgone>>
    BY <1>10 DEF TakeOver
  <2>2. Repairing'
    <3>1. Page' = Page
      BY <1>2 DEF Page, Newest, Of
    <3>2. view \subseteq view' /\ Len(events') = Len(events) /\ thread' = thread
      BY <1>2, <2>1
    <3>3. ASSUME ~thread, NEW i \in Page, i <= warned
          PROVE  i \in view' \cup forgone \/ BeingFetched(i)'
      BY <2>1, <3>2, <3>3 DEF Inv, Repairing, BeingFetched
    <3>4. QED BY <2>1, <3>1, <3>2, <3>3 DEF Inv, Repairing
  <2>3. /\ warned' \in Nat /\ warned' <= Len(events) /\ forgone' \subseteq Numbers
        /\ fetch' \in [Fetches -> Fetching]
    BY <1>4, <1>5, <2>1 DEF Inv, Typed, ClientTyped
  <2>4. view' \subseteq Numbers /\ seen' \in Nat /\ seen' <= Len(events)
    BY <1>3, <1>4, <1>5, <2>1, LargerIs DEF Inv, Typed, ClientTyped
  <2>5. vouched' \subseteq Numbers
    <3>1. vouched \subseteq Numbers
      BY DEF Inv, Typed, HistoryTyped
    <3>2. p.first >= 1
      BY <1>4, <1>10
    <3>3. \A i \in p.first .. p.seq : i \in Numbers
      BY <1>3, <1>4, <3>2 DEF Numbers
    <3>4. QED BY <1>10, <3>1, <3>3
  <2>6. QED BY <2>2, <2>3, <2>4, <2>5
<1>11. /\ warned' \in Nat /\ warned' <= Len(events) /\ forgone' \subseteq Numbers
       /\ fetch' \in [Fetches -> Fetching] /\ view' \subseteq Numbers
       /\ seen' \in Nat /\ seen' <= Len(events) /\ vouched' \subseteq Numbers /\ Repairing'
  <2>1. \/ RefreshAfterSseGap(p) /\ vouched' = vouched
        \/ /\ ~(p.topic = "resync" \/ HasGap(p)) /\ TakeOver(p)
           /\ vouched' = vouched \cup ((p.first .. p.seq) \ p.ids)
    BY <1>2
  <2>2. CASE RefreshAfterSseGap(p) /\ vouched' = vouched
    BY <1>9, <2>2
  <2>3. CASE /\ ~(p.topic = "resync" \/ HasGap(p)) /\ TakeOver(p)
             /\ vouched' = vouched \cup ((p.first .. p.seq) \ p.ids)
    BY <1>10, <2>3
  <2>4. QED BY <2>1, <2>2, <2>3
<1>12. last' <= Len(events) /\ opened' \in Nat /\ opened' <= Len(events)
  BY <1>2, <1>3, <1>4, <1>5 DEF CurrentSeq
<1>13. Typed'
  <2>1. ServerTyped' /\ CountersTyped'
    BY <1>2 DEF Inv, Typed, ServerTyped, CountersTyped
  <2>2. ClientTyped'
    BY <1>2, <1>3, <1>4, <1>11, <1>12 DEF Inv, Typed, ClientTyped
  <2>3. HistoryTyped'
    BY <1>2, <1>4, <1>11, <1>12 DEF Inv, Typed, HistoryTyped
  <2>4. QED BY <1>6, <1>7, <2>1, <2>2, <2>3 DEF Typed
<1>14. Passing'
  <2>1. \A q \in Carried(s) \cup Range(batch) : Proper(q, events)
    BY <1>7 DEF Inv, Passing
  <2>2. QED BY <1>2, <1>8, <2>1 DEF Inv, Passing
<1>15. Behind'
  BY <1>2, <1>5, <1>6, <1>7, <1>11, <1>12 DEF Behind
<1>16. \A i \in Counted' : i \in Counted /\ i \in Nat
  BY <1>3, <1>4 DEF Counted, Due
<1>17. MarkIsHonest'
  <2>1. ASSUME NEW i \in Counted', i <= last' PROVE Known(i)'
    <3>1. CASE i <= last
      BY <1>3, <1>16, <3>1 DEF Inv, MarkIsHonest, Known
    <3>2. CASE ~(i <= last)
      BY <1>3, <1>5, <1>16, <2>1, <3>2
    <3>3. QED BY <3>1, <3>2
  <2>2. QED BY <2>1 DEF MarkIsHonest, Known
<1>18. UrlIsHonest'
  <2>1. ASSUME NEW i \in Counted', i <= stream.url PROVE Known(i)'
    BY <1>3, <1>16, <2>1 DEF Inv, UrlIsHonest
  <2>2. QED BY <1>6, <1>7, <2>1 DEF UrlIsHonest
<1>19. Announced'
  <2>1. ASSUME stream.state = "open", NEW i \in Counted'
        PROVE  Known(i)' \/ \E q \in Carried(s) \cup Range(batch) : i <= q.seq
    <3>1. Known(i) \/ \E q \in Carried(stream) \cup Range(batch) : i <= q.seq
      BY <1>16, <2>1 DEF Inv, Announced
    <3>2. QED BY <1>3, <1>7, <1>16, <3>1
  <2>2. QED BY <1>2, <1>6, <1>7, <1>8, <2>1 DEF Announced
<1>20. QED BY <1>11, <1>13, <1>14, <1>15, <1>17, <1>18, <1>19 DEF Inv

\* A fetch is answered: it has the newest page of messages, unless a thread is open.
LEMMA AnswerStep ==
  ASSUME BoundsAssumption, Inv, NEW f \in Fetches, AnswerFetch(f) PROVE Inv'
<1> USE DEF server, history
<1>1. /\ fetch[f].phase = "asked"
      /\ fetch' = [fetch EXCEPT ![f] =
                     [phase |-> "answered", got |-> Fetched, upto |-> CurrentSeq]]
      /\ UNCHANGED <<events, batch, draining, stream, thread, last, view, seen, breaks, resyncs>>
      /\ UNCHANGED <<opened, blind, vouched, warned, forgone>>
  BY DEF AnswerFetch
<1>2. DOMAIN events = 1 .. Len(events) /\ Len(events) <= MaxEvents /\ Len(events) \in Nat
  BY EventNumbers DEF Inv, Typed
<1>3. Fetched \in SUBSET Numbers
  BY <1>2, BoundsAssumption DEF Fetched, Newest, Of, Numbers, BoundsAssumption
<1>4. fetch' \in [Fetches -> Fetching] /\ fetch \in [Fetches -> Fetching]
  <2>1. CurrentSeq \in 0 .. MaxEvents
    BY <1>2, BoundsAssumption DEF CurrentSeq, BoundsAssumption
  <2>2. QED BY <1>1, <1>3, <2>1 DEF Inv, Typed, ClientTyped, Fetching
<1>5. Typed'
  BY <1>1, <1>4 DEF Inv, Typed, ServerTyped, ClientTyped, HistoryTyped, CountersTyped
<1>6. Passing' /\ Behind'
  BY <1>1 DEF Inv, Passing, Behind, Carried
<1>7. Counted' = Counted /\ \A i : Known(i)' = Known(i)
  BY <1>1 DEF Counted, Due, Known, Taken
<1>8. MarkIsHonest' /\ UrlIsHonest'
  BY <1>1, <1>7 DEF Inv, MarkIsHonest, UrlIsHonest, Known
<1>9. Announced'
  BY <1>1, <1>7 DEF Inv, Announced, Carried
<1>10. Repairing'
  <2>1. Page' = Page /\ \A i \in Page : i <= Len(events)
    BY <1>1, <1>2 DEF Page, Newest, Of
  <2>2. CASE f = "gap"
    <3>1. fetch'["gap"] = [phase |-> "answered", got |-> Fetched, upto |-> Len(events)]
      BY <1>1, <1>4, <2>2 DEF CurrentSeq
    <3>2. ~thread => Fetched = Page
      BY DEF Fetched, Page
    <3>3. Len(events) <= Len(events)
      BY <1>2
    <3>4. QED BY <1>1, <2>1, <3>1, <3>2, <3>3 DEF Repairing, BeingFetched
  <2>3. CASE f # "gap"
    <3>1. fetch'["gap"] = fetch["gap"]
      BY <1>1, <1>4, <2>3 DEF Fetches
    <3>2. QED BY <1>1, <2>1, <3>1 DEF Inv, Repairing, BeingFetched
  <2>4. QED BY <2>2, <2>3
<1>11. QED BY <1>5, <1>6, <1>8, <1>9, <1>10 DEF Inv

\* A fetch ends: its answer is merged, or what was announced counts as forgone.
LEMMA EndStep ==
  ASSUME BoundsAssumption, Inv, NEW f \in Fetches, NEW merged \in BOOLEAN, EndFetch(f, merged),
         merged => fetch[f].phase = "answered"
  PROVE  Inv'
<1> USE DEF server
<1>1. /\ view' = (IF merged THEN view \cup fetch[f].got ELSE view)
      /\ forgone' = (IF f = "gap" /\ ~merged THEN forgone \cup 1 .. warned ELSE forgone)
      /\ fetch' = [fetch EXCEPT ![f] = Idle]
      /\ \/ f = "tab" /\ stream' \in Accepted(last)
         \/ f # "tab" /\ stream' = stream
      /\ UNCHANGED <<events, batch, draining, resyncs>>
      /\ UNCHANGED <<thread, last, seen, opened, blind, vouched, warned, breaks>>
  BY DEF EndFetch, Dropped, ConnectEvents
<1>2. ServerTyped /\ ServerTyped'
  BY <1>1 DEF Inv, Typed, ServerTyped
<1>3. last \in 0 .. MaxEvents /\ stream.url \in 0 .. MaxEvents /\ stream \in Streams
  BY DEF Inv, Typed, ClientTyped, Streams
<1>4. stream'.url \in {stream.url, last}
  BY <1>1, <1>2, <1>3, AcceptedOffers
<1>5. Calm
  BY <1>1, <1>4 DEF Calm
<1>6. stream' \in Streams /\ Passing' /\ Announced'
  <2>1. CASE f = "tab"
    <3>1. stream' \in Accepted(last) /\ UNCHANGED server
      BY <1>1, <2>1
    <3>2. QED BY <1>5, <3>1, ConnectKeeps
  <2>2. CASE f # "tab"
    <3>1. UNCHANGED <<events, batch, stream>>
      BY <1>1, <2>2
    <3>2. Passing'
      BY <3>1 DEF Inv, Passing, Carried
    <3>3. ASSUME stream.state = "open", NEW i \in Counted'
          PROVE  Known(i)' \/ \E p \in Carried(stream) \cup Range(batch) : i <= p.seq
      <4>1. i \in DOMAIN events
        BY <3>1 DEF Counted, Due
      <4>2. i \in Counted /\ (Known(i) => Known(i)')
        BY <1>2, <1>3, <1>5, <3>1, <3>3, <4>1, CalmStep
      <4>3. QED BY <3>3, <4>2 DEF Inv, Announced
    <3>4. QED BY <1>3, <3>1, <3>2, <3>3 DEF Announced, Carried
  <2>3. QED BY <2>1, <2>2
<1>7. /\ fetch \in [Fetches -> Fetching] /\ fetch' \in [Fetches -> Fetching]
      /\ view' \subseteq Numbers /\ forgone' \subseteq Numbers
  <2>1. Idle \in Fetching
    BY BoundsAssumption DEF Idle, Fetching, BoundsAssumption
  <2>2. fetch \in [Fetches -> Fetching]
    BY DEF Inv, Typed, ClientTyped
  <2>3. fetch[f].got \subseteq Numbers
    BY <2>2 DEF Fetching
  <2>4. 1 .. warned \subseteq Numbers /\ forgone \subseteq Numbers
    <3>1. warned \in 0 .. MaxEvents /\ forgone \subseteq Numbers
      BY DEF Inv, Typed, HistoryTyped
    <3>2. \A i \in 1 .. warned : i \in Numbers
      BY <3>1, BoundsAssumption DEF Numbers, BoundsAssumption
    <3>3. QED BY <3>1, <3>2
  <2>5. QED BY <1>1, <2>1, <2>2, <2>3, <2>4 DEF Inv, Typed, ClientTyped
<1>8. Typed'
  BY <1>1, <1>2, <1>6, <1>7 DEF Inv, Typed, ClientTyped, HistoryTyped, CountersTyped
<1>9. Repairing'
  <2>1. Page' = Page /\ \A i \in Page : i \in Nat /\ i >= 1
    <3>1. Page' = Page
      BY <1>1 DEF Page, Newest, Of
    <3>2. \A i \in DOMAIN events : i \in Nat /\ i >= 1
      BY <1>2, EventNumbers
    <3>3. QED BY <3>1, <3>2 DEF Page, Newest, Of
  <2>2. warned \in Nat /\ Len(events) \in Nat
    BY <1>2, BoundsAssumption, EventNumbers DEF Inv, Typed, HistoryTyped, BoundsAssumption
  <2>3. CASE f = "gap"
    <3>1. fetch'["gap"] = Idle
      BY <1>1, <1>7, <2>3
    <3>2. ASSUME ~thread, NEW i \in Page, i <= warned PROVE i \in view' \cup forgone'
      <4>1. CASE merged
        BY <1>1, <2>3, <3>2, <4>1 DEF Inv, Repairing, BeingFetched
      <4>2. CASE ~merged
        <5>1. i \in 1 .. warned
          BY <2>1, <2>2, <3>2
        <5>2. QED BY <1>1, <2>3, <4>2, <5>1
      <4>3. QED BY <4>1, <4>2
    <3>3. 0 <= Len(events')
      BY <1>1, <2>2
    <3>4. QED BY <1>1, <2>1, <3>1, <3>2, <3>3 DEF Repairing, Idle
  <2>4. CASE f # "gap"
    <3>1. fetch'["gap"] = fetch["gap"] /\ forgone' = forgone /\ view \subseteq view'
      BY <1>1, <1>7, <2>4 DEF Fetches
    <3>2. ASSUME ~thread, NEW i \in Page, i <= warned
          PROVE  i \in view' \cup forgone' \/ BeingFetched(i)'
      BY <3>1, <3>2 DEF Inv, Repairing, BeingFetched
    <3>3. QED BY <1>1, <2>1, <3>1, <3>2 DEF Inv, Repairing
  <2>5. QED BY <2>3, <2>4
<1>10. Behind' /\ MarkIsHonest' /\ UrlIsHonest'
  BY <1>2, <1>5, <1>6, CalmStep
<1>11. QED BY <1>6, <1>8, <1>9, <1>10 DEF Inv

\* The stream is replaced, comes back, breaks or is given up.
LEMMA StreamStep ==
  ASSUME BoundsAssumption, Inv, Select \/ LoseStream \/ Reconnect \/ SuspendForHiddenTab
  PROVE  Inv'
<1> USE DEF server, client, history
<1>1. /\ UNCHANGED <<events, batch, draining, thread, last, view, seen, fetch>>
      /\ UNCHANGED <<opened, vouched, warned, forgone, resyncs>>
      /\ breaks' = breaks \/ (breaks < MaxBreaks /\ breaks' = breaks + 1)
      /\ \/ stream' \in Accepted(last) /\ blind' = blind
         \/ /\ stream' \in Accepted(stream.url)
            /\ blind' = (IF stream.url = 0 THEN CurrentSeq ELSE blind)
         \/ stream' = Closed("lost", stream.url) /\ blind' = blind
         \/ stream' = Closed("hidden", 0) /\ blind' = blind
  <2>1. CASE Select
    <3>1. breaks' = breaks \/ (breaks < MaxBreaks /\ breaks' = breaks + 1)
      BY <2>1 DEF Select
    <3>2. QED BY <2>1, <3>1 DEF Select, ConnectEvents
  <2>2. CASE LoseStream
    BY <2>2 DEF LoseStream
  <2>3. CASE Reconnect
    BY <2>3 DEF Reconnect
  <2>4. CASE SuspendForHiddenTab
    BY <2>4 DEF SuspendForHiddenTab
  <2>5. QED BY <2>1, <2>2, <2>3, <2>4
<1>2. ServerTyped /\ ServerTyped'
  BY <1>1 DEF Inv, Typed, ServerTyped
<1>3. /\ last \in 0 .. MaxEvents /\ stream.url \in 0 .. MaxEvents /\ 0 \in 0 .. MaxEvents
      /\ Len(events) \in 0 .. MaxEvents /\ CurrentSeq = Len(events)
  BY <1>2, EventNumbers, BoundsAssumption
     DEF Inv, Typed, ClientTyped, Streams, BoundsAssumption, CurrentSeq
<1>4. /\ stream' \in Streams /\ Passing' /\ Announced' /\ Calm
  <2>1. CASE stream' \in Accepted(last) /\ blind' = blind
    <3>1. Calm
      BY <1>1, <1>2, <1>3, <2>1, AcceptedOffers DEF Calm
    <3>2. QED BY <1>1, <2>1, <3>1, ConnectKeeps
  <2>2. CASE /\ stream' \in Accepted(stream.url)
             /\ blind' = (IF stream.url = 0 THEN CurrentSeq ELSE blind)
    <3>1. Calm
      BY <1>1, <1>2, <1>3, <2>2, AcceptedOffers DEF Calm
    <3>2. QED BY <1>1, <1>3, <2>2, <3>1, ConnectKeeps
  <2>3. CASE stream' = Closed("lost", stream.url) /\ blind' = blind
    <3>1. stream' \in Streams /\ stream'.url = stream.url /\ Passing' /\ Announced'
      BY <1>1, <1>3, <2>3, CloseKeeps
    <3>2. QED BY <1>1, <2>3, <3>1 DEF Calm
  <2>4. CASE stream' = Closed("hidden", 0) /\ blind' = blind
    <3>1. stream' \in Streams /\ stream'.url = 0 /\ Passing' /\ Announced'
      BY <1>1, <1>3, <2>4, CloseKeeps
    <3>2. QED BY <1>1, <2>4, <3>1 DEF Calm
  <2>5. QED BY <1>1, <2>1, <2>2, <2>3, <2>4
<1>5. breaks' \in 0 .. MaxBreaks
  BY <1>1, BoundsAssumption DEF Inv, Typed, CountersTyped, BoundsAssumption
<1>6. Typed'
  <2>1. blind' \in 0 .. MaxEvents
    BY <1>1, <1>3 DEF Inv, Typed, HistoryTyped
  <2>2. QED BY <1>1, <1>2, <1>4, <1>5, <2>1 DEF Inv, Typed, ClientTyped, HistoryTyped, CountersTyped
<1>7. QED BY <1>1, <1>4, <1>6, CalmInv

\* A hidden tab that is shown again asks for its records first.
LEMMA ResumeStep == ASSUME BoundsAssumption, Inv, ResumeAfterHiddenTab PROVE Inv'
<1> USE DEF server, history
<1>1. /\ fetch' = [fetch EXCEPT !["tab"].phase = "asked"]
      /\ UNCHANGED <<events, batch, draining, stream, thread, last, view, seen, breaks, resyncs>>
      /\ UNCHANGED <<opened, blind, vouched, warned, forgone>>
  BY DEF ResumeAfterHiddenTab
<1>2. fetch \in [Fetches -> Fetching]
  BY DEF Inv, Typed, ClientTyped
<1>3. fetch' \in [Fetches -> Fetching] /\ fetch'["gap"] = fetch["gap"]
  BY <1>1, <1>2 DEF Fetching, Fetches
<1>4. Calm
  BY <1>1 DEF Calm
<1>5. Typed'
  BY <1>1, <1>3 DEF Inv, Typed, ServerTyped, ClientTyped, HistoryTyped, CountersTyped
<1>6. Passing'
  BY <1>1 DEF Inv, Passing, Carried
<1>7. Counted' = Counted /\ \A i : Known(i)' = Known(i)
  BY <1>1 DEF Counted, Due, Known, Taken
<1>8. Announced'
  BY <1>1, <1>7 DEF Inv, Announced, Carried
<1>9. QED BY <1>1, <1>3, <1>4, <1>5, <1>6, <1>8, CalmInv

(***************************************************************************)
(* The theorems.                                                           *)
(***************************************************************************)

\* A tab starts with no stream and nothing due.
LEMMA InitInv == ASSUME BoundsAssumption, Init PROVE Inv
<1> USE DEF Init
<1>1. /\ events \in Seq(Topics) /\ Len(events) \in {0, 1} /\ DOMAIN events = 1 .. Len(events)
      /\ "elsewhere" \in Topics
  <2>1. <<>> \in Seq(Topics) /\ Len(<<>>) = 0
    BY EmptySeq
  <2>2. "elsewhere" \in Topics
    BY DEF Topics
  <2>3. <<"elsewhere">> \in Seq(Topics) /\ Len(<<"elsewhere">>) = 1
    BY <2>2
  <2>4. events \in Seq(Topics) /\ Len(events) \in {0, 1}
    BY <2>1, <2>3
  <2>5. QED BY <2>2, <2>4, LenProperties
<1>2. Len(events) \in 0 .. MaxEvents /\ 0 \in 0 .. MaxEvents
  BY <1>1, BoundsAssumption DEF BoundsAssumption
<1>3. <<>> \in Seq(Packets) /\ Len(<<>>) = 0 /\ Range(<<>>) = {}
  BY EmptySeq DEF Range
<1>4. stream \in Streams /\ stream.state = "none" /\ stream.url = 0 /\ Carried(stream) = {}
  BY <1>2, <1>3 DEF Closed, Streams, Carried
<1>5. Range(batch) = {}
  BY <1>3
<1>6. Typed
  <2>1. ServerTyped
    <3>1. Len(events) <= MaxEvents
      BY <1>2, BoundsAssumption DEF BoundsAssumption
    <3>2. batch \in Seq(Packets) /\ Len(batch) <= 1
      BY <1>3
    <3>3. QED BY <1>1, <3>1, <3>2 DEF ServerTyped
  <2>2. Idle \in Fetching
    BY <1>2 DEF Idle, Fetching
  <2>3. ClientTyped
    BY <1>2, <2>2 DEF ClientTyped
  <2>4. HistoryTyped /\ CountersTyped
    BY <1>2, BoundsAssumption DEF HistoryTyped, CountersTyped, BoundsAssumption
  <2>5. QED BY <1>4, <2>1, <2>3, <2>4 DEF Typed
<1>7. Passing
  BY <1>4, <1>5 DEF Passing
<1>8. Behind
  BY <1>1, <1>4 DEF Behind
<1>9. Counted = {}
  BY <1>1 DEF Counted, Due
<1>10. MarkIsHonest /\ UrlIsHonest /\ Announced
  BY <1>9 DEF MarkIsHonest, UrlIsHonest, Announced
<1>11. Repairing
  <2>1. Page = {}
    BY <1>1 DEF Page, Newest, Of
  <2>2. fetch["gap"].upto = 0
    BY DEF Idle, Fetches
  <2>3. QED BY <1>1, <2>1, <2>2 DEF Repairing
<1>12. QED BY <1>6, <1>7, <1>8, <1>10, <1>11 DEF Inv

\* Every step keeps the invariant.
LEMMA NextInv == ASSUME BoundsAssumption, Inv, [Next]_vars PROVE Inv'
<1>1. ASSUME NEW topic \in Topics, RecordRealtimeEvent(topic) PROVE Inv'
  BY <1>1, RecordStep
<1>2. CASE FlushRealtimeBroadcasts
  BY <1>2, FlushBatchStep
<1>3. CASE BroadcastStateDelta
  BY <1>3, BroadcastStep
<1>4. CASE FlushPendingSsePackets
  BY <1>4, FlushPendingStep
<1>5. CASE BeginDrain
  BY <1>5, DrainStep
<1>6. CASE Restart
  BY <1>6, RestartStep
<1>7. CASE HandlePacket
  BY <1>7, HandleStep
<1>8. ASSUME NEW f \in Fetches, AnswerFetch(f) PROVE Inv'
  BY <1>8, AnswerStep
<1>9. ASSUME NEW f \in Fetches, TakeAnswer(f) PROVE Inv'
  BY <1>9, EndStep DEF TakeAnswer
<1>10. ASSUME NEW f \in Fetches, FetchFails(f) PROVE Inv'
  BY <1>10, EndStep DEF FetchFails
<1>11. CASE Select \/ LoseStream \/ Reconnect \/ SuspendForHiddenTab
  BY <1>11, StreamStep
<1>12. CASE ResumeAfterHiddenTab
  BY <1>12, ResumeStep
<1>13. CASE UNCHANGED vars
  BY <1>13 DEF vars, server, client, history, Inv, Typed, ServerTyped, ClientTyped, HistoryTyped,
               CountersTyped, Passing, Behind, MarkIsHonest, UrlIsHonest, Announced, Repairing,
               Counted, Due, Known, Taken, Carried, BeingFetched, Page, Newest, Of
<1>14. QED
  BY <1>1, <1>2, <1>3, <1>4, <1>5, <1>6, <1>7, <1>8, <1>9, <1>10, <1>11, <1>12, <1>13 DEF Next

\* Marks that are honest, a packet for everything owed, every repair accounted for.
THEOREM InvHolds == Spec => []Inv
<1>1. Init => Inv
  BY InitInv, BoundsAssumption
<1>2. Inv /\ [Next]_vars => Inv'
  BY NextInv, BoundsAssumption
<1>3. QED BY <1>1, <1>2, PTL DEF Spec

\* Every variable keeps its type, for a journal of any size.
THEOREM TypeCorrect == Spec => []TypeOK
<1>1. Inv => TypeOK
  <2> SUFFICES ASSUME Inv PROVE TypeOK
    OBVIOUS
  <2>1. Carried(stream) \subseteq Packets /\ Range(batch) \subseteq Packets
    BY UnderWay DEF Inv
  <2>2. QED
    BY <2>1 DEF Inv, Typed, ServerTyped, ClientTyped, HistoryTyped, CountersTyped, TypeOK,
                Streams, Fetching, Carried
<1>2. QED BY <1>1, InvHolds, PTL

\* lastSseSeq never passes an event that the tab has neither taken nor been told
\* to fetch (applySseSeq), however packets are merged, coalesced and replayed.
THEOREM MarkHonest == Spec => []MarkIsHonest
<1>1. Inv => MarkIsHonest
  BY DEF Inv
<1>2. QED BY <1>1, InvHolds, PTL

\* With nothing under way the tab has, or was told to fetch, all that counts
\* (realtimeEventsForRequest, queuePendingSsePacket).
THEOREM ResumeComplete == Spec => []ResumeIsComplete
<1>1. Inv => ResumeIsComplete
  <2> SUFFICES ASSUME Inv, Quiet, NEW i \in Counted PROVE Known(i)
    BY DEF ResumeIsComplete, Known
  <2>1. Carried(stream) \cup Range(batch) = {}
    BY DEF Quiet, Carried, Range
  <2>2. QED BY <2>1 DEF Inv, Announced, Quiet
<1>2. QED BY <1>1, InvHolds, PTL

\* Without an open thread the newest page of messages has no hole up to the mark once
\* no fetch is under way, but for what was announced while an answer was on its way
\* and for fetches that failed (refreshAfterSseGap), for pages of any size.
THEOREM GapsRepaired == Spec => []GapsAreRepaired
<1>1. Inv => GapsAreRepaired
  <2> SUFFICES ASSUME Inv, ~thread, \A f \in Fetches : fetch[f] = Idle,
                      NEW i \in Counted \cap Page, i <= last
               PROVE  i \in view \cup forgone
    BY DEF GapsAreRepaired, Page
  <2>1. events[i] = "message"
    BY DEF Page, Newest, Of
  <2>2. i \in view \/ i <= warned
    BY <2>1 DEF Inv, MarkIsHonest, Taken
  <2>3. ~BeingFetched(i)
    BY DEF BeingFetched, Idle, Fetches
  <2>4. QED BY <2>2, <2>3 DEF Inv, Repairing
<1>2. QED BY <1>1, InvHolds, PTL
=============================================================================
