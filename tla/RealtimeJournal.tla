-------------------------- MODULE RealtimeJournal --------------------------
(***************************************************************************)
(* The journal of realtime events (server/state-core.js), the event stream *)
(* of /api/events (server/api/system-routes.js) and one browser tab that   *)
(* listens to it (public/app/sync-events-keyboard.js).                     *)
(*                                                                         *)
(* The server numbers the events of a workspace, keeps the newest Keep of  *)
(* them, and sends each to the streams it concerns.  Activity of agents is *)
(* collected for a moment and merged; packets for a connection that cannot *)
(* take more are coalesced by key.  The tab compares numbers: a jump is a  *)
(* gap, and a gap makes it fetch records instead of applying the event.    *)
(*                                                                         *)
(* The model has one workspace, one agent, one selected space of the tab   *)
(* and all other spaces as one topic.  Event number i is the i-th recorded *)
(* one: a restart comes after the drain, when every save is done.          *)
(***************************************************************************)
EXTENDS Naturals, Sequences, FiniteSets, SequencesExt

CONSTANTS
  Keep,          \* events the journal keeps (2000 in the code)
  PageSize,      \* records one fetch brings (CONVERSATION_HISTORY_PAGE_SIZE, 80)
  MaxEvents,     \* bound: events recorded
  MaxBreaks,     \* bound: streams lost, reopened or suspended, restarts
  MaxResyncs     \* bound: broadcasts that ask every tab to fetch its state

ASSUME BoundsAssumption ==
  /\ Keep \in Nat \ {0} /\ PageSize \in Nat \ {0}
  /\ MaxEvents \in Nat \ {0} /\ MaxBreaks \in Nat /\ MaxResyncs \in Nat

VARIABLES
  events,    \* the topic of every event recorded, by number
  batch,     \* the merged activity that waits for its timer: <<>> or one packet
  draining,  \* the server refuses new streams and will be replaced
  stream,    \* the connection of the tab, both ends and what is between them
  thread,    \* a thread is open in the tab
  last,      \* lastSseSeq
  view,      \* the numbers of the messages and replies the tab shows
  seen,      \* agentActivitySeqById: the newest activity taken
  fetch,     \* requests of the tab for records: after a gap, after hiding
  opened,    \* history: the newest number when the tab took its first packet
  blind,     \* history: the newest number when a stream that asks for none came back
  vouched,   \* history: the numbers merged packets spanned without carrying them
  warned,    \* history: the highest number a gap or a resync has announced
  forgone,   \* history: the announced numbers no fetch was made for, or one that failed
  breaks, resyncs    \* counters of the bounds

server == <<events, batch, draining>>
client == <<thread, last, view, seen, fetch>>
history == <<opened, blind, vouched, warned, forgone>>
vars == <<server, stream, client, history, breaks, resyncs>>

Topics == {"message", "reply", "activity", "elsewhere"}
Fetches == {"gap", "tab"}
Numbers == 1 .. MaxEvents

Packets == [topic : Topics \cup {"resync"}, first : 0 .. MaxEvents,
            seq : 0 .. MaxEvents, ids : SUBSET Numbers]

Larger(a, b) == IF a >= b THEN a ELSE b

-----------------------------------------------------------------------------
(* The journal.                                                            *)

CurrentSeq == Len(events)

\* trimRealtimeEvents: the newest Keep events.
Journal == {i \in DOMAIN events : i > Len(events) - Keep}

Of(topics) == {i \in DOMAIN events : events[i] \in topics}

\* realtimeEventMatchesRequest: what the tab's stream carries.
Visible(topic) == topic # "elsewhere"

Envelope(topic, i) == [topic |-> topic, first |-> i, seq |-> i, ids |-> {i}]
Resync(i) == [topic |-> "resync", first |-> 0, seq |-> i, ids |-> {}]

\* mergeRealtimeBroadcastEvents: the numbers of the newest, the start of the
\* oldest, the entries of both.
Merged(waiting, packet) ==
  IF waiting = <<>> THEN <<packet>>
  ELSE <<[packet EXCEPT !.first = waiting[1].first, !.ids = @ \cup waiting[1].ids]>>

\* The packets of events, in the order of their numbers.
InOrder(numbers) ==
  {w \in SetToSeqs({Envelope(events[i], i) : i \in numbers}) :
     \A m, n \in DOMAIN w : m < n => w[m].seq < w[n].seq}

ReplayAfterNext(lastSeq) ==    \* mutant: the first missed event is left out
  InOrder({i \in Journal : i > lastSeq + 1 /\ Visible(events[i])})

\* realtimeEventsForRequest: the events after lastSeq, or a demand to fetch the
\* state when the journal no longer reaches back that far.
Replay(lastSeq) ==
  LET oldest == CHOOSE i \in Journal : \A j \in Journal : i <= j
      gap == Journal # {} /\ lastSeq < oldest - 1
  IN IF lastSeq = 0 THEN {<<>>}
     ELSE IF gap THEN {<<Resync(CurrentSeq)>>}
     ELSE InOrder({i \in Journal : i > lastSeq /\ Visible(events[i])})

-----------------------------------------------------------------------------
(* Writing to a stream.                                                    *)

\* realtimeBroadcastCoalesceKey: messages and replies of a space share a key.
Key(packet) == IF packet.topic = "reply" THEN "message" ELSE packet.topic

\* queuePendingSsePacket: a Map keeps the place of a key and takes the value.
Queued(pending, packet) ==
  IF \E i \in DOMAIN pending : Key(pending[i]) = Key(packet)
  THEN [i \in DOMAIN pending |->
          IF Key(pending[i]) = Key(packet) THEN packet ELSE pending[i]]
  ELSE Append(pending, packet)

\* writeSsePacket: the streams a write may leave; the write may fill the socket.
Written(s, packet) ==
  IF s.state # "open" THEN {s}
  ELSE IF s.slow THEN {[s EXCEPT !.pending = Queued(@, packet)]}
  ELSE {[s EXCEPT !.wire = Append(@, packet), !.slow = full] : full \in BOOLEAN}

MarkReset(s) ==                \* mutant: the mark is reset, nothing is written
  {[s EXCEPT !.slow = FALSE]}

\* flushPendingSsePackets: in order, until the socket is full again.
Flushed(s) ==
  {[s EXCEPT !.wire = @ \o SubSeq(s.pending, 1, to.sent),
             !.pending = SubSeq(@, to.sent + 1, Len(@)), !.slow = to.full] :
     to \in {m \in [sent : 0 .. Len(s.pending), full : BOOLEAN] :
              /\ m.sent = 0 => s.pending = <<>> /\ ~m.full
              /\ m.sent < Len(s.pending) => m.full}}

Closed(state, url) ==
  [state |-> state, url |-> url, slow |-> FALSE, pending |-> <<>>, wire |-> <<>>]

\* GET /api/events: refused while draining; else the replay, and the stream is
\* one of the clients before anything else can be recorded.
Accepted(url) ==
  IF draining THEN {Closed("refused", url)}
  ELSE {[Closed("open", url) EXCEPT !.wire = w] : w \in Replay(url)}

-----------------------------------------------------------------------------
\* Of a fetch: its answer, and the newest number when the server read it (history).
Idle == [phase |-> "idle", got |-> {}, upto |-> 0]

\* A new tab has no number yet; a reloaded one keeps lastSseSeq of its session.
Init ==
  /\ events \in {<<>>, <<"elsewhere">>} /\ batch = <<>> /\ draining = FALSE
  /\ stream = Closed("none", 0)
  /\ thread \in BOOLEAN
  /\ last = Len(events) /\ opened = last
  /\ view = {} /\ seen = 0
  /\ fetch = [f \in Fetches |-> Idle]
  /\ blind = 0 /\ vouched = {} /\ warned = 0 /\ forgone = {}
  /\ breaks = 0 /\ resyncs = 0

(* The server. *)

\* recordRealtimeEvent: number it, keep it, trim, broadcast; the activity of an
\* agent is merged into what waits for the timer.
RecordRealtimeEvent(topic) ==
  LET packet == Envelope(topic, Len(events) + 1)
  IN /\ Len(events) < MaxEvents
     /\ ~draining
     /\ topic = "reply" => thread
     /\ events' = Append(events, topic)
     /\ IF topic = "activity"
        THEN batch' = Merged(batch, packet) /\ UNCHANGED stream
        ELSE /\ stream' \in IF Visible(topic) THEN Written(stream, packet) ELSE {stream}
             /\ UNCHANGED batch
     /\ UNCHANGED <<draining, client, history, breaks, resyncs>>

FlushRealtimeBroadcasts ==
  /\ batch # <<>>
  /\ stream' \in Written(stream, batch[1])
  /\ batch' = <<>>
  /\ UNCHANGED <<events, draining, client, history, breaks, resyncs>>

\* broadcastStateDelta: a change that is not an event.
BroadcastStateDelta ==
  /\ resyncs < MaxResyncs
  /\ ~draining
  /\ resyncs' = resyncs + 1
  /\ stream' \in Written(stream, Resync(CurrentSeq))
  /\ UNCHANGED <<server, client, history, breaks>>

FlushPendingSsePackets ==
  /\ stream.state = "open" /\ stream.slow
  /\ stream' \in Flushed(stream)
  /\ UNCHANGED <<server, client, history, breaks, resyncs>>

\* beginDrain writes to every stream, past what is pending.
BeginDrain ==
  /\ ~draining /\ breaks < MaxBreaks
  /\ draining' = TRUE /\ breaks' = breaks + 1
  /\ stream' = IF stream.state = "open"
               THEN [stream EXCEPT !.wire = Append(@, Resync(0))] ELSE stream
  /\ UNCHANGED <<events, batch, client, history, resyncs>>

\* The process ends and the next one loads the journal.
Restart ==
  /\ draining
  /\ draining' = FALSE /\ batch' = <<>>
  /\ stream' = IF stream.state = "open" THEN Closed("lost", stream.url) ELSE stream
  /\ UNCHANGED <<events, client, history, breaks, resyncs>>

(* The tab. *)

\* applySseSeq: a lower number moves the mark back, a jump is a gap.
AppliedSeq(packet) ==
  IF packet.seq = 0 THEN last
  ELSE IF last # 0 /\ packet.seq < last THEN packet.seq ELSE Larger(last, packet.seq)

GapOfTwo(packet) ==            \* mutant: one missing event is no gap
  last # 0 /\ packet.seq > last + 2

HasGap(packet) ==
  /\ last # 0 /\ packet.seq >= last
  /\ (IF packet.first # 0 THEN packet.first ELSE packet.seq) > last + 1

\* refreshAfterSseGap: nothing while the fetch of an earlier gap is under way. That
\* one brings what the server has yet to read, but nothing newer than its answer.
RefreshAfterSseGap(packet) ==
  /\ warned' = Larger(warned, packet.seq)
  /\ fetch' = IF fetch["gap"].phase = "idle"
              THEN [fetch EXCEPT !["gap"].phase = "asked"] ELSE fetch
  /\ forgone' = IF fetch["gap"].phase = "answered"
                THEN forgone \cup (fetch["gap"].upto + 1 .. packet.seq) ELSE forgone
  /\ UNCHANGED <<view, seen>>

\* applyRealtimeJournalEvent without a gap: records are taken over by their id,
\* activity only when it is newer.
TakeOver(packet) ==
  /\ view' = IF packet.topic \in {"message", "reply"} THEN view \cup packet.ids ELSE view
  /\ seen' = IF packet.topic = "activity" THEN Larger(seen, packet.seq) ELSE seen
  /\ UNCHANGED <<fetch, warned, forgone>>

\* The listeners of the event source.
HandlePacket ==
  /\ stream.state = "open" /\ stream.wire # <<>>
  /\ LET packet == Head(stream.wire)
     IN /\ stream' = [stream EXCEPT !.wire = Tail(@)]
        /\ last' = AppliedSeq(packet)
        /\ opened' = IF last = 0 THEN CurrentSeq ELSE opened
        /\ IF packet.topic = "resync" \/ HasGap(packet)
           THEN RefreshAfterSseGap(packet) /\ UNCHANGED vouched
           ELSE /\ TakeOver(packet)
                /\ vouched' = vouched \cup ((packet.first .. packet.seq) \ packet.ids)
  /\ UNCHANGED <<server, thread, blind, breaks, resyncs>>

\* One page: the newest PageSize of the records (a record is stored before its event).
Newest(records) ==
  {i \in records : Cardinality({j \in records : j > i}) < PageSize}

\* refreshRealtimeBusinessObject: a page of the replies of an open thread when it
\* has any, otherwise a page of messages.
Fetched ==
  Newest(IF thread /\ Of({"reply"}) # {} THEN Of({"reply"}) ELSE Of({"message"}))

AnswerFetch(f) ==
  /\ fetch[f].phase = "asked"
  /\ fetch' = [fetch EXCEPT ![f] =
                 [phase |-> "answered", got |-> Fetched, upto |-> CurrentSeq]]
  /\ UNCHANGED <<server, stream, thread, last, view, seen, history, breaks, resyncs>>

\* connectEvents: a new event source, asking for what follows lastSseSeq.
ConnectEvents ==
  /\ stream' \in Accepted(last)
  /\ UNCHANGED <<server, resyncs>>

\* A fetch after a gap that failed is not repeated.
Dropped(f, merged) == IF f = "gap" /\ ~merged THEN forgone \cup 1 .. warned ELSE forgone

EndFetchReplaces(f, merged) == \* mutant: the answer replaces the records
  /\ view' = IF merged THEN fetch[f].got ELSE view
  /\ forgone' = Dropped(f, merged)
  /\ fetch' = [fetch EXCEPT ![f] = Idle]
  /\ IF f = "tab" THEN ConnectEvents ELSE UNCHANGED <<stream, server, resyncs>>
  /\ UNCHANGED <<thread, last, seen, opened, blind, vouched, warned, breaks>>

\* The answer is merged; the fetch before showing a hidden tab then connects.
EndFetch(f, merged) ==
  /\ view' = IF merged THEN view \cup fetch[f].got ELSE view
  /\ forgone' = Dropped(f, merged)
  /\ fetch' = [fetch EXCEPT ![f] = Idle]
  /\ IF f = "tab" THEN ConnectEvents ELSE UNCHANGED <<stream, server, resyncs>>
  /\ UNCHANGED <<thread, last, seen, opened, blind, vouched, warned, breaks>>

TakeAnswer(f) == fetch[f].phase = "answered" /\ EndFetch(f, TRUE)
FetchFails(f) == fetch[f].phase # "idle" /\ EndFetch(f, FALSE)

\* The first connection, or another selection: the old stream is closed.
Select ==
  /\ stream.state # "hidden"
  /\ stream.state # "none" => breaks < MaxBreaks
  /\ breaks' = IF stream.state = "none" THEN breaks ELSE breaks + 1
  /\ ConnectEvents
  /\ UNCHANGED <<client, history>>

LoseStream ==
  /\ stream.state = "open" /\ breaks < MaxBreaks
  /\ breaks' = breaks + 1
  /\ stream' = Closed("lost", stream.url)
  /\ UNCHANGED <<server, client, history, resyncs>>

\* The event source reconnects by itself to the path it was made with.
Reconnect ==
  /\ stream.state = "lost"
  /\ stream' \in Accepted(stream.url)
  /\ blind' = IF stream.url = 0 THEN CurrentSeq ELSE blind
  /\ UNCHANGED <<server, client, opened, vouched, warned, forgone, breaks, resyncs>>

SuspendForHiddenTab ==
  /\ stream.state \in {"open", "lost", "refused"} /\ breaks < MaxBreaks
  /\ breaks' = breaks + 1
  /\ stream' = Closed("hidden", 0)
  /\ UNCHANGED <<server, client, history, resyncs>>

ResumeAfterHiddenTab ==
  /\ stream.state = "hidden" /\ fetch["tab"].phase = "idle"
  /\ fetch' = [fetch EXCEPT !["tab"].phase = "asked"]
  /\ UNCHANGED <<server, stream, thread, last, view, seen, history, breaks, resyncs>>

-----------------------------------------------------------------------------
Next ==
  \/ \E topic \in Topics : RecordRealtimeEvent(topic)
  \/ FlushRealtimeBroadcasts
  \/ BroadcastStateDelta
  \/ FlushPendingSsePackets
  \/ BeginDrain
  \/ Restart
  \/ HandlePacket
  \/ \E f \in Fetches : AnswerFetch(f)
  \/ \E f \in Fetches : TakeAnswer(f)
  \/ \E f \in Fetches : FetchFails(f)
  \/ Select
  \/ LoseStream
  \/ Reconnect
  \/ SuspendForHiddenTab
  \/ ResumeAfterHiddenTab

Spec == Init /\ [][Next]_vars

\* The batch timer, the drain event of a socket and the browser's event loop.
FairSpec ==
  /\ Spec
  /\ WF_vars(FlushRealtimeBroadcasts)
  /\ WF_vars(FlushPendingSsePackets)
  /\ WF_vars(HandlePacket)
  /\ WF_vars(Restart)

-----------------------------------------------------------------------------
TypeOK ==
  /\ events \in Seq(Topics) /\ Len(events) <= MaxEvents
  /\ Len(batch) <= 1 /\ Range(batch) \subseteq Packets
  /\ draining \in BOOLEAN
  /\ stream.state \in {"none", "open", "lost", "refused", "hidden"}
  /\ stream.url \in 0 .. MaxEvents /\ stream.slow \in BOOLEAN
  /\ Range(stream.pending) \subseteq Packets /\ Range(stream.wire) \subseteq Packets
  /\ thread \in BOOLEAN
  /\ last \in 0 .. MaxEvents /\ view \subseteq Numbers /\ seen \in 0 .. MaxEvents
  /\ fetch \in [Fetches -> [phase : {"idle", "asked", "answered"}, got : SUBSET Numbers,
                          upto : 0 .. MaxEvents]]
  /\ opened \in 0 .. MaxEvents /\ blind \in 0 .. MaxEvents /\ vouched \subseteq Numbers
  /\ warned \in 0 .. MaxEvents /\ forgone \subseteq Numbers
  /\ breaks \in 0 .. MaxBreaks /\ resyncs \in 0 .. MaxResyncs

\* Nothing is under way between the journal and the tab.
Quiet == stream.state = "open" /\ stream.wire = <<>> /\ stream.pending = <<>> /\ batch = <<>>

\* What concerns the tab since it took its first packet.
Due == {i \in DOMAIN events : last # 0 /\ i > opened /\ Visible(events[i])}

Taken(i) == i \in view \/ (events[i] = "activity" /\ i <= seen)

\* What the numbers account for: all but what a stream without a number missed
\* while it was broken, and what lay between the parts of merged activity.
Counted == {i \in Due : blind < i /\ i \notin vouched}

\* Coalescing by key, trimming, filtering by space, a resume with an old or a
\* new lastSeq and packets out of order never move the mark past an event the
\* tab has neither taken nor been told to fetch.
MarkIsHonest == \A i \in Counted : i <= last => Taken(i) \/ i <= warned

\* With nothing under way the tab has every event, or has been told to fetch.
ResumeIsComplete == Quiet => \A i \in Counted : Taken(i) \/ i <= warned

\* Without an open thread and with no fetch under way the newest page of messages
\* has no hole up to the mark, but for the numbers that were announced between the
\* server's answer to an earlier gap and its arrival, or by a gap whose fetch
\* failed.  A gap that is ignored because a fetch is under way costs nothing more.
GapsAreRepaired ==
  (~thread /\ \A f \in Fetches : fetch[f] = Idle)
    => \A i \in Counted \cap Newest(Of({"message"})) :
         i <= last => i \in view \cup forgone

\* The resume as the README has it, for every stream that comes back.
ResumesAfterBreak == Quiet => \A i \in Due : Taken(i) \/ i <= warned

\* A packet held back by a slow connection, or by the timer, is delivered or
\* the stream is replaced.
EverythingIsSent == (batch # <<>> \/ stream.slow \/ stream.wire # <<>>) ~> (Quiet \/ stream.state # "open")
=============================================================================
