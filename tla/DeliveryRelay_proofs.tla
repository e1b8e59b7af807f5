-------------------------- MODULE DeliveryRelay_proofs --------------------------
(***************************************************************************)
(* Proofs about DeliveryRelay for every number of deliveries, connections, *)
(* daemon runs and server restarts.                                        *)
(***************************************************************************)
EXTENDS DeliveryRelay, FiniteSetTheorems, SequenceTheorems, TLAPS

--------------------------------------------------------------------------------
(* Frames and queues *)

\* The frames the two sides build are frames of their kind.
LEMMA FrameTypes ==
  /\ \A type \in Reports, d \in Deliveries : Frame(type, d) \in DaemonFrame
  /\ \A type \in Notices : Frame(type, None) \in DaemonFrame
  /\ \A d \in Deliveries : Deliver(d) \in ServerFrame
  /\ Connected \in ServerFrame
BY DEF Frame, Deliver, Connected, DaemonFrame, ServerFrame

\* Queues of frames of a set S stay so when the daemon sends frames of S.
LEMMA DaemonSendsFrames ==
  ASSUME NEW S, toServer \in [Connections -> Seq(S)],
         socket \in Connections \cup {None},
         NEW frames \in Seq(S), DaemonSends(frames)
  PROVE  toServer' \in [Connections -> Seq(S)]
<1>1. CASE socket # None /\ link[socket] = "up"
  <2>1. toServer[socket] \o frames \in Seq(S)
    BY <1>1, ConcatProperties
  <2> QED BY <1>1, <2>1 DEF DaemonSends
<1>2. CASE ~(socket # None /\ link[socket] = "up")
  BY <1>2 DEF DaemonSends
<1> QED BY <1>1, <1>2

\* The same of the server.
LEMMA ServerSendsFrames ==
  ASSUME NEW S, toDaemon \in [Connections -> Seq(S)],
         connections \in Connections \cup {None},
         NEW frames \in Seq(S), ServerSends(frames)
  PROVE  toDaemon' \in [Connections -> Seq(S)]
<1>1. CASE connections # None /\ link[connections] = "up"
  <2>1. toDaemon[connections] \o frames \in Seq(S)
    BY <1>1, ConcatProperties
  <2> QED BY <1>1, <2>1 DEF ServerSends
<1>2. CASE ~(connections # None /\ link[connections] = "up")
  BY <1>2 DEF ServerSends
<1> QED BY <1>1, <1>2

\* Reading the first element of a queue that is not empty.
LEMMA ReadQueue ==
  ASSUME NEW S, NEW queue \in Seq(S), queue # <<>>
  PROVE  Head(queue) \in S /\ Tail(queue) \in Seq(S)
BY HeadTailProperties

\* The frames of a replay: deliveries of ds, each of them to be sent.
LEMMA ReplayFrames ==
  ASSUME NEW ds \in SUBSET Deliveries, NEW order \in InIssueOrder(ds)
  PROVE  [i \in 1..Cardinality(ds) |-> Deliver(order[i])] \in Seq(ServerFrame)
<1>1. IsFiniteSet(Deliveries)
  BY FS_Interval, BoundsAssumption DEF Deliveries
<1>2. Cardinality(ds) \in Nat
  BY <1>1, FS_Subset, FS_CardinalityType
<1>3. order \in [1..Cardinality(ds) -> ds]
  BY DEF InIssueOrder
<1>4. \A i \in 1..Cardinality(ds) : Deliver(order[i]) \in ServerFrame
  BY <1>3, FrameTypes
<1> QED BY <1>2, <1>4, IsASeq

--------------------------------------------------------------------------------
(* Type correctness *)

\* Requeueing, adopting, finishing keep the records well-formed.
LEMMA RecordTypes ==
  ASSUME TypeOK
  PROVE  /\ \A d \in Deliveries : Acked(d) \in [Deliveries -> Delivery]
         /\ Requeued \in [Deliveries -> Delivery]
         /\ Adopted \in [Deliveries -> Delivery]
         /\ \A d \in Deliveries, status \in Terminal :
              Finished(d, status) \in [Deliveries -> Delivery]
         /\ \A d \in Deliveries : Entered(d) \in [Deliveries -> LedgerRecord]
<1>1. Requeued \in [Deliveries -> Delivery]
  BY DEF TypeOK, Requeued, Delivery, Statuses, Active, Waiting
<1>2. Adopted \in [Deliveries -> Delivery]
  BY <1>1 DEF TypeOK, Adopted
<1>3. ASSUME NEW d \in Deliveries, NEW status \in Terminal
      PROVE  Finished(d, status) \in [Deliveries -> Delivery]
  BY <1>3 DEF TypeOK, Finished, Delivery, Statuses
<1>4. ASSUME NEW d \in Deliveries
      PROVE  Entered(d) \in [Deliveries -> LedgerRecord]
  <2>1. ledger[d] \in LedgerRecord /\ run \in 0..MaxRuns
    BY BoundsAssumption DEF TypeOK
  <2>2. [ledger[d] EXCEPT !.status = "accepted", !.run = run] \in LedgerRecord
    BY <2>1 DEF LedgerRecord
  <2>3. [ledger EXCEPT ![d] = [ledger[d] EXCEPT !.status = "accepted",
                                               !.run = run]]
          \in [Deliveries -> LedgerRecord]
    BY <2>2 DEF TypeOK
  <2> QED BY <2>3 DEF Entered, TypeOK
<1>5. ASSUME NEW d \in Deliveries
      PROVE  Acked(d) \in [Deliveries -> Delivery]
  <2> DEFINE status == IF deliveries[d].status \in Terminal
                       THEN deliveries[d].status ELSE "acked"
             acknowledged ==
               [deliveries[d] EXCEPT !.status = status, !.acked = TRUE]
  <2>1. status \in Statuses
    BY DEF Statuses, Active
  <2>2. acknowledged \in Delivery
    <3> HIDE DEF status
    <3> QED BY <2>1 DEF TypeOK, Delivery
  <2>3. Acked(d) \in {deliveries, [deliveries EXCEPT ![d] = acknowledged]}
    BY DEF Acked, TypeOK, Delivery
  <2> HIDE DEF acknowledged
  <2> QED BY <2>2, <2>3 DEF TypeOK
<1> QED BY <1>1, <1>2, <1>3, <1>4, <1>5

\* The handlers of the frames, with the frame taken from the queue.
LEMMA HandlerTypes ==
  ASSUME TypeOK, NEW c \in Connections, ServerReceive(c)
  PROVE  TypeOK'
<1> DEFINE f == Head(toServer[c])
<1>1. f \in DaemonFrame /\ Tail(toServer[c]) \in Seq(DaemonFrame)
  BY ReadQueue DEF TypeOK, ServerReceive
<1>2. toServer' \in [Connections -> Seq(DaemonFrame)]
  BY <1>1 DEF TypeOK, ServerReceive
<1>3. f.type \in Reports => f.delivery \in Deliveries
  BY <1>1 DEF DaemonFrame, Reports, Notices
<1>4. UNCHANGED <<issued, stored, serverRestarts, link, run, socket, ledger,
                  handling, session, executions>>
  BY DEF ServerReceive, daemon
<1> SUFFICES /\ deliveries' \in [Deliveries -> Delivery]
             /\ responses' \in [Deliveries -> Nat]
             /\ connections' \in Connections \cup {None}
             /\ pendingDisconnects' \in Connections \cup {None}
             /\ toDaemon' \in [Connections -> Seq(ServerFrame)]
  BY <1>2, <1>4 DEF TypeOK
<1> USE DEF Terminal
<1>5. CASE f.type = "ready" /\ HandleReady
  <2> DEFINE ready == {d \in Deliveries : RetryReady(d)}
  <2>1. CASE connections = None
    BY <1>5, <2>1 DEF HandleReady, TypeOK
  <2>2. CASE connections # None
    <3>1. deliveries' \in [Deliveries -> Delivery]
      <4>1. \A d \in Deliveries :
              [deliveries[d] EXCEPT !.status = "sent", !.stale = FALSE]
                \in Delivery
        BY DEF TypeOK, Delivery, Statuses, Active, Waiting
      <4>2. deliveries' =
              [d \in Deliveries |->
                 IF d \in ready
                 THEN [deliveries[d] EXCEPT !.status = "sent", !.stale = FALSE]
                 ELSE deliveries[d]]
        BY <1>5, <2>2 DEF HandleReady
      <4> HIDE DEF ready
      <4> QED BY <4>1, <4>2 DEF TypeOK
    <3>2. PICK order \in InIssueOrder(ready) :
            ServerSends([i \in 1..Cardinality(ready) |-> Deliver(order[i])])
      BY <1>5, <2>2 DEF HandleReady
    <3>3. [i \in 1..Cardinality(ready) |-> Deliver(order[i])]
            \in Seq(ServerFrame)
      BY ReplayFrames
    <3>4. toDaemon' \in [Connections -> Seq(ServerFrame)]
      BY <3>2, <3>3, ServerSendsFrames DEF TypeOK
    <3> QED BY <1>5, <3>1, <3>4 DEF HandleReady, TypeOK
  <2> QED BY <2>1, <2>2
<1>6. CASE f.type = "ack" /\ HandleAck(f.delivery)
  <2>1. f.delivery \in Deliveries
    BY <1>3, <1>6 DEF Reports
  <2>2. deliveries' \in [Deliveries -> Delivery]
    BY <1>6, <2>1, RecordTypes DEF HandleAck
  <2> QED BY <1>6, <2>2 DEF HandleAck, TypeOK
<1>7. CASE f.type = "result" /\ HandleResult(f.delivery)
  <2>1. f.delivery \in Deliveries
    BY <1>3, <1>7 DEF Reports
  <2>2. deliveries' \in [Deliveries -> Delivery]
    BY <1>7, <2>1, RecordTypes DEF HandleResult
  <2> QED BY <1>7, <2>1, <2>2 DEF HandleResult, TypeOK
<1>8. CASE f.type = "idle" /\ HandleEnd(f.delivery, "completed")
  <2>1. f.delivery \in Deliveries
    BY <1>3, <1>8 DEF Reports
  <2> QED BY <1>8, <2>1, RecordTypes DEF HandleEnd, TypeOK
<1>9. CASE f.type = "error" /\ HandleEnd(f.delivery, "failed")
  <2>1. f.delivery \in Deliveries
    BY <1>3, <1>9 DEF Reports
  <2> QED BY <1>9, <2>1, RecordTypes DEF HandleEnd, TypeOK
<1>10. CASE f.type = "stopping" /\ HandleStopping(c)
  BY <1>10, RecordTypes DEF HandleStopping, Finalize, TypeOK
<1> QED
  BY <1>5, <1>6, <1>7, <1>8, <1>9, <1>10 DEF ServerReceive

\* Every step keeps the types.
LEMMA StepTypes == TypeOK /\ [Next]_vars => TypeOK'
<1> SUFFICES ASSUME TypeOK, [Next]_vars PROVE TypeOK'
  OBVIOUS
<1> USE DEF server, network, daemon
<1>1. ASSUME NEW m \in Messages, Request(m) PROVE TypeOK'
  <2>1. issued + 1 \in Deliveries /\ issued' \in 0..MaxDeliveries
    BY <1>1, BoundsAssumption DEF Request, TypeOK, Deliveries
  <2>2. deliveries' \in [Deliveries -> Delivery]
    BY <1>1, <2>1 DEF Request, TypeOK, Delivery, Statuses, Active, Waiting
  <2>3. <<Deliver(issued + 1)>> \in Seq(ServerFrame)
    BY <2>1, FrameTypes
  <2>4. toDaemon' \in [Connections -> Seq(ServerFrame)]
    BY <1>1, <2>3, ServerSendsFrames DEF Request, TypeOK
  <2> QED BY <1>1, <2>1, <2>2, <2>4 DEF Request, TypeOK
<1>2. ASSUME NEW d \in Deliveries, Age(d) PROVE TypeOK'
  <2>1. [deliveries[d] EXCEPT !.stale = TRUE] \in Delivery
    BY <1>2 DEF TypeOK, Delivery
  <2>2. deliveries' \in [Deliveries -> Delivery]
    BY <1>2, <2>1 DEF Age, TypeOK
  <2> QED BY <1>2, <2>2 DEF Age, TypeOK
<1>3. ASSUME NEW d \in Deliveries, DaemonAccepts(d) PROVE TypeOK'
  <2>1. toDaemon' \in [Connections -> Seq(ServerFrame)]
    BY <1>3, ReadQueue DEF DaemonAccepts, TypeOK
  <2>2. handling' \in Acceptance
    <3>1. ledger[d].result \in BOOLEAN /\ Duplicate(d) \in BOOLEAN
      BY <1>3 DEF TypeOK, LedgerRecord, Duplicate
    <3> QED BY <1>3, <3>1 DEF DaemonAccepts, Acceptance
  <2> QED BY <1>3, <2>1, <2>2, RecordTypes DEF DaemonAccepts, TypeOK
<1>4. ASSUME NEW d \in Deliveries, DaemonAcks(d) PROVE TypeOK'
  <2>1. AckFrames(d) \in Seq(DaemonFrame)
    BY FrameTypes DEF AckFrames, Reports
  <2>2. toServer' \in [Connections -> Seq(DaemonFrame)]
    BY <1>4, <2>1, DaemonSendsFrames DEF DaemonAcks, TypeOK
  <2>3. /\ session' \in [Deliveries -> {"none", "running", "reported"}]
        /\ executions' \in [Deliveries -> Nat]
    <3>1. CASE handling.duplicate
      BY <1>4, <3>1 DEF DaemonAcks, TypeOK
    <3>2. CASE ~handling.duplicate
      <4>1. /\ session' = [session EXCEPT ![d] = "running"]
            /\ executions' = [executions EXCEPT ![d] = @ + 1]
        BY <1>4, <3>2 DEF DaemonAcks
      <4> QED BY <4>1 DEF TypeOK
    <3> QED BY <3>1, <3>2
  <2> QED BY <1>4, <2>2, <2>3 DEF DaemonAcks, TypeOK
<1>5. ASSUME NEW d \in Deliveries, Report(d) PROVE TypeOK'
  <2>1. <<Frame("result", d)>> \in Seq(DaemonFrame)
    BY FrameTypes DEF Reports
  <2>2. toServer' \in [Connections -> Seq(DaemonFrame)]
    BY <1>5, <2>1, DaemonSendsFrames DEF Report, TypeOK
  <2> QED BY <1>5, <2>2 DEF Report, TypeOK
<1>6. ASSUME NEW d \in Deliveries, Complete(d) PROVE TypeOK'
  <2>1. <<Frame("idle", d)>> \in Seq(DaemonFrame)
    BY FrameTypes DEF Reports
  <2>2. toServer' \in [Connections -> Seq(DaemonFrame)]
    BY <1>6, <2>1, DaemonSendsFrames DEF Complete, TypeOK
  <2>3. ledger' \in [Deliveries -> LedgerRecord]
    <3> DEFINE kept == ledger[d].result \/ session[d] = "reported"
               completed ==
                 [ledger[d] EXCEPT !.status = "completed", !.result = kept]
    <3>1. kept \in BOOLEAN
      OBVIOUS
    <3> HIDE DEF kept
    <3>2. completed \in LedgerRecord
      BY <3>1 DEF TypeOK, LedgerRecord, Terminal
    <3>3. ledger' = [ledger EXCEPT ![d] = completed]
      BY <1>6, ZenonT(30) DEF Complete, kept
    <3> HIDE DEF completed
    <3> QED BY <3>2, <3>3 DEF TypeOK
  <2> QED BY <1>6, <2>2, <2>3 DEF Complete, TypeOK
<1>7. ASSUME NEW d \in Deliveries, Fail(d) PROVE TypeOK'
  <2>1. <<Frame("error", d)>> \in Seq(DaemonFrame)
    BY FrameTypes DEF Reports
  <2>2. toServer' \in [Connections -> Seq(DaemonFrame)]
    BY <1>7, <2>1, DaemonSendsFrames DEF Fail, TypeOK
  <2>3. ledger' \in [Deliveries -> LedgerRecord]
    BY <1>7 DEF Fail, TypeOK, LedgerRecord, Terminal
  <2> QED BY <1>7, <2>2, <2>3 DEF Fail, TypeOK
<1>8. ASSUME NEW c \in Connections, Connect(c) PROVE TypeOK'
  <2>1. <<Connected>> \in Seq(ServerFrame)
    BY FrameTypes
  <2> QED BY <1>8, <2>1, RecordTypes DEF Connect, TypeOK
<1>9. ASSUME NEW c \in Connections, ServerLosesSocket(c) PROVE TypeOK'
  BY <1>9 DEF ServerLosesSocket, Disconnected, TypeOK
<1>10. ASSUME NEW c \in Connections, GraceExpires(c) PROVE TypeOK'
  BY <1>10, RecordTypes DEF GraceExpires, Finalize, TypeOK
<1>11. ASSUME NEW c \in Connections, ServerReceive(c) PROVE TypeOK'
  BY <1>11, HandlerTypes
<1>12. ASSUME NEW c \in Connections, Break(c) PROVE TypeOK'
  BY <1>12 DEF Break, TypeOK
<1>13. CASE DaemonGreets
  <2>1. toDaemon' \in [Connections -> Seq(ServerFrame)]
    BY <1>13, ReadQueue DEF DaemonGreets, TypeOK
  <2>2. <<Frame("ready", None)>> \in Seq(DaemonFrame)
    BY FrameTypes DEF Notices
  <2>3. toServer' \in [Connections -> Seq(DaemonFrame)]
    BY <1>13, <2>2, DaemonSendsFrames DEF DaemonGreets, TypeOK
  <2> QED BY <1>13, <2>1, <2>3 DEF DaemonGreets, TypeOK
<1>14. CASE DaemonLosesSocket
  BY <1>14 DEF DaemonLosesSocket, TypeOK
<1>15. ASSUME NEW notice \in Seq(DaemonFrame), DaemonRestart(notice)
       PROVE  TypeOK'
  <2>1. toServer' \in [Connections -> Seq(DaemonFrame)]
    BY <1>15, DaemonSendsFrames DEF DaemonRestart, TypeOK
  <2>2. run' \in 1..MaxRuns
    BY <1>15, BoundsAssumption DEF DaemonRestart, TypeOK
  <2>3. /\ link' \in [Connections -> {"none", "up", "down"}]
        /\ toDaemon' \in [Connections -> Seq(ServerFrame)]
        /\ session' \in [Deliveries -> {"none", "running", "reported"}]
    BY <1>15 DEF DaemonRestart, TypeOK
  <2> QED BY <1>15, <2>1, <2>2, <2>3 DEF DaemonRestart, TypeOK
<1>16. Stopping \in Seq(DaemonFrame) /\ <<>> \in Seq(DaemonFrame)
  BY FrameTypes DEF Stopping, Notices
<1>17. CASE Persist
  BY <1>17 DEF Persist, TypeOK, Snapshot
<1>18. CASE ServerRestart
  <2>1. serverRestarts' \in 0..MaxServerRestarts
    BY <1>18, BoundsAssumption DEF ServerRestart, TypeOK
  <2> QED BY <1>18, <2>1 DEF ServerRestart, TypeOK, Snapshot
<1>19. CASE UNCHANGED vars
  BY <1>19 DEF vars, TypeOK
<1> QED
  BY <1>1, <1>2, <1>3, <1>4, <1>5, <1>6, <1>7, <1>8, <1>9, <1>10, <1>11,
     <1>12, <1>13, <1>14, <1>15, <1>16, <1>17, <1>18, <1>19
     DEF Next, ServerSteps, DaemonSteps

\* Type correctness, for every value of the bounds.
THEOREM TypeCorrect == Spec => []TypeOK
<1>1. Init => TypeOK
  BY BoundsAssumption, EmptySeq
     DEF Init, TypeOK, Snapshot, Delivery, Unknown, Statuses, LedgerRecord,
         NoRecord
<1> QED BY <1>1, StepTypes, PTL DEF Spec

--------------------------------------------------------------------------------
(* What only grows *)

\* No step takes a delivery out of the ledger.
LEMMA LedgerGrows ==
  ASSUME TypeOK, [Next]_vars, NEW d \in Deliveries, Ledgered(d)
  PROVE  Ledgered(d)'
<1> USE DEF Ledgered, server, network, daemon
<1>1. ASSUME NEW e \in Deliveries, DaemonAccepts(e) PROVE ledger'[d].status # "none"
  <2>1. Entered(e)[d].status # "none"
    BY DEF Entered, TypeOK, LedgerRecord
  <2> QED BY <1>1, <2>1 DEF DaemonAccepts
<1>2. ASSUME NEW e \in Deliveries, Complete(e) PROVE ledger'[d].status # "none"
  BY <1>2 DEF Complete, TypeOK, LedgerRecord
<1>3. ASSUME NEW e \in Deliveries, Fail(e) PROVE ledger'[d].status # "none"
  BY <1>3 DEF Fail, TypeOK, LedgerRecord
<1>4. CASE UNCHANGED ledger
  BY <1>4
<1> QED
  BY <1>1, <1>2, <1>3, <1>4
     DEF Next, vars, ServerSteps, DaemonSteps, Request, Age, DaemonAcks, Report,
         Connect, ServerLosesSocket, GraceExpires, ServerReceive, Break,
         DaemonGreets, DaemonLosesSocket, DaemonRestart, Persist, ServerRestart

\* No step mends a connection.
LEMMA DownStays ==
  ASSUME TypeOK, [Next]_vars, NEW c \in Connections, link[c] = "down"
  PROVE  link'[c] = "down"
<1> USE DEF server, network, daemon
<1>1. CASE UNCHANGED link
  BY <1>1
<1>2. ASSUME NEW b \in Connections, Connect(b) PROVE link'[c] = "down"
  BY <1>2 DEF Connect, TypeOK
<1>3. ASSUME NEW b \in Connections, Break(b) PROVE link'[c] = "down"
  BY <1>3 DEF Break, TypeOK
<1>4. ASSUME NEW notice, DaemonRestart(notice) PROVE link'[c] = "down"
  BY <1>4 DEF DaemonRestart, TypeOK
<1>5. CASE ServerRestart
  BY <1>5 DEF ServerRestart, TypeOK
<1> QED
  BY <1>1, <1>2, <1>3, <1>4, <1>5
     DEF Next, vars, ServerSteps, DaemonSteps, Request, Age, DaemonAccepts,
         DaemonAcks, Report, Complete, Fail, ServerLosesSocket, GraceExpires,
         ServerReceive, DaemonGreets, DaemonLosesSocket, Persist

\* So a frame that is justified stays justified.
LEMMA StaysJustified ==
  ASSUME TypeOK, [Next]_vars, NEW c \in Connections
  PROVE  JustifiedFrame(c) \subseteq JustifiedFrame(c)'
<1> SUFFICES ASSUME NEW f \in JustifiedFrame(c) PROVE f \in JustifiedFrame(c)'
  OBVIOUS
<1>1. f \in DaemonFrame
  BY DEF JustifiedFrame
<1>2. ASSUME f.type \in Reports PROVE Ledgered(f.delivery)'
  <2>1. f.delivery \in Deliveries
    BY <1>1, <1>2 DEF DaemonFrame, Reports, Notices
  <2> QED BY <1>2, <2>1, LedgerGrows DEF JustifiedFrame
<1>3. f.type = "stopping" => link'[c] = "down"
  BY DownStays DEF JustifiedFrame
<1> QED BY <1>1, <1>2, <1>3 DEF JustifiedFrame, Ledgered

--------------------------------------------------------------------------------
(* The queues to the server hold justified frames *)

QueuesJustified == \A c \in Connections : toServer[c] \in Seq(JustifiedFrame(c))

\* Sending frames that are justified afterwards.
LEMMA SendJustified ==
  ASSUME TypeOK, QueuesJustified, [Next]_vars, NEW frames, DaemonSends(frames),
         \A c \in Connections : socket = c => frames \in Seq(JustifiedFrame(c)')
  PROVE  QueuesJustified'
<1> SUFFICES ASSUME NEW c \in Connections
             PROVE  toServer'[c] \in Seq(JustifiedFrame(c)')
  BY DEF QueuesJustified
<1>1. toServer[c] \in Seq(JustifiedFrame(c)')
  BY StaysJustified, SeqMonotonic DEF QueuesJustified
<1>2. CASE socket = c /\ link[socket] = "up"
  <2>1. toServer'[c] = toServer[c] \o frames
    BY <1>2 DEF DaemonSends, TypeOK, None, Connections
  <2>2. frames \in Seq(JustifiedFrame(c)')
    BY <1>2
  <2> QED BY <1>1, <2>1, <2>2, ConcatProperties
<1>3. CASE ~(socket = c /\ link[socket] = "up")
  <2>1. toServer'[c] = toServer[c]
    BY <1>3 DEF DaemonSends, TypeOK
  <2> QED BY <1>1, <2>1
<1> QED BY <1>2, <1>3

\* Reading, dropping or leaving alone.
LEMMA KeepJustified ==
  ASSUME TypeOK, QueuesJustified, [Next]_vars,
         \A c \in Connections :
           \/ toServer'[c] = toServer[c]
           \/ toServer[c] # <<>> /\ toServer'[c] = Tail(toServer[c])
           \/ toServer'[c] = <<>>
  PROVE  QueuesJustified'
<1> SUFFICES ASSUME NEW c \in Connections
             PROVE  toServer'[c] \in Seq(JustifiedFrame(c)')
  BY DEF QueuesJustified
<1>1. toServer[c] \in Seq(JustifiedFrame(c)')
  BY StaysJustified, SeqMonotonic DEF QueuesJustified
<1>2. toServer[c] # <<>> => Tail(toServer[c]) \in Seq(JustifiedFrame(c)')
  BY <1>1, ReadQueue
<1>3. <<>> \in Seq(JustifiedFrame(c)')
  BY EmptySeq
<1> QED BY <1>1, <1>2, <1>3

\* Every step keeps the queues justified.  Each report is sent when its
\* delivery is in the ledger; a stopping notice is sent as the connection ends.
LEMMA QueuesStep ==
  ASSUME TypeOK, TypeOK', Backed, [Next]_vars
  PROVE  QueuesJustified'
<1> USE DEF server, network, daemon
<1>1. QueuesJustified
  BY DEF Backed, QueuesJustified
<1>2. \A c \in Connections, type \in Reports, d \in Deliveries :
        ledger'[d].status # "none" => Frame(type, d) \in JustifiedFrame(c)'
  <2> SUFFICES ASSUME NEW c \in Connections, NEW type \in Reports,
                      NEW d \in Deliveries, ledger'[d].status # "none"
               PROVE  Frame(type, d) \in JustifiedFrame(c)'
    OBVIOUS
  <2>1. Frame(type, d) \in DaemonFrame
    BY FrameTypes
  <2>2. /\ Frame(type, d).type = type
        /\ Frame(type, d).delivery = d
    BY DEF Frame
  <2>3. type # "stopping"
    BY DEF Reports
  <2> QED BY <2>1, <2>2, <2>3 DEF JustifiedFrame, Ledgered
<1>3. ASSUME NEW d \in Deliveries, DaemonAcks(d) PROVE QueuesJustified'
  <2>1. ledger'[d].status # "none"
    BY <1>3 DEF DaemonAcks, Backed, Claimed, Ledgered
  <2>2. ASSUME NEW c \in Connections
        PROVE  AckFrames(d) \in Seq(JustifiedFrame(c)')
    BY <1>2, <2>1 DEF AckFrames, Reports
  <2>3. DaemonSends(AckFrames(d))
    BY <1>3 DEF DaemonAcks
  <2> QED BY <1>1, <2>2, <2>3, SendJustified
<1>4. ASSUME NEW d \in Deliveries, Report(d) PROVE QueuesJustified'
  <2>1. ledger'[d].status # "none"
    BY <1>4 DEF Report, Backed, Claimed, Ledgered
  <2>2. ASSUME NEW c \in Connections
        PROVE  <<Frame("result", d)>> \in Seq(JustifiedFrame(c)')
    BY <1>2, <2>1 DEF Reports
  <2>3. DaemonSends(<<Frame("result", d)>>)
    BY <1>4 DEF Report
  <2> QED BY <1>1, <2>2, <2>3, SendJustified
<1>5. ASSUME NEW d \in Deliveries, Complete(d) PROVE QueuesJustified'
  <2>1. ledger'[d].status # "none"
    BY <1>5 DEF Complete, TypeOK, LedgerRecord
  <2>2. ASSUME NEW c \in Connections
        PROVE  <<Frame("idle", d)>> \in Seq(JustifiedFrame(c)')
    BY <1>2, <2>1 DEF Reports
  <2>3. DaemonSends(<<Frame("idle", d)>>)
    BY <1>5 DEF Complete
  <2> QED BY <1>1, <2>2, <2>3, SendJustified
<1>6. ASSUME NEW d \in Deliveries, Fail(d) PROVE QueuesJustified'
  <2>1. ledger'[d].status # "none"
    BY <1>6 DEF Fail, TypeOK, LedgerRecord
  <2>2. ASSUME NEW c \in Connections
        PROVE  <<Frame("error", d)>> \in Seq(JustifiedFrame(c)')
    BY <1>2, <2>1 DEF Reports
  <2>3. DaemonSends(<<Frame("error", d)>>)
    BY <1>6 DEF Fail
  <2> QED BY <1>1, <2>2, <2>3, SendJustified
<1>7. CASE DaemonGreets
  <2>1. ASSUME NEW c \in Connections
        PROVE  <<Frame("ready", None)>> \in Seq(JustifiedFrame(c)')
    <3>1. Frame("ready", None) \in DaemonFrame
      BY FrameTypes DEF Notices
    <3>2. Frame("ready", None) \in JustifiedFrame(c)'
      BY <3>1 DEF JustifiedFrame, Frame, Reports
    <3> QED BY <3>2
  <2>2. DaemonSends(<<Frame("ready", None)>>)
    BY <1>7 DEF DaemonGreets
  <2> QED BY <1>1, <2>1, <2>2, SendJustified
<1>8. CASE DaemonRestart(<<>>)
  <2>1. DaemonSends(<<>>)
    BY <1>8 DEF DaemonRestart
  <2>2. ASSUME NEW c \in Connections PROVE <<>> \in Seq(JustifiedFrame(c)')
    BY EmptySeq
  <2> QED BY <1>1, <2>1, <2>2, SendJustified
<1>9. CASE DaemonRestart(Stopping)
  <2>1. ASSUME NEW c \in Connections, socket = c
        PROVE  Stopping \in Seq(JustifiedFrame(c)')
    <3>1. link'[c] = "down"
      BY <1>9, <2>1 DEF DaemonRestart, TypeOK, None, Connections
    <3>2. Frame("stopping", None) \in DaemonFrame
      BY FrameTypes DEF Notices
    <3>3. Frame("stopping", None) \in JustifiedFrame(c)'
      BY <3>1, <3>2 DEF JustifiedFrame, Frame, Reports
    <3> QED BY <3>3 DEF Stopping
  <2>2. DaemonSends(Stopping)
    BY <1>9 DEF DaemonRestart
  <2> QED BY <1>1, <2>1, <2>2, SendJustified
<1>10. ASSUME NEW b \in Connections, ServerReceive(b) PROVE QueuesJustified'
  <2>1. toServer[b] # <<>> /\ toServer' = [toServer EXCEPT ![b] = Tail(@)]
    BY <1>10 DEF ServerReceive
  <2> QED BY <1>1, <2>1, KeepJustified DEF TypeOK
<1>11. ASSUME NEW b \in Connections, ServerLosesSocket(b) PROVE QueuesJustified'
  <2>1. toServer' = [toServer EXCEPT ![b] = <<>>]
    BY <1>11 DEF ServerLosesSocket
  <2> QED BY <1>1, <2>1, KeepJustified DEF TypeOK
<1>12. CASE ServerRestart
  BY <1>1, <1>12, KeepJustified DEF ServerRestart
<1>13. CASE UNCHANGED toServer
  BY <1>1, <1>13, KeepJustified
<1> QED
  BY <1>3, <1>4, <1>5, <1>6, <1>7, <1>8, <1>9, <1>10, <1>11, <1>12, <1>13
     DEF Next, vars, ServerSteps, DaemonSteps, Request, Age, DaemonAccepts,
         Connect, GraceExpires, Break, DaemonLosesSocket, Persist

--------------------------------------------------------------------------------
(* The ledger backs every claim *)

\* The frame the server is about to read is justified.
LEMMA HeadJustified ==
  ASSUME TypeOK, Backed, NEW c \in Connections, toServer[c] # <<>>
  PROVE  /\ Head(toServer[c]) \in DaemonFrame
         /\ Head(toServer[c]).type \in Reports =>
              /\ Head(toServer[c]).delivery \in Deliveries
              /\ Ledgered(Head(toServer[c]).delivery)
         /\ Head(toServer[c]).type = "stopping" => link[c] = "down"
<1> DEFINE f == Head(toServer[c])
<1>1. f \in JustifiedFrame(c)
  BY ReadQueue DEF Backed
<1>2. f.type \in Reports => f.delivery \in Deliveries
  BY <1>1 DEF JustifiedFrame, DaemonFrame, Reports, Notices
<1> QED BY <1>1, <1>2 DEF JustifiedFrame

\* A delivery sent or queued again is not held by the computer.
LEMMA WaitingNotHeld ==
  ASSUME TypeOK, NEW d \in Deliveries
  PROVE  /\ Held(Requeued[d]) => Held(deliveries[d])
         /\ RetryReady(d) =>
              (Held([deliveries[d] EXCEPT !.status = "sent", !.stale = FALSE])
                 => Held(deliveries[d]))
<1>1. deliveries[d] \in Delivery
  BY DEF TypeOK
<1>2. CASE deliveries[d].status = "sent" /\ ~deliveries[d].acked
  <2>1. Requeued[d] = [deliveries[d] EXCEPT !.status = "queued", !.stale = FALSE]
    BY <1>2 DEF Requeued
  <2>2. Requeued[d].status = "queued" /\ Requeued[d].acked = deliveries[d].acked
    BY <1>1, <2>1 DEF Delivery
  <2>3. ~Held(Requeued[d])
    BY <1>2, <2>2 DEF Held, Terminal
  <2> QED BY <1>1, <2>3 DEF Held, Terminal, Delivery
<1>3. CASE ~(deliveries[d].status = "sent" /\ ~deliveries[d].acked)
  <2>1. Requeued[d] = deliveries[d]
    BY <1>3 DEF Requeued
  <2> QED BY <1>1, <2>1 DEF Held, Terminal, Delivery
<1>4. Held([deliveries[d] EXCEPT !.status = "sent", !.stale = FALSE])
        => Held(deliveries[d])
  BY <1>1 DEF Held, Terminal, Delivery
<1> QED BY <1>2, <1>3, <1>4

\* Reading a frame makes no claim that the ledger does not back.
LEMMA ReceiveBacked ==
  ASSUME TypeOK, Backed, NEW c \in Connections, ServerReceive(c),
         NEW d \in Deliveries, Claimed(d)'
  PROVE  Ledgered(d)
<1> DEFINE f == Head(toServer[c])
<1> USE DEF Claimed, daemon
<1>1. Claimed(d) => Ledgered(d)
  BY DEF Backed
<1>2. UNCHANGED <<stored, session, handling>>
  BY DEF ServerReceive
<1>3. toServer[c] # <<>>
  BY DEF ServerReceive
<1> SUFFICES ASSUME Held(deliveries'[d]) \/ responses'[d] > 0, ~Claimed(d)
             PROVE  Ledgered(d)
  BY <1>1, <1>2
<1>4. CASE f.type = "ready" /\ HandleReady
  <2>1. responses'[d] = responses[d]
    BY <1>4 DEF HandleReady
  <2>2. \/ deliveries'[d] = deliveries[d]
        \/ /\ RetryReady(d)
           /\ deliveries'[d] = [deliveries[d] EXCEPT !.status = "sent",
                                                    !.stale = FALSE]
    BY <1>4 DEF HandleReady
  <2> QED BY <2>1, <2>2, WaitingNotHeld
<1>5. CASE f.type = "ack" /\ HandleAck(f.delivery)
  <2>1. d # f.delivery => UNCHANGED <<deliveries[d], responses[d]>>
    BY <1>5 DEF HandleAck, Acked, TypeOK
  <2> QED BY <1>3, <1>5, <2>1, HeadJustified DEF Reports
<1>6. CASE f.type = "result" /\ HandleResult(f.delivery)
  <2>1. d # f.delivery => UNCHANGED <<deliveries[d], responses[d]>>
    BY <1>6 DEF HandleResult, Finished, TypeOK
  <2> QED BY <1>3, <1>6, <2>1, HeadJustified DEF Reports
<1>7. CASE \/ f.type = "idle" /\ HandleEnd(f.delivery, "completed")
           \/ f.type = "error" /\ HandleEnd(f.delivery, "failed")
  <2>1. d # f.delivery => UNCHANGED <<deliveries[d], responses[d]>>
    BY <1>7 DEF HandleEnd, Finished, TypeOK
  <2> QED BY <1>3, <1>7, <2>1, HeadJustified DEF Reports
<1>8. CASE f.type = "stopping" /\ HandleStopping(c)
  <2>1. deliveries' \in {deliveries, Requeued} /\ UNCHANGED responses
    BY <1>8 DEF HandleStopping, Finalize
  <2> QED BY <2>1, WaitingNotHeld
<1> QED BY <1>4, <1>5, <1>6, <1>7, <1>8 DEF ServerReceive

\* Every step keeps the claims and the reports backed.
LEMMA BackedStep ==
  ASSUME TypeOK, TypeOK', Backed, [Next]_vars
  PROVE  Backed'
<1> SUFFICES ASSUME NEW d \in Deliveries, Claimed(d)', ~Ledgered(d)
             PROVE  Ledgered(d)'
  BY QueuesStep, LedgerGrows DEF Backed, QueuesJustified
<1>1. ~Claimed(d)
  BY DEF Backed
<1> USE DEF Claimed, server, network, daemon
<1>2. ASSUME NEW m \in Messages, Request(m) PROVE FALSE
  BY <1>1, <1>2 DEF Request, TypeOK, Delivery, Terminal, Held
<1>3. ASSUME NEW e \in Deliveries, Age(e) PROVE FALSE
  BY <1>1, <1>3 DEF Age, TypeOK, Delivery, Held
<1>4. ASSUME NEW e \in Deliveries, DaemonAccepts(e) PROVE Ledgered(d)'
  <2>1. d = e
    BY <1>1, <1>4 DEF DaemonAccepts
  <2>2. Entered(d)[d].status # "none"
    BY DEF Entered, Duplicate, Terminal, TypeOK, LedgerRecord
  <2> QED BY <1>4, <2>1, <2>2 DEF DaemonAccepts, Ledgered
<1>5. ASSUME NEW e \in Deliveries, DaemonAcks(e) PROVE FALSE
  BY <1>1, <1>5 DEF DaemonAcks, TypeOK, NoAcceptance, None, Deliveries
<1>6. ASSUME NEW e \in Deliveries, Report(e) PROVE FALSE
  BY <1>1, <1>6 DEF Report, TypeOK
<1>7. ASSUME NEW e \in Deliveries, Complete(e) PROVE FALSE
  BY <1>1, <1>7 DEF Complete, TypeOK
<1>8. ASSUME NEW e \in Deliveries, Fail(e) PROVE FALSE
  BY <1>1, <1>8 DEF Fail, TypeOK
<1>9. ASSUME NEW c \in Connections, Connect(c) PROVE FALSE
  <2>1. deliveries' \in {deliveries, Requeued}
    BY <1>9 DEF Connect, Adopted
  <2> QED BY <1>1, <1>9, <2>1, WaitingNotHeld DEF Connect
<1>10. ASSUME NEW c \in Connections, ServerLosesSocket(c) PROVE FALSE
  BY <1>1, <1>10 DEF ServerLosesSocket
<1>11. ASSUME NEW c \in Connections, GraceExpires(c) PROVE FALSE
  <2>1. deliveries' \in {deliveries, Requeued}
    BY <1>11 DEF GraceExpires, Finalize
  <2> QED BY <1>1, <1>11, <2>1, WaitingNotHeld DEF GraceExpires
<1>12. ASSUME NEW c \in Connections, ServerReceive(c) PROVE FALSE
  BY <1>12, ReceiveBacked
<1>13. CASE \/ \E c \in Connections : Break(c)
            \/ DaemonGreets
            \/ DaemonLosesSocket
            \/ UNCHANGED vars
  BY <1>1, <1>13 DEF Break, DaemonGreets, DaemonLosesSocket, vars
<1>14. ASSUME NEW notice, DaemonRestart(notice) PROVE FALSE
  BY <1>1, <1>14 DEF DaemonRestart, NoAcceptance, None, Deliveries
<1>15. CASE Persist
  BY <1>1, <1>15 DEF Persist
<1>16. CASE ServerRestart
  BY <1>1, <1>16 DEF ServerRestart
<1> QED
  BY <1>2, <1>3, <1>4, <1>5, <1>6, <1>7, <1>8, <1>9, <1>10, <1>11, <1>12,
     <1>13, <1>14, <1>15, <1>16 DEF Next, ServerSteps, DaemonSteps

--------------------------------------------------------------------------------
(* One answer, one active delivery, one run, one connection *)

\* An answer is posted only where there is none.
LEMMA AnsweredOnceStep ==
  ASSUME TypeOK, AnsweredOnce, [Next]_vars
  PROVE  AnsweredOnce'
<1> USE DEF AnsweredOnce, server, network, daemon
<1>1. ASSUME NEW c \in Connections, ServerReceive(c) PROVE AnsweredOnce'
  <2>1. UNCHANGED stored
    BY <1>1 DEF ServerReceive
  <2>2. \A d \in Deliveries : responses'[d] <= 1
    <3>1. CASE UNCHANGED responses
      BY <3>1
    <3>2. ASSUME NEW e, HandleResult(e)
          PROVE  \A d \in Deliveries : responses'[d] <= 1
      <4>1. responses' =
              [responses EXCEPT ![e] = IF responses[e] = 0 THEN 1
                                       ELSE responses[e]]
        BY <3>2 DEF HandleResult
      <4>2. \A d \in Deliveries : responses[d] \in Nat /\ responses[d] <= 1
        BY DEF TypeOK
      <4> QED BY <4>1, <4>2 DEF TypeOK
    <3> QED
      BY <1>1, <3>1, <3>2
         DEF ServerReceive, HandleReady, HandleAck, HandleEnd, HandleStopping
  <2> QED BY <2>1, <2>2
<1>2. CASE Persist
  BY <1>2 DEF Persist
<1>3. CASE ServerRestart
  BY <1>3 DEF ServerRestart
<1>4. CASE UNCHANGED <<responses, stored>>
  BY <1>4
<1> QED
  BY <1>1, <1>2, <1>3, <1>4
     DEF Next, vars, ServerSteps, DaemonSteps, Request, Age, DaemonAccepts,
         DaemonAcks, Report, Complete, Fail, Connect, ServerLosesSocket,
         GraceExpires, Break, DaemonGreets, DaemonLosesSocket, DaemonRestart

\* Of every delivery record, a step other than a request or a server restart
\* keeps the message, makes nothing active and leaves an unknown one unknown.
OnlyAdvanced ==
  \A d \in Deliveries :
    /\ deliveries'[d].message = deliveries[d].message
    /\ deliveries'[d].status \in Active => deliveries[d].status \in Active
    /\ deliveries[d] = Unknown => deliveries'[d] = Unknown

\* AdvanceDelivery moves one delivery of those that are in flight.
LEMMA AdvanceOnly ==
  ASSUME TypeOK, TypeOK',
         \/ \E d \in Deliveries : Age(d)
         \/ \E c \in Connections : ServerSteps(c)
         \/ UNCHANGED deliveries
  PROVE  OnlyAdvanced
<1> USE DEF OnlyAdvanced, Active, Waiting, Terminal
<1>1. \A d \in Deliveries : deliveries[d] \in Delivery
  BY DEF TypeOK
<1>2. CASE UNCHANGED deliveries
  BY <1>2
<1>3. ASSUME NEW e \in Deliveries, Age(e) PROVE OnlyAdvanced
  <2>1. \A d \in Deliveries : d # e => deliveries'[d] = deliveries[d]
    BY <1>3 DEF Age, TypeOK
  <2>2. deliveries'[e] = [deliveries[e] EXCEPT !.stale = TRUE]
    BY <1>3 DEF Age, TypeOK
  <2>3. deliveries[e] # Unknown
    BY <1>3 DEF Age, Unknown
  <2> QED BY <1>1, <2>1, <2>2, <2>3 DEF Delivery
<1>4. CASE deliveries' = Requeued
  <2> SUFFICES ASSUME NEW d \in Deliveries
               PROVE  /\ Requeued[d].message = deliveries[d].message
                      /\ Requeued[d].status \in Active
                           => deliveries[d].status \in Active
                      /\ deliveries[d] = Unknown => Requeued[d] = Unknown
    BY <1>4
  <2> QED BY <1>1 DEF Requeued, Delivery, Unknown
<1>5. ASSUME NEW d \in Deliveries, NEW status \in Terminal,
             deliveries' = Finished(d, status)
      PROVE  OnlyAdvanced
  <2>1. CASE deliveries[d].status = "none"
    BY <1>2, <1>5, <2>1 DEF Finished
  <2>2. CASE deliveries[d].status # "none"
    <3>1. deliveries' = [deliveries EXCEPT ![d] =
                           [deliveries[d] EXCEPT !.status = status]]
      BY <1>5, <2>2 DEF Finished
    <3>2. deliveries'[d] = [deliveries[d] EXCEPT !.status = status]
      BY <3>1 DEF TypeOK
    <3>3. \A e \in Deliveries : e # d => deliveries'[e] = deliveries[e]
      BY <3>1 DEF TypeOK
    <3> QED BY <1>1, <2>2, <3>2, <3>3 DEF Delivery, Unknown
  <2> QED BY <2>1, <2>2
<1>6. ASSUME NEW d \in Deliveries, deliveries' = Acked(d) PROVE OnlyAdvanced
  <2> DEFINE status == IF deliveries[d].status \in Terminal
                       THEN deliveries[d].status ELSE "acked"
  <2>1. CASE deliveries[d].status = "none"
    BY <1>2, <1>6, <2>1 DEF Acked
  <2>2. CASE deliveries[d].status # "none"
    <3>1. deliveries' = [deliveries EXCEPT ![d] =
                    [deliveries[d] EXCEPT !.status = status, !.acked = TRUE]]
      BY <1>6, <2>2 DEF Acked, TypeOK, Delivery
    <3>2. deliveries[d].status \in Active \/ deliveries[d].status \in Terminal
      BY <1>1, <2>2 DEF Delivery, Statuses
    <3>3. status \in Terminal => deliveries[d].status \in Terminal
      OBVIOUS
    <3>4. status \in Active => deliveries[d].status \in Active
      BY <3>2
    <3> HIDE DEF status
    <3>5. deliveries'[d] =
            [deliveries[d] EXCEPT !.status = status, !.acked = TRUE]
      BY <3>1 DEF TypeOK
    <3>6. \A e \in Deliveries : e # d => deliveries'[e] = deliveries[e]
      BY <3>1 DEF TypeOK
    <3>7. /\ deliveries'[d].message = deliveries[d].message
          /\ deliveries'[d].status = status
      BY <1>1, <3>5 DEF Delivery
    <3>8. deliveries[d] # Unknown
      BY <2>2 DEF Unknown
    <3> QED BY <3>4, <3>6, <3>7, <3>8
  <2> QED BY <2>1, <2>2
<1>7. CASE HandleReady
  <2> SUFFICES ASSUME NEW d \in Deliveries,
                      deliveries'[d] # deliveries[d]
               PROVE  /\ deliveries'[d].message = deliveries[d].message
                      /\ deliveries[d].status \in Active
                      /\ deliveries[d] # Unknown
    OBVIOUS
  <2>1. /\ RetryReady(d)
        /\ deliveries'[d] = [deliveries[d] EXCEPT !.status = "sent",
                                                 !.stale = FALSE]
    BY <1>7 DEF HandleReady
  <2> QED BY <1>1, <2>1 DEF RetryReady, Delivery, Unknown
<1>8. ASSUME NEW c \in Connections, ServerReceive(c) PROVE OnlyAdvanced
  <2> DEFINE f == Head(toServer[c])
  <2>1. f.type \in Reports => f.delivery \in Deliveries
    BY <1>8, ReadQueue DEF TypeOK, ServerReceive, DaemonFrame, Reports, Notices
  <2>2. CASE f.type = "ready" /\ HandleReady
    BY <1>7, <2>2
  <2>3. CASE f.type = "ack" /\ HandleAck(f.delivery)
    BY <1>6, <2>1, <2>3 DEF HandleAck, Reports
  <2>4. CASE f.type = "result" /\ HandleResult(f.delivery)
    BY <1>5, <2>1, <2>4 DEF HandleResult, Reports
  <2>5. CASE \/ f.type = "idle" /\ HandleEnd(f.delivery, "completed")
             \/ f.type = "error" /\ HandleEnd(f.delivery, "failed")
    BY <1>5, <2>1, <2>5 DEF HandleEnd, Reports
  <2>6. CASE f.type = "stopping" /\ HandleStopping(c)
    <3>1. deliveries' = deliveries \/ deliveries' = Requeued
      BY <2>6 DEF HandleStopping, Finalize
    <3> QED BY <1>2, <1>4, <3>1
  <2> QED BY <1>8, <2>2, <2>3, <2>4, <2>5, <2>6 DEF ServerReceive
<1>9. ASSUME NEW c \in Connections, Connect(c) \/ GraceExpires(c)
      PROVE  OnlyAdvanced
  <2>1. deliveries' = deliveries \/ deliveries' = Requeued
    BY <1>9 DEF Connect, Adopted, GraceExpires, Finalize
  <2> QED BY <1>2, <1>4, <2>1
<1>10. ASSUME NEW c \in Connections, ServerLosesSocket(c) PROVE OnlyAdvanced
  BY <1>2, <1>10 DEF ServerLosesSocket
<1> QED BY <1>2, <1>3, <1>8, <1>9, <1>10 DEF ServerSteps

\* A new delivery is of a message no active delivery is of.
LEMMA IssuedStep ==
  ASSUME TypeOK, TypeOK', Issued, [Next]_vars
  PROVE  Issued'
<1> USE DEF Issued, OneActive, server, network, daemon
<1>1. ASSUME NEW m \in Messages, Request(m) PROVE Issued'
  <2> DEFINE n == issued + 1
  <2>1. n \in Deliveries /\ issued' = n /\ UNCHANGED stored
    BY <1>1 DEF Request, TypeOK, Deliveries
  <2>2. \A d \in Deliveries : d # n => deliveries'[d] = deliveries[d]
    BY <1>1 DEF Request, TypeOK
  <2>3. deliveries'[n].message = m
    BY <1>1, <2>1 DEF Request, TypeOK
  <2>4. \A d \in Deliveries :
          ~(deliveries[d].message = m /\ deliveries[d].status \in Active)
    BY <1>1 DEF Request, NoneActive
  <2>5. \A d \in Deliveries : d > n => d > issued /\ d # n
    BY DEF TypeOK, Deliveries
  <2> QED BY <2>1, <2>2, <2>3, <2>4, <2>5
<1>2. CASE \/ \E d \in Deliveries : Age(d)
           \/ \E c \in Connections : ServerSteps(c)
           \/ UNCHANGED <<deliveries, issued, stored>>
  <2>1. OnlyAdvanced
    BY <1>2, AdvanceOnly
  <2>2. UNCHANGED <<issued, stored>>
    BY <1>2 DEF Age, ServerSteps, Connect, ServerLosesSocket, GraceExpires,
                ServerReceive
  <2> QED BY <2>1, <2>2 DEF OnlyAdvanced
<1>3. CASE Persist
  BY <1>3 DEF Persist
<1>4. CASE ServerRestart
  BY <1>4 DEF ServerRestart
<1> QED
  BY <1>1, <1>2, <1>3, <1>4
     DEF Next, vars, DaemonSteps, DaemonAccepts, DaemonAcks, Report, Complete,
         Fail, Break, DaemonGreets, DaemonLosesSocket, DaemonRestart

\* A run accepts a delivery as new only if this run has not accepted it
\* before and no run has finished it.
LEMMA RunOnceStep ==
  ASSUME TypeOK, TypeOK', RunOnce, [Next]_vars
  PROVE  RunOnce'
<1> USE DEF RunOnce, Fresh, server, network, daemon
<1>t. \A d \in Deliveries : ledger[d] \in LedgerRecord /\ executions[d] \in Nat
  BY DEF TypeOK
<1>n. \A d \in Deliveries : d # None
  BY DEF Deliveries, None
<1>1. \A d \in Deliveries : /\ ledger[d] \in LedgerRecord
                            /\ executions[d] \in Nat
                            /\ d # None
  BY <1>t, <1>n
<1>2. run \in Nat
  BY DEF TypeOK
<1>3. ASSUME NEW e \in Deliveries, DaemonAccepts(e) PROVE RunOnce'
  <2>1. /\ handling = NoAcceptance
        /\ handling' = [delivery |-> e, duplicate |-> Duplicate(e),
                        result |-> ledger[e].result]
        /\ ledger' = Entered(e)
        /\ UNCHANGED <<run, session, executions>>
    BY <1>3 DEF DaemonAccepts
  <2>2. \A d \in Deliveries : d # e => ledger'[d] = ledger[d]
    BY <2>1 DEF Entered, TypeOK
  <2>3. CASE Duplicate(e)
    <3>1. ledger' = ledger /\ handling'.duplicate
      BY <2>1, <2>3 DEF Entered
    <3>2. \A d \in Deliveries : ~Fresh(d)'
      BY <3>1
    <3>3. \A d \in Deliveries : ~Fresh(d)
      BY <1>1, <2>1 DEF NoAcceptance
    <3> QED BY <2>1, <3>1, <3>2, <3>3
  <2>4. CASE ~Duplicate(e)
    <3>1. ledger'[e] = [ledger[e] EXCEPT !.status = "accepted", !.run = run]
      BY <2>1, <2>4 DEF Entered, TypeOK
    <3>2. ledger'[e].status = "accepted" /\ ledger'[e].run = run
      BY <1>1, <3>1 DEF LedgerRecord
    <3>3. ledger[e].run < run
      BY <1>1, <1>2, <2>4 DEF Duplicate, LedgerRecord
    <3>4. session[e] = "none" /\ executions[e] < run
      BY <1>2, <3>3
    <3>5. \A d \in Deliveries : d # e => ~Fresh(d)'
      BY <2>1
    <3>6. \A d \in Deliveries : ~Fresh(d)
      BY <1>1, <2>1 DEF NoAcceptance
    <3> QED BY <1>2, <2>1, <2>2, <3>2, <3>4, <3>5, <3>6
  <2> QED BY <2>3, <2>4
<1>4. ASSUME NEW e \in Deliveries, DaemonAcks(e) PROVE RunOnce'
  <2>1. /\ handling.delivery = e
        /\ handling' = NoAcceptance
        /\ UNCHANGED <<run, ledger>>
    BY <1>4 DEF DaemonAcks
  <2>2. \A d \in Deliveries : ~Fresh(d)'
    BY <1>1, <2>1 DEF NoAcceptance
  <2>3. CASE handling.duplicate
    <3>1. UNCHANGED <<session, executions>>
      BY <1>4, <2>3 DEF DaemonAcks
    <3> QED BY <2>1, <2>2, <3>1
  <2>4. CASE ~handling.duplicate
    <3>1. /\ session' = [session EXCEPT ![e] = "running"]
          /\ executions' = [executions EXCEPT ![e] = @ + 1]
      BY <1>4, <2>4 DEF DaemonAcks
    <3>2. /\ executions'[e] = executions[e] + 1
          /\ \A d \in Deliveries \ {e} : /\ executions'[d] = executions[d]
                                         /\ session'[d] = session[d]
      BY <3>1 DEF TypeOK
    <3>3. executions[e] < run /\ ledger[e].run = run
          /\ ledger[e].status = "accepted"
      BY <2>1, <2>4
    <3> QED BY <1>1, <1>2, <2>1, <2>2, <3>2, <3>3
  <2> QED BY <2>3, <2>4
<1>5. ASSUME NEW e \in Deliveries, Report(e) PROVE RunOnce'
  BY <1>5 DEF Report, TypeOK
<1>6. ASSUME NEW e \in Deliveries, Complete(e) \/ Fail(e) PROVE RunOnce'
  <2>1. /\ session[e] # "none"
        /\ session' = [session EXCEPT ![e] = "none"]
        /\ UNCHANGED <<run, handling, executions>>
    BY <1>6 DEF Complete, Fail
  <2>2. \A d \in Deliveries \ {e} : ledger'[d] = ledger[d]
    BY <1>6 DEF Complete, Fail, TypeOK
  <2>3. ledger'[e].status # "none" /\ ledger'[e].run = ledger[e].run
    BY <1>6 DEF Complete, Fail, TypeOK, LedgerRecord
  <2>4. \A d \in Deliveries \ {e} : session'[d] = session[d]
    BY <2>1 DEF TypeOK
  <2>5. session'[e] = "none" /\ ~Fresh(e) /\ ledger[e].run = run
    BY <2>1 DEF TypeOK
  <2> QED BY <1>2, <2>1, <2>2, <2>3, <2>4, <2>5
<1>7. ASSUME NEW notice, DaemonRestart(notice) PROVE RunOnce'
  <2>1. /\ run' = run + 1
        /\ handling' = NoAcceptance
        /\ \A d \in Deliveries : session'[d] = "none"
        /\ UNCHANGED <<ledger, executions>>
    BY <1>7 DEF DaemonRestart
  <2>2. \A d \in Deliveries : ~Fresh(d)'
    BY <1>1, <2>1 DEF NoAcceptance
  <2> QED BY <1>1, <1>2, <2>1, <2>2 DEF LedgerRecord
<1>8. CASE UNCHANGED <<run, ledger, handling, session, executions>>
  BY <1>8
<1> QED
  BY <1>3, <1>4, <1>5, <1>6, <1>7, <1>8
     DEF Next, vars, ServerSteps, DaemonSteps, Request, Age, Connect,
         ServerLosesSocket, GraceExpires, ServerReceive, Break, DaemonGreets,
         DaemonLosesSocket, Persist, ServerRestart

\* The daemon opens a connection only without one, and the server lets go of a
\* connection only when it is down.
LEMMA OneConnectionStep ==
  ASSUME TypeOK, Backed, OneConnection, GraceMeansGone, [Next]_vars
  PROVE  OneConnection'
<1> USE DEF OneConnection, server, network, daemon
<1>1. \A c \in Connections : c # None
  BY DEF Connections, None
<1>2. ASSUME NEW b \in Connections, Connect(b) PROVE OneConnection'
  BY <1>1, <1>2 DEF Connect, TypeOK
<1>3. ASSUME NEW b \in Connections, ServerLosesSocket(b) PROVE OneConnection'
  BY <1>3 DEF ServerLosesSocket, Disconnected, TypeOK
<1>4. ASSUME NEW b \in Connections, GraceExpires(b) PROVE OneConnection'
  BY <1>1, <1>4 DEF GraceExpires, Finalize, GraceMeansGone
<1>5. ASSUME NEW b \in Connections, ServerReceive(b) PROVE OneConnection'
  <2> DEFINE f == Head(toServer[b])
  <2>1. CASE f.type = "stopping" /\ HandleStopping(b)
    <3>1. link[b] = "down"
      BY <1>5, <2>1, HeadJustified DEF ServerReceive
    <3>2. UNCHANGED <<link, socket>>
      BY <1>5 DEF ServerReceive
    <3>3. \/ UNCHANGED connections
          \/ connections \in {None, b} /\ connections' = None
      BY <2>1 DEF HandleStopping, Finalize
    <3> QED BY <1>1, <3>1, <3>2, <3>3
  <2>2. CASE ~(f.type = "stopping" /\ HandleStopping(b))
    BY <1>5, <2>2 DEF ServerReceive, HandleReady, HandleAck, HandleResult,
                      HandleEnd
  <2> QED BY <2>1, <2>2
<1>6. ASSUME NEW b \in Connections, Break(b) PROVE OneConnection'
  BY <1>6 DEF Break, TypeOK
<1>7. CASE DaemonLosesSocket
  BY <1>7 DEF DaemonLosesSocket, TypeOK
<1>8. ASSUME NEW notice, DaemonRestart(notice) PROVE OneConnection'
  BY <1>8 DEF DaemonRestart, TypeOK
<1>9. CASE ServerRestart
  BY <1>9 DEF ServerRestart, TypeOK
<1>10. CASE UNCHANGED <<link, socket, connections>>
  BY <1>10
<1> QED
  BY <1>2, <1>3, <1>4, <1>5, <1>6, <1>7, <1>8, <1>9, <1>10
     DEF Next, vars, ServerSteps, DaemonSteps, Request, Age, DaemonAccepts,
         DaemonAcks, Report, Complete, Fail, DaemonGreets, Persist

\* A grace starts when the computer's entry is taken out, and ends no later
\* than a new entry is made.
LEMMA GraceStep ==
  ASSUME TypeOK, GraceMeansGone, [Next]_vars
  PROVE  GraceMeansGone'
<1> USE DEF GraceMeansGone, server, network, daemon
<1>1. ASSUME NEW b \in Connections, Connect(b) PROVE GraceMeansGone'
  BY <1>1 DEF Connect
<1>2. ASSUME NEW b \in Connections, ServerLosesSocket(b) PROVE GraceMeansGone'
  BY <1>2 DEF ServerLosesSocket, Disconnected
<1>3. ASSUME NEW b \in Connections, GraceExpires(b) \/ ServerReceive(b)
      PROVE  GraceMeansGone'
  BY <1>3 DEF GraceExpires, ServerReceive, Finalize, HandleReady, HandleAck,
              HandleResult, HandleEnd, HandleStopping
<1>4. CASE ServerRestart
  BY <1>4 DEF ServerRestart
<1>5. CASE UNCHANGED <<connections, pendingDisconnects>>
  BY <1>5
<1> QED
  BY <1>1, <1>2, <1>3, <1>4, <1>5
     DEF Next, vars, ServerSteps, DaemonSteps, Request, Age, DaemonAccepts,
         DaemonAcks, Report, Complete, Fail, Break, DaemonGreets,
         DaemonLosesSocket, DaemonRestart, Persist

--------------------------------------------------------------------------------
(* The invariant, and the properties it implies *)

\* The invariant behind the safety properties is inductive: the ledger backs
\* every belief of the cloud, answers are posted once, records are of issued
\* deliveries, a run executes a delivery once, and only the current connection
\* is up.
THEOREM InvariantHolds == Spec => []Invariant
<1>1. Init => Invariant
  <2> SUFFICES ASSUME Init PROVE Invariant
    OBVIOUS
  <2>1. Backed
    BY EmptySeq DEF Init, Backed, Claimed, Held, Ledgered, Unknown, NoRecord,
                    NoAcceptance, Terminal, None, Deliveries
  <2>2. AnsweredOnce /\ GraceMeansGone /\ OneConnection
    BY DEF Init, AnsweredOnce, GraceMeansGone, OneConnection
  <2>3. Issued
    BY DEF Init, Issued, OneActive, Unknown, Active, Waiting
  <2>4. RunOnce
    BY DEF Init, RunOnce, Fresh, NoRecord, NoAcceptance, None, Deliveries
  <2> QED BY <2>1, <2>2, <2>3, <2>4 DEF Invariant
<1>2. TypeOK /\ TypeOK' /\ Invariant /\ [Next]_vars => Invariant'
  BY BackedStep, AnsweredOnceStep, IssuedStep, RunOnceStep, OneConnectionStep,
     GraceStep DEF Invariant
<1> QED BY <1>1, <1>2, TypeCorrect, PTL DEF Spec

\* What the cloud takes for acknowledged, finished or answered is in the
\* computer's ledger.
THEOREM AcksAreAccepted == Spec => []AckMeansAccepted
<1>1. Invariant => AckMeansAccepted
  BY DEF Invariant, Backed, Claimed, Held, Ledgered, AckMeansAccepted
<1> QED BY <1>1, InvariantHolds, PTL

\* A delivery is answered in the chat at most once.
THEOREM AnsweredAtMostOnce == Spec => []AtMostOneResponse
<1>1. Invariant => AtMostOneResponse
  BY DEF Invariant, AnsweredOnce, AtMostOneResponse
<1> QED BY <1>1, InvariantHolds, PTL

\* One run of the daemon executes a delivery at most once.
THEOREM ExecutedOncePerRun == Spec => []OncePerRun
<1>1. Invariant => OncePerRun
  BY DEF Invariant, RunOnce, OncePerRun
<1> QED BY <1>1, InvariantHolds, PTL

\* A message has at most one active delivery.
THEOREM OneActiveDelivery == Spec => []OneActivePerMessage
<1>1. Invariant => OneActivePerMessage
  BY DEF Invariant, Issued, OneActive, OneActivePerMessage
<1> QED BY <1>1, InvariantHolds, PTL

\* A reconnect grace never runs beside a connection.
THEOREM GraceOnlyWhenGone == Spec => []GraceMeansGone
<1>1. Invariant => GraceMeansGone
  BY DEF Invariant
<1> QED BY <1>1, InvariantHolds, PTL

\* Server and daemon agree on the connection in use.
THEOREM ConnectionAgreed == Spec => []ServerUsesDaemonsSocket
<1>1. TypeOK /\ Invariant => ServerUsesDaemonsSocket
  BY DEF TypeOK, Invariant, OneConnection, ServerUsesDaemonsSocket, None,
         Connections
<1> QED BY <1>1, TypeCorrect, InvariantHolds, PTL

\* What the computer has finished is never taken up or executed again.
THEOREM FinishedStaysFinished == Spec => FinishedNeverRerun
<1> DEFINE Kept(d) == /\ ledger'[d].status \in Terminal
                      /\ executions'[d] = executions[d]
<1>1. TypeOK /\ Invariant /\ [Next]_vars =>
        [\A d \in Deliveries : ledger[d].status \in Terminal => Kept(d)]_vars
  <2> SUFFICES ASSUME TypeOK, RunOnce, [Next]_vars, NEW d \in Deliveries,
                      ledger[d].status \in Terminal
               PROVE  Kept(d)
    BY DEF Invariant
  <2>0. ledger[d].status # "accepted" /\ Duplicate(d)
    BY DEF Terminal, Duplicate
  <2>1. CASE UNCHANGED <<ledger, executions>>
    BY <2>1
  <2>2. ASSUME NEW e \in Deliveries, DaemonAccepts(e)
        PROVE  Kept(d)
    <3>1. executions' = executions /\ ledger' = Entered(e)
      BY <2>2 DEF DaemonAccepts
    <3>2. CASE e = d
      BY <2>0, <3>1, <3>2 DEF Entered
    <3>3. CASE e # d
      BY <3>1, <3>3 DEF Entered, TypeOK
    <3> QED BY <3>2, <3>3
  <2>3. ASSUME NEW e \in Deliveries, DaemonAcks(e)
        PROVE  Kept(d)
    <3>1. ledger' = ledger
      BY <2>3 DEF DaemonAcks
    <3>2. CASE handling.duplicate
      BY <2>3, <3>1, <3>2 DEF DaemonAcks
    <3>3. CASE ~handling.duplicate
      <4>1. Fresh(e)
        BY <2>3, <3>3 DEF DaemonAcks, Fresh
      <4>2. d # e
        BY <2>0, <4>1 DEF RunOnce
      <4>3. executions' = [executions EXCEPT ![e] = @ + 1]
        BY <2>3, <3>3 DEF DaemonAcks
      <4> QED BY <3>1, <4>2, <4>3 DEF TypeOK
    <3> QED BY <3>2, <3>3
  <2>4. ASSUME NEW e \in Deliveries, Complete(e) \/ Fail(e)
        PROVE  Kept(d)
    <3>1. session[e] # "none" /\ executions' = executions
      BY <2>4 DEF Complete, Fail
    <3>2. d # e
      BY <2>0, <3>1 DEF RunOnce
    <3>3. ledger'[d] = ledger[d]
      BY <2>4, <3>2 DEF Complete, Fail, TypeOK
    <3> QED BY <3>1, <3>3
  <2> QED
    BY <2>1, <2>2, <2>3, <2>4
    DEF Next, vars, server, network, daemon, ServerSteps, DaemonSteps, Request,
        Age, Report, Connect, ServerLosesSocket, GraceExpires, ServerReceive,
        Break, DaemonGreets, DaemonLosesSocket, DaemonRestart, Persist,
        ServerRestart
<1> QED BY <1>1, TypeCorrect, InvariantHolds, PTL DEF Spec, FinishedNeverRerun

--------------------------------------------------------------------------------
(* The relay implements the promise of DeliveryPromise *)

\* What the promise sees of the relay.
PhaseNow == [d \in Deliveries |-> PhaseOf(deliveries[d].status)]
JournalNow == {d \in Deliveries : ledger[d].status # "none"}
SavedNow == [phase |-> [d \in Deliveries |-> PhaseOf(stored.deliveries[d].status)],
             answers |-> stored.responses]

\* The phases of the statuses.
LEMMA PhaseOfStatus ==
  /\ PhaseOf("none") = "none"
  /\ PhaseOf("queued") = "pending"
  /\ PhaseOf("sent") = "pending"
  /\ PhaseOf("acked") = "taken"
  /\ PhaseOf("completed") = "done"
  /\ PhaseOf("failed") = "done"
BY DEF PhaseOf, Waiting, Terminal

\* One delivery changes its status, and only that.
LEMMA OnePhase ==
  ASSUME TypeOK, NEW d \in Deliveries, NEW status \in Statuses,
         \A e \in Deliveries : e # d => deliveries'[e] = deliveries[e],
         deliveries'[d].status = status
  PROVE  PhaseNow' = [PhaseNow EXCEPT ![d] = PhaseOf(status)]
<1>1. \A e \in Deliveries : 
        PhaseOf(deliveries'[e].status) = 
          IF e = d THEN PhaseOf(status) ELSE PhaseOf(deliveries[e].status)
  OBVIOUS
<1> QED BY <1>1 DEF PhaseNow

\* A report of the daemon about a delivery moves it as the promise allows.
LEMMA AckKeepsPromise ==
  ASSUME TypeOK, NEW d \in Deliveries, Ledgered(d), HandleAck(d),
         UNCHANGED <<ledger, stored>>
  PROVE  Promise!Take(d) \/ UNCHANGED Promise!vars
<1>1. UNCHANGED <<responses, JournalNow, SavedNow>>
  BY DEF HandleAck, JournalNow, SavedNow
<1>2. deliveries \in [Deliveries -> Delivery] /\ deliveries' = Acked(d)
  BY DEF TypeOK, HandleAck
<1>3. CASE deliveries[d].status \in {"none"} \cup Terminal
  <2>1. \A e \in Deliveries : deliveries'[e].status = deliveries[e].status
    BY <1>2, <1>3 DEF Acked, Delivery
  <2>2. PhaseNow' = PhaseNow
    BY <2>1 DEF PhaseNow
  <2> QED BY <1>1, <2>2 DEF Promise!vars, PhaseNow, JournalNow, SavedNow
<1>4. CASE deliveries[d].status \notin {"none"} \cup Terminal
  <2>1. \A e \in Deliveries : e # d => deliveries'[e] = deliveries[e]
    BY <1>2, <1>4 DEF Acked
  <2>2. deliveries'[d].status = "acked"
    BY <1>2, <1>4 DEF Acked, Delivery
  <2>3. PhaseNow' = [PhaseNow EXCEPT ![d] = "taken"]
    BY <2>1, <2>2, OnePhase, PhaseOfStatus DEF Statuses, Active
  <2>4. PhaseNow[d] \in {"pending", "taken"}
    BY <1>2, <1>4, PhaseOfStatus
       DEF PhaseNow, Delivery, Statuses, Active, Waiting, Terminal
  <2>5. d \in JournalNow
    BY DEF JournalNow, Ledgered
  <2>6. PhaseNow[d] = "taken" => PhaseNow' = PhaseNow
    BY <2>3 DEF PhaseNow
  <2> QED
    BY <1>1, <2>3, <2>4, <2>5, <2>6
       DEF Promise!Take, Promise!vars, PhaseNow, JournalNow, SavedNow
<1> QED BY <1>3, <1>4

\* The end of a turn, finished or failed, is the abstract Finish or nothing.
LEMMA EndKeepsPromise ==
  ASSUME TypeOK, NEW d \in Deliveries, NEW status \in Terminal, Ledgered(d),
         HandleEnd(d, status), UNCHANGED <<ledger, stored>>
  PROVE  Promise!Finish(d) \/ UNCHANGED Promise!vars
<1>1. UNCHANGED <<responses, JournalNow, SavedNow>>
  BY DEF HandleEnd, JournalNow, SavedNow
<1>2. deliveries \in [Deliveries -> Delivery] /\ deliveries' = Finished(d, status)
  BY DEF TypeOK, HandleEnd
<1>3. CASE deliveries[d].status = "none"
  BY <1>1, <1>2, <1>3 DEF Finished, Promise!vars, PhaseNow, JournalNow, SavedNow
<1>4. CASE deliveries[d].status # "none"
  <2>1. \A e \in Deliveries : e # d => deliveries'[e] = deliveries[e]
    BY <1>2, <1>4 DEF Finished
  <2>2. deliveries'[d].status = status
    BY <1>2, <1>4 DEF Finished, Delivery
  <2>3. PhaseNow' = [PhaseNow EXCEPT ![d] = "done"]
    BY <2>1, <2>2, OnePhase, PhaseOfStatus DEF Statuses, Terminal
  <2>4. PhaseNow[d] \in {"pending", "taken", "done"}
    BY <1>2, <1>4, PhaseOfStatus
       DEF PhaseNow, Delivery, Statuses, Active, Waiting, Terminal
  <2>5. d \in JournalNow
    BY DEF JournalNow, Ledgered
  <2>6. PhaseNow[d] = "done" => PhaseNow' = PhaseNow
    BY <2>3 DEF PhaseNow
  <2> QED
    BY <1>1, <2>3, <2>4, <2>5, <2>6
       DEF Promise!Finish, Promise!vars, PhaseNow, JournalNow, SavedNow
<1> QED BY <1>3, <1>4

\* A result finishes the delivery and posts the answer, each at most once.
LEMMA ResultKeepsPromise ==
  ASSUME TypeOK, AnsweredOnce, NEW d \in Deliveries, Ledgered(d),
         HandleResult(d), UNCHANGED <<ledger, stored>>
  PROVE  Promise!Answer(d) \/ Promise!Finish(d) \/ UNCHANGED Promise!vars
<1>1. UNCHANGED <<JournalNow, SavedNow>>
  BY DEF HandleResult, JournalNow, SavedNow
<1>2. /\ deliveries \in [Deliveries -> Delivery]
      /\ responses \in [Deliveries -> Nat]
      /\ deliveries' = Finished(d, "completed")
      /\ responses' = [responses EXCEPT ![d] = IF @ = 0 THEN 1 ELSE @]
  BY DEF TypeOK, HandleResult
<1>3. d \in JournalNow
  BY DEF JournalNow, Ledgered
<1>4. responses[d] = 0 => responses' = [responses EXCEPT ![d] = 1]
  BY <1>2
<1>5. responses[d] # 0 => responses' = responses
  BY <1>2
<1>6. CASE deliveries[d].status = "none"
  <2>1. PhaseNow' = PhaseNow /\ PhaseNow[d] = "none"
    BY <1>2, <1>6, PhaseOfStatus DEF Finished, PhaseNow
  <2> QED
    BY <1>1, <1>3, <1>4, <1>5, <2>1
       DEF Promise!Answer, Promise!vars, PhaseNow, JournalNow, SavedNow
<1>7. CASE deliveries[d].status # "none"
  <2>1. \A e \in Deliveries : e # d => deliveries'[e] = deliveries[e]
    BY <1>2, <1>7 DEF Finished
  <2>2. deliveries'[d].status = "completed"
    BY <1>2, <1>7 DEF Finished, Delivery
  <2>3. PhaseNow' = [PhaseNow EXCEPT ![d] = "done"]
    BY <2>1, <2>2, OnePhase, PhaseOfStatus DEF Statuses, Terminal
  <2>4. PhaseNow[d] \in {"pending", "taken", "done"}
    BY <1>2, <1>7, PhaseOfStatus
       DEF PhaseNow, Delivery, Statuses, Active, Waiting, Terminal
  <2>5. PhaseNow[d] = "done" => PhaseNow' = PhaseNow
    BY <2>3 DEF PhaseNow
  <2>6. CASE responses[d] = 0
    BY <1>1, <1>3, <1>4, <2>3, <2>4, <2>6
       DEF Promise!Answer, PhaseNow, JournalNow, SavedNow
  <2>7. CASE responses[d] # 0
    BY <1>1, <1>3, <1>5, <2>3, <2>4, <2>5, <2>7
       DEF Promise!Finish, Promise!vars, PhaseNow, JournalNow, SavedNow
  <2> QED BY <2>6, <2>7
<1> QED BY <1>6, <1>7

\* Queueing again and replaying are no steps of the promise.
LEMMA RequeuedPhases ==
  ASSUME TypeOK, deliveries' \in {deliveries, Requeued, Adopted}
  PROVE  PhaseNow' = PhaseNow
<1>1. deliveries \in [Deliveries -> Delivery]
  BY DEF TypeOK
<1>q. ASSUME NEW d \in Deliveries
      PROVE  \/ Requeued[d] = deliveries[d]
             \/ deliveries[d].status = "sent" /\ Requeued[d].status = "queued"
  <2>1. CASE deliveries[d].status = "sent" /\ ~deliveries[d].acked
    <3>1. Requeued[d] = [deliveries[d] EXCEPT !.status = "queued", !.stale = FALSE]
      BY <2>1 DEF Requeued
    <3>2. deliveries[d] \in Delivery
      BY <1>1
    <3> QED BY <2>1, <3>1, <3>2 DEF Delivery
  <2>2. CASE ~(deliveries[d].status = "sent" /\ ~deliveries[d].acked)
    BY <2>2 DEF Requeued
  <2> QED BY <2>1, <2>2
<1>r. deliveries' = deliveries \/ deliveries' = Requeued
  BY DEF Adopted
<1>2. \A d \in Deliveries : \/ deliveries'[d] = deliveries[d]
                            \/ /\ deliveries[d].status = "sent"
                               /\ deliveries'[d].status = "queued"
  BY <1>q, <1>r
<1>3. \A d \in Deliveries :
        PhaseOf(deliveries[d].status)' = PhaseOf(deliveries[d].status)
  BY <1>2, PhaseOfStatus
<1> QED BY <1>3 DEF PhaseNow

\* Reading a frame of the daemon is a step of the promise, or none.
LEMMA ReceiveKeepsPromise ==
  ASSUME TypeOK, TypeOK', Invariant, NEW c \in Connections, ServerReceive(c)
  PROVE  [Promise!Next]_(Promise!vars)
<1> DEFINE f == Head(toServer[c])
<1>1. UNCHANGED <<ledger, stored>>
  BY DEF ServerReceive, daemon
<1>2. UNCHANGED <<JournalNow, SavedNow>>
  BY <1>1 DEF JournalNow, SavedNow
<1>3. toServer[c] # <<>> /\ Backed
  BY DEF ServerReceive, Invariant
<1>4. ASSUME f.type \in Reports
      PROVE  f.delivery \in Deliveries /\ Ledgered(f.delivery)
  BY <1>3, <1>4, HeadJustified
<1>5. CASE f.type = "ready" /\ HandleReady
  <2>1. \A d \in Deliveries :
          \/ deliveries'[d].status = deliveries[d].status
          \/ /\ deliveries[d].status \in Waiting
             /\ deliveries'[d].status = "sent"
    <3> SUFFICES ASSUME NEW d \in Deliveries, deliveries'[d] # deliveries[d]
                 PROVE  /\ deliveries[d].status \in Waiting
                        /\ deliveries'[d].status = "sent"
      OBVIOUS
    <3>1. /\ RetryReady(d)
          /\ deliveries'[d] =
               [deliveries[d] EXCEPT !.status = "sent", !.stale = FALSE]
      BY <1>5 DEF HandleReady
    <3>2. deliveries[d] \in Delivery
      BY DEF TypeOK
    <3> QED BY <3>1, <3>2 DEF RetryReady, Delivery, Waiting
  <2>2. \A d \in Deliveries :
          PhaseOf(deliveries[d].status)' = PhaseOf(deliveries[d].status)
    BY <2>1, PhaseOfStatus DEF Waiting
  <2>3. PhaseNow' = PhaseNow
    BY <2>2 DEF PhaseNow
  <2>4. responses' = responses
    BY <1>5 DEF HandleReady
  <2> QED BY <1>2, <2>3, <2>4 DEF Promise!vars, PhaseNow, JournalNow, SavedNow
<1>6. CASE f.type = "ack" /\ HandleAck(f.delivery)
  <2>1. Promise!Take(f.delivery) \/ UNCHANGED Promise!vars
    BY <1>1, <1>4, <1>6, AckKeepsPromise DEF Reports
  <2> QED BY <1>4, <1>6, <2>1 DEF Promise!Next, Reports
<1>7. CASE f.type = "result" /\ HandleResult(f.delivery)
  <2>1. \/ Promise!Answer(f.delivery)
        \/ Promise!Finish(f.delivery)
        \/ UNCHANGED Promise!vars
    BY <1>1, <1>4, <1>7, ResultKeepsPromise DEF Reports, Invariant
  <2> QED BY <1>4, <1>7, <2>1 DEF Promise!Next, Reports
<1>8. ASSUME NEW status \in Terminal, f.type \in {"idle", "error"},
             HandleEnd(f.delivery, status)
      PROVE  [Promise!Next]_(Promise!vars)
  <2>1. Promise!Finish(f.delivery) \/ UNCHANGED Promise!vars
    BY <1>1, <1>4, <1>8, EndKeepsPromise DEF Reports
  <2> QED BY <1>4, <1>8, <2>1 DEF Promise!Next, Reports
<1>9. CASE f.type = "stopping" /\ HandleStopping(c)
  <2>1. responses' = responses /\ deliveries' \in {deliveries, Requeued}
    BY <1>9 DEF HandleStopping, Finalize
  <2> QED
    BY <1>2, <2>1, RequeuedPhases DEF Promise!vars, PhaseNow, JournalNow, SavedNow
<1> QED BY <1>5, <1>6, <1>7, <1>8, <1>9 DEF ServerReceive, Terminal

\* Every step of the relay is a step of the promise, or none.
LEMMA StepKeepsPromise ==
  ASSUME TypeOK, TypeOK', Invariant, [Next]_vars
  PROVE  [Promise!Next]_(Promise!vars)
<1> USE DEF server, network, daemon
<1>1. ASSUME NEW m \in Messages, Request(m) PROVE [Promise!Next]_(Promise!vars)
  <2> DEFINE d == issued + 1
             status == IF connections # None THEN "sent" ELSE "queued"
  <2>1. d \in Deliveries
    BY <1>1, BoundsAssumption DEF Request, TypeOK, Deliveries
  <2>2. d > issued
    BY DEF TypeOK
  <2>3. PhaseNow[d] = "none"
    BY <2>1, <2>2, PhaseOfStatus DEF Invariant, Issued, Unknown, PhaseNow
  <2>4. /\ \A e \in Deliveries : e # d => deliveries'[e] = deliveries[e]
        /\ deliveries'[d].status = status
    BY <1>1, <2>1 DEF Request, TypeOK
  <2>5. status \in Statuses /\ PhaseOf(status) = "pending"
    BY PhaseOfStatus DEF Statuses, Active, Waiting
  <2>6. PhaseNow' = [PhaseNow EXCEPT ![d] = "pending"]
    <3> HIDE DEF d, status
    <3> QED BY <2>1, <2>4, <2>5, OnePhase
  <2>7. UNCHANGED <<responses, JournalNow, SavedNow>>
    BY <1>1 DEF Request, JournalNow, SavedNow
  <2>8. Promise!Request(d)
    BY <2>3, <2>6, <2>7 DEF Promise!Request, PhaseNow, JournalNow, SavedNow
  <2> QED BY <2>1, <2>8 DEF Promise!Next
<1>2. ASSUME NEW d \in Deliveries, Age(d) PROVE UNCHANGED Promise!vars
  <2>1. \A e \in Deliveries : deliveries'[e].status = deliveries[e].status
    BY <1>2 DEF Age, TypeOK, Delivery
  <2>2. PhaseNow' = PhaseNow
    BY <2>1 DEF PhaseNow
  <2>3. UNCHANGED <<responses, JournalNow, SavedNow>>
    BY <1>2 DEF Age, JournalNow, SavedNow
  <2> QED BY <2>2, <2>3 DEF Promise!vars, PhaseNow, JournalNow, SavedNow
<1>3. ASSUME NEW c \in Connections,
             Connect(c) \/ ServerLosesSocket(c) \/ GraceExpires(c)
      PROVE  UNCHANGED Promise!vars
  <2>1. deliveries' \in {deliveries, Requeued, Adopted}
    BY <1>3 DEF Connect, ServerLosesSocket, GraceExpires, Finalize
  <2>2. UNCHANGED <<responses, JournalNow, SavedNow>>
    BY <1>3 DEF Connect, ServerLosesSocket, GraceExpires, JournalNow, SavedNow
  <2> QED BY <2>1, <2>2, RequeuedPhases
          DEF Promise!vars, PhaseNow, JournalNow, SavedNow
<1>4. ASSUME NEW d \in Deliveries, DaemonAccepts(d)
      PROVE  Promise!Accept(d)
  <2>1. ledger \in [Deliveries -> LedgerRecord] /\ ledger' = Entered(d)
    BY <1>4 DEF DaemonAccepts, TypeOK
  <2>2. JournalNow' = JournalNow \cup {d}
    BY <2>1 DEF JournalNow, Entered, Duplicate, Terminal, LedgerRecord
  <2>3. UNCHANGED <<responses, PhaseNow, SavedNow>>
    BY <1>4 DEF DaemonAccepts, PhaseNow, SavedNow
  <2> QED BY <2>2, <2>3 DEF Promise!Accept, PhaseNow, JournalNow, SavedNow
<1>5. ASSUME NEW d \in Deliveries, Complete(d) \/ Fail(d)
      PROVE  UNCHANGED Promise!vars
  <2>1. ledger[d].status # "none"
    BY <1>5 DEF Complete, Fail, Invariant, Backed, Claimed, Ledgered
  <2>2. ledger \in [Deliveries -> LedgerRecord]
    BY DEF TypeOK
  <2>e. \A e \in Deliveries : e # d => ledger'[e] = ledger[e]
    BY <1>5, <2>2 DEF Complete, Fail
  <2>d. ledger'[d].status # "none"
    <3>1. CASE Complete(d)
      <4>1. PICK kept : ledger'[d] = [ledger[d] EXCEPT !.status = "completed",
                                                       !.result = kept]
        BY <2>2, <3>1 DEF Complete
      <4> QED BY <2>2, <4>1 DEF LedgerRecord
    <3>2. CASE Fail(d)
      BY <2>2, <3>2 DEF Fail, LedgerRecord
    <3> QED BY <1>5, <3>1, <3>2
  <2>3. JournalNow' = JournalNow
    BY <2>1, <2>d, <2>e DEF JournalNow
  <2>4. UNCHANGED <<responses, PhaseNow, SavedNow>>
    BY <1>5 DEF Complete, Fail, PhaseNow, SavedNow
  <2> QED BY <2>3, <2>4 DEF Promise!vars, PhaseNow, JournalNow, SavedNow
<1>6. CASE Persist
  <2>1. UNCHANGED <<responses, PhaseNow, JournalNow>>
    BY <1>6 DEF Persist, PhaseNow, JournalNow
  <2>2. SavedNow' = [phase |-> PhaseNow, answers |-> responses]
    BY <1>6 DEF Persist, PhaseNow, SavedNow
  <2>3. Promise!Save
    BY <2>1, <2>2 DEF Promise!Save, PhaseNow, JournalNow, SavedNow
  <2> QED BY <2>3 DEF Promise!Next
<1>7. CASE ServerRestart
  <2>1. UNCHANGED <<SavedNow, JournalNow>>
    BY <1>7 DEF ServerRestart, SavedNow, JournalNow
  <2>2. PhaseNow' = SavedNow.phase /\ responses' = SavedNow.answers
    BY <1>7 DEF ServerRestart, PhaseNow, SavedNow
  <2>3. Promise!Recover
    BY <2>1, <2>2 DEF Promise!Recover, PhaseNow, JournalNow, SavedNow
  <2> QED BY <2>3 DEF Promise!Next
<1>8. CASE UNCHANGED <<deliveries, responses, stored, ledger>>
  BY <1>8 DEF Promise!vars
<1> QED
  BY <1>1, <1>2, <1>3, <1>4, <1>5, <1>6, <1>7, <1>8, ReceiveKeepsPromise
     DEF Promise!Next, Next, vars, ServerSteps, DaemonSteps, DaemonAcks, Report,
         Break, DaemonGreets, DaemonLosesSocket, DaemonRestart

\* Whatever the network and the two processes do, the cloud's deliveries go
\* through their phases as DeliveryPromise has it: on word from the computer's
\* ledger, forward only except for a restart, and with one answer each.
THEOREM PromiseKept == Spec => KeepsPromise
<1>1. Init => Promise!Init
  BY PhaseOfStatus DEF Init, Promise!Init, Unknown, NoRecord
<1>2. TypeOK /\ TypeOK' /\ Invariant /\ [Next]_vars => [Promise!Next]_(Promise!vars)
  BY StepKeepsPromise
<1> QED
  BY <1>1, <1>2, TypeCorrect, InvariantHolds, PTL
     DEF Spec, KeepsPromise, Promise!Spec

--------------------------------------------------------------------------------
(* No waiting delivery is forgotten                                        *)

\* A frame is in a queue.
InQueue(f, queue) == \E i \in DOMAIN queue : queue[i] = f

Ready == Frame("ready", None)

\* The ready of connection c is outstanding; d is on its way to the daemon on c, or
\* its acknowledgement on its way back.  dq and sq are the queues of c, held the
\* delivery the daemon is entering.
ReadyDue(dq, sq) == InQueue(Connected, dq) \/ InQueue(Ready, sq)
OnItsWay(d, dq, sq, held) ==
  InQueue(Deliver(d), dq) \/ held = d \/ InQueue(Frame("ack", d), sq)

\* What holds of each delivery while the server has not restarted.
Unforgotten(d) ==
  /\ deliveries[d].status \in Waiting => ~ deliveries[d].acked
  /\ deliveries[d].status = "queued" /\ connections # None
       => \/ link[connections] = "down"
          \/ ReadyDue(toDaemon[connections], toServer[connections])
  /\ deliveries[d].status = "sent"
       => \/ pendingDisconnects # None
          \/ /\ connections # None
             /\ \/ link[connections] = "down"
                \/ OnItsWay(d, toDaemon[connections], toServer[connections], handling.delivery)

\* The connections the two sides name have been opened.
Opened ==
  /\ connections # None => link[connections] # "none"
  /\ socket # None => link[socket] # "none"

Remembered == Opened /\ (serverRestarts = 0 => \A d \in Deliveries : Unforgotten(d))

\* The same after a step.
UnforgottenNext(d) ==
  /\ deliveries'[d].status \in Waiting => ~ deliveries'[d].acked
  /\ deliveries'[d].status = "queued" /\ connections' # None
       => \/ link'[connections'] = "down"
          \/ ReadyDue(toDaemon'[connections'], toServer'[connections'])
  /\ deliveries'[d].status = "sent"
       => \/ pendingDisconnects' # None
          \/ /\ connections' # None
             /\ \/ link'[connections'] = "down"
                \/ OnItsWay(d, toDaemon'[connections'], toServer'[connections'], handling'.delivery)

\* The same after a step, in the words of the lemmas below.
LEMMA RememberedNext ==
  ASSUME Opened', serverRestarts' = 0 => \A d \in Deliveries : UnforgottenNext(d)
  PROVE  Remembered'
BY DEF Remembered, Unforgotten, UnforgottenNext, ReadyDue, OnItsWay, InQueue, Ready,
       Frame, Deliver, Connected

\* What is in a queue stays in it when more joins, and until it is read.
LEMMA QueueKeeps ==
  ASSUME NEW S, NEW queue \in Seq(S), NEW more \in Seq(S), NEW f
  PROVE  /\ InQueue(f, queue) => InQueue(f, queue \o more)
         /\ InQueue(f, more) => InQueue(f, queue \o more)
         /\ queue # <<>> /\ InQueue(f, queue) /\ f # Head(queue) => InQueue(f, Tail(queue))
         /\ queue # <<>> => InQueue(Head(queue), queue)
<1>1. /\ Len(queue) \in Nat /\ DOMAIN queue = 1 .. Len(queue)
      /\ Len(more) \in Nat /\ DOMAIN more = 1 .. Len(more)
  BY LenProperties
<1>2. /\ queue \o more \in Seq(S) /\ Len(queue \o more) = Len(queue) + Len(more)
      /\ \A i \in 1 .. Len(queue) + Len(more) :
           (queue \o more)[i] = IF i <= Len(queue) THEN queue[i] ELSE more[i - Len(queue)]
  BY ConcatProperties
<1>3. DOMAIN (queue \o more) = 1 .. Len(queue) + Len(more)
  BY <1>2, LenProperties
<1>4. InQueue(f, queue) => InQueue(f, queue \o more)
  BY <1>1, <1>2, <1>3 DEF InQueue
<1>5. ASSUME InQueue(f, more) PROVE InQueue(f, queue \o more)
  <2>1. PICK i \in 1 .. Len(more) : more[i] = f
    BY <1>1, <1>5 DEF InQueue
  <2>2. (queue \o more)[Len(queue) + i] = f /\ Len(queue) + i \in 1 .. Len(queue) + Len(more)
    BY <1>1, <1>2, <2>1
  <2>3. QED BY <1>3, <2>2 DEF InQueue
<1>6. ASSUME queue # <<>>
      PROVE  /\ InQueue(Head(queue), queue)
             /\ InQueue(f, queue) /\ f # Head(queue) => InQueue(f, Tail(queue))
  <2>1. Len(queue) # 0
    BY <1>6, EmptySeq
  <2>2. /\ Tail(queue) \in Seq(S) /\ Len(Tail(queue)) = Len(queue) - 1
        /\ \A i \in 1 .. Len(Tail(queue)) : Tail(queue)[i] = queue[i + 1]
    BY <1>6, HeadTailProperties
  <2>3. DOMAIN Tail(queue) = 1 .. Len(queue) - 1
    BY <2>2, LenProperties
  <2>4. Head(queue) = queue[1] /\ 1 \in 1 .. Len(queue)
    BY <1>1, <2>1
  <2>5. InQueue(Head(queue), queue)
    BY <1>1, <2>4 DEF InQueue
  <2>6. ASSUME InQueue(f, queue), f # Head(queue)  PROVE InQueue(f, Tail(queue))
    <3>1. PICK i \in 1 .. Len(queue) : queue[i] = f
      BY <1>1, <2>6 DEF InQueue
    <3>2. i # 1
      BY <2>4, <2>6, <3>1
    <3>3. i - 1 \in 1 .. Len(queue) - 1 /\ Tail(queue)[i - 1] = queue[i]
      <4>1. i - 1 \in 1 .. Len(queue) - 1 /\ (i - 1) + 1 = i
        BY <1>1, <3>1, <3>2
      <4>2. QED BY <2>2, <4>1
    <3>4. QED BY <2>3, <3>1, <3>3 DEF InQueue
  <2>7. QED BY <2>5, <2>6
<1>7. QED BY <1>4, <1>5, <1>6

\* The deliveries of a replay are all in it.
LEMMA ReplayHasAll ==
  ASSUME NEW ds \in SUBSET Deliveries, NEW order \in InIssueOrder(ds), NEW d \in ds
  PROVE  InQueue(Deliver(d), [i \in 1 .. Cardinality(ds) |-> Deliver(order[i])])
<1>1. IsFiniteSet(ds)
  <2>1. IsFiniteSet(Deliveries)
    BY FS_Interval, BoundsAssumption DEF Deliveries
  <2>2. QED BY <2>1, FS_Subset
<1>2. PICK n \in Nat : n = Cardinality(ds)
  BY <1>1, FS_CardinalityType
<1>3. /\ order \in [1 .. n -> ds]
      /\ \A i, j \in 1 .. n : i < j => order[i] < order[j]
  BY <1>2 DEF InIssueOrder
<1>4. order \in Injection(1 .. n, ds)
  <2>1. \A i \in 1 .. n : order[i] \in Int
    <3>1. Deliveries \subseteq Int
      BY BoundsAssumption DEF Deliveries
    <3>2. ds \subseteq Int
      BY <3>1
    <3>3. QED BY <1>3, <3>2
  <2>2. \A i, j \in 1 .. n : order[i] = order[j] => i = j
    BY <1>3, <2>1
  <2>3. QED BY <1>3, <2>2 DEF Injection, IsInjective
<1>5. IsFiniteSet(1 .. n) /\ Cardinality(1 .. n) = n
  BY FS_Interval
<1>6. order \in Surjection(1 .. n, ds)
  BY <1>1, <1>2, <1>4, <1>5, FS_Injection
<1>7. PICK i \in 1 .. n : order[i] = d
  BY <1>6 DEF Surjection
<1>8. QED BY <1>2, <1>7 DEF InQueue

\* What was outstanding on connection c still is, or the connection has been cut.
Carries(c) ==
  \/ link'[c] = "down"
  \/ /\ ReadyDue(toDaemon[c], toServer[c]) => ReadyDue(toDaemon'[c], toServer'[c])
     /\ \A d \in Deliveries :
          OnItsWay(d, toDaemon[c], toServer[c], handling.delivery)
            => OnItsWay(d, toDaemon'[c], toServer'[c], handling'.delivery)

\* What the daemon sends on its connection joins what is there.
LEMMA DaemonSendsMore ==
  ASSUME TypeOK, NEW c \in Connections, socket = c, link[c] = "up",
         NEW frames \in Seq(DaemonFrame), DaemonSends(frames), NEW f
  PROVE  InQueue(f, toServer[c]) \/ InQueue(f, frames) => InQueue(f, toServer'[c])
<1>1. toServer[c] \in Seq(DaemonFrame)
  BY DEF TypeOK
<1>2. toServer'[c] = toServer[c] \o frames
  BY DEF DaemonSends, TypeOK, None, Connections
<1>3. QED BY <1>1, <1>2, QueueKeeps

\* The daemon and the network lose what is outstanding on the current connection
\* only with the connection.
LEMMA DaemonCarries ==
  ASSUME TypeOK, OneConnection, [Next]_vars, NEW c \in Connections, link[c] # "none",
         \/ DaemonGreets \/ DaemonLosesSocket
         \/ DaemonRestart(<<>>) \/ DaemonRestart(Stopping)
         \/ \E d \in Deliveries : DaemonSteps(d)
         \/ \E b \in Connections : Break(b)
  PROVE  Carries(c)
<1>1. CASE link[c] = "down"
  BY <1>1, DownStays DEF Carries
<1>2. CASE link[c] = "up"
  <2>1. /\ socket = c /\ c # None
        /\ toDaemon[c] \in Seq(ServerFrame) /\ toServer[c] \in Seq(DaemonFrame)
    BY <1>2 DEF OneConnection, TypeOK, Connections, None
  <2>2. CASE DaemonGreets
    <3>1. /\ toDaemon[c] # <<>> /\ Head(toDaemon[c]) = Connected
          /\ toDaemon'[c] = Tail(toDaemon[c]) /\ DaemonSends(<<Ready>>)
          /\ handling' = handling
      BY <2>1, <2>2 DEF DaemonGreets, TypeOK, Ready, daemon
    <3>2. <<Ready>> \in Seq(DaemonFrame)
      BY FrameTypes DEF Ready, Notices
    <3>3. InQueue(Ready, <<Ready>>)
      BY DEF InQueue
    <3>4. ReadyDue(toDaemon'[c], toServer'[c])
      BY <1>2, <2>1, <3>1, <3>2, <3>3, DaemonSendsMore DEF ReadyDue
    <3>5. \A d \in Deliveries : Deliver(d) # Connected
      BY DEF Deliver, Connected
    <3>6. \A d \in Deliveries :
            /\ InQueue(Deliver(d), toDaemon[c]) => InQueue(Deliver(d), toDaemon'[c])
            /\ InQueue(Frame("ack", d), toServer[c]) => InQueue(Frame("ack", d), toServer'[c])
      BY <1>2, <2>1, <3>1, <3>2, <3>5, DaemonSendsMore, QueueKeeps
    <3>7. QED BY <3>1, <3>4, <3>6 DEF Carries, OnItsWay
  <2>3. ASSUME NEW e \in Deliveries, DaemonAccepts(e) PROVE Carries(c)
    <3>1. /\ toDaemon[c] # <<>> /\ Head(toDaemon[c]) = Deliver(e)
          /\ toDaemon'[c] = Tail(toDaemon[c]) /\ toServer' = toServer
          /\ handling = NoAcceptance /\ handling'.delivery = e
      BY <2>1, <2>3 DEF DaemonAccepts, TypeOK
    <3>2. Connected # Deliver(e) /\ \A d \in Deliveries : d # e => Deliver(d) # Deliver(e)
      BY DEF Deliver, Connected
    <3>3. \A d \in Deliveries : handling.delivery # d
      BY <3>1 DEF NoAcceptance, None, Deliveries
    <3>4. /\ InQueue(Connected, toDaemon[c]) => InQueue(Connected, toDaemon'[c])
          /\ \A d \in Deliveries : d # e /\ InQueue(Deliver(d), toDaemon[c])
               => InQueue(Deliver(d), toDaemon'[c])
      BY <2>1, <3>1, <3>2, QueueKeeps
    <3>5. QED BY <3>1, <3>3, <3>4 DEF Carries, ReadyDue, OnItsWay
  <2>4. ASSUME NEW e \in Deliveries, DaemonAcks(e) PROVE Carries(c)
    <3>1. /\ handling.delivery = e /\ DaemonSends(AckFrames(e)) /\ toDaemon' = toDaemon
      BY <2>4 DEF DaemonAcks
    <3>2. AckFrames(e) \in Seq(DaemonFrame)
      BY FrameTypes DEF AckFrames, Reports
    <3>3. InQueue(Frame("ack", e), AckFrames(e))
      BY DEF AckFrames, InQueue
    <3>4. \A f : InQueue(f, toServer[c]) \/ InQueue(f, AckFrames(e)) => InQueue(f, toServer'[c])
      BY <1>2, <2>1, <3>1, <3>2, DaemonSendsMore
    <3>5. QED BY <3>1, <3>3, <3>4 DEF Carries, ReadyDue, OnItsWay
  <2>5. ASSUME NEW e \in Deliveries, Report(e) \/ Complete(e) \/ Fail(e) PROVE Carries(c)
    <3>1. PICK type \in Reports : DaemonSends(<<Frame(type, e)>>)
      BY <2>5 DEF Report, Complete, Fail, Reports
    <3>2. toDaemon' = toDaemon /\ handling' = handling
      BY <2>5 DEF Report, Complete, Fail
    <3>3. <<Frame(type, e)>> \in Seq(DaemonFrame)
      BY FrameTypes
    <3>4. \A f : InQueue(f, toServer[c]) => InQueue(f, toServer'[c])
      BY <1>2, <2>1, <3>1, <3>3, DaemonSendsMore
    <3>5. QED BY <3>2, <3>4 DEF Carries, ReadyDue, OnItsWay
  <2>6. CASE DaemonLosesSocket
    BY <1>2, <2>1, <2>6 DEF DaemonLosesSocket
  <2>7. ASSUME NEW notice, DaemonRestart(notice) PROVE Carries(c)
    BY <1>2, <2>1, <2>7 DEF DaemonRestart, Carries, TypeOK
  <2>8. ASSUME NEW b \in Connections, Break(b) PROVE Carries(c)
    <3>1. CASE b = c
      BY <2>8, <3>1 DEF Break, Carries, TypeOK
    <3>2. CASE b # c
      BY <2>8, <3>2 DEF Break, Carries, daemon, ReadyDue, OnItsWay
    <3>3. QED BY <3>1, <3>2
  <2>9. QED BY <2>2, <2>3, <2>4, <2>5, <2>6, <2>7, <2>8 DEF DaemonSteps
<1>3. QED BY <1>1, <1>2 DEF TypeOK

\* Opened connections stay so, and only those are named.
LEMMA OpenedStep ==
  ASSUME TypeOK, Opened, [Next]_vars
  PROVE  Opened'
<1> USE DEF Opened, server, network, daemon
<1>1. \A c \in Connections : link[c] # "none" => link'[c] # "none"
  <2>1. ASSUME NEW b \in Connections, Connect(b) \/ Break(b)
        PROVE  \A c \in Connections : link[c] # "none" => link'[c] # "none"
    BY <2>1 DEF Connect, Break, TypeOK
  <2>2. ASSUME NEW notice, DaemonRestart(notice)
        PROVE  \A c \in Connections : link[c] # "none" => link'[c] # "none"
    BY <2>2 DEF DaemonRestart, TypeOK
  <2>3. CASE ServerRestart
    BY <2>3 DEF ServerRestart
  <2>4. CASE UNCHANGED link
    BY <2>4
  <2>5. QED
    BY <2>1, <2>2, <2>3, <2>4
       DEF Next, vars, ServerSteps, DaemonSteps, Request, Age, ServerLosesSocket, GraceExpires,
           ServerReceive, DaemonAccepts, DaemonAcks, Report, Complete, Fail, DaemonGreets,
           DaemonLosesSocket, Persist
<1>2. /\ socket' \in {socket, None} \/ (socket' \in Connections /\ link'[socket'] # "none")
      /\ connections' \in {connections, None}
           \/ (connections' \in Connections /\ link'[connections'] # "none")
  <2>1. ASSUME NEW b \in Connections, Connect(b)
        PROVE  socket' \in Connections /\ link'[socket'] # "none" /\ connections' = socket'
    BY <2>1 DEF Connect, TypeOK
  <2>2. ASSUME NEW b \in Connections, ServerLosesSocket(b) \/ GraceExpires(b) \/ ServerReceive(b)
        PROVE  socket' = socket /\ connections' \in {connections, None}
    BY <2>2 DEF ServerLosesSocket, Disconnected, GraceExpires, Finalize, ServerReceive,
                HandleReady, HandleAck, HandleResult, HandleEnd, HandleStopping
  <2>3. CASE socket' \in {socket, None} /\ connections' \in {connections, None}
    BY <2>3
  <2>4. QED
    BY <2>1, <2>2, <2>3
       DEF Next, vars, ServerSteps, DaemonSteps, Request, Age, Break, DaemonAccepts, DaemonAcks,
           Report, Complete, Fail, DaemonGreets, DaemonLosesSocket, DaemonRestart, Persist,
           ServerRestart
<1>3. QED BY <1>1, <1>2 DEF TypeOK

\* A requeued delivery waits unsent.
LEMMA RequeuedWaits ==
  ASSUME TypeOK, Remembered, serverRestarts = 0, NEW d \in Deliveries
  PROVE  /\ Requeued[d].status # "sent"
         /\ Requeued[d].status \in Waiting => ~ Requeued[d].acked
BY DEF TypeOK, Remembered, Unforgotten, Requeued, Waiting, Delivery

\* Ending a grace or a connection requeues what was sent.
LEMMA FinalizeRemembers ==
  ASSUME TypeOK, GraceMeansGone, Remembered, serverRestarts = 0, NEW c \in Connections,
         Finalize(c), pendingDisconnects = c \/ link[c] = "down",
         UNCHANGED <<link, toDaemon, handling>>,
         \A b \in Connections : b # c => toServer'[b] = toServer[b],
         NEW d \in Deliveries
  PROVE  UnforgottenNext(d)
<1>1. c # None
  BY DEF Connections, None
<1>2. CASE connections \notin {None, c}
  <2>1. /\ UNCHANGED <<connections, deliveries, pendingDisconnects>>
        /\ toServer'[connections] = toServer[connections]
    BY <1>1, <1>2 DEF Finalize, GraceMeansGone, TypeOK
  <2>2. QED BY <2>1 DEF Remembered, Unforgotten, UnforgottenNext
<1>3. CASE connections \in {None, c}
  BY <1>3, RequeuedWaits DEF Finalize, UnforgottenNext
<1>4. QED BY <1>2, <1>3

\* A frame that is read takes nothing else off its queue.
LEMMA ReadOn ==
  ASSUME TypeOK, Backed, NEW c \in Connections, ServerReceive(c), NEW f
  PROVE  /\ \A b \in Connections : b # c => toServer'[b] = toServer[b]
         /\ \A b \in Connections : InQueue(f, toServer[b]) /\ f # Head(toServer[c])
              => InQueue(f, toServer'[b])
<1>1. /\ toServer[c] # <<>> /\ toServer' = [toServer EXCEPT ![c] = Tail(@)]
      /\ toServer \in [Connections -> Seq(DaemonFrame)]
  BY DEF ServerReceive, TypeOK
<1>2. InQueue(f, toServer[c]) /\ f # Head(toServer[c]) => InQueue(f, Tail(toServer[c]))
  BY <1>1, QueueKeeps
<1>3. QED BY <1>1, <1>2

\* A ready sends all that waits, on the connection of the moment.
LEMMA ReadyRemembers ==
  ASSUME TypeOK, Invariant, Remembered, serverRestarts = 0, NEW c \in Connections,
         ServerReceive(c), Head(toServer[c]).type = "ready", HandleReady,
         NEW d \in Deliveries
  PROVE  UnforgottenNext(d)
<1> DEFINE due == {e \in Deliveries : RetryReady(e)}
<1>1. UNCHANGED <<connections, pendingDisconnects, link, handling>>
  BY DEF HandleReady, ServerReceive, daemon
<1>2. Unforgotten(d) /\ deliveries[d] \in Delivery
  BY DEF Remembered, TypeOK
<1>3. Frame("ack", d) # Head(toServer[c])
  BY DEF Frame
<1>4. \A b \in Connections :
        InQueue(Frame("ack", d), toServer[b]) => InQueue(Frame("ack", d), toServer'[b])
  BY <1>3, ReadOn DEF Invariant
<1>5. CASE connections = None
  BY <1>1, <1>2, <1>5 DEF HandleReady, Unforgotten, UnforgottenNext
<1>6. CASE connections # None
  <2>1. PICK order \in InIssueOrder(due) :
          ServerSends([i \in 1 .. Cardinality(due) |-> Deliver(order[i])])
    BY <1>6 DEF HandleReady
  <2>2. PICK replay : replay = [i \in 1 .. Cardinality(due) |-> Deliver(order[i])]
    OBVIOUS
  <2>3. replay \in Seq(ServerFrame) /\ \A e \in due : InQueue(Deliver(e), replay)
    BY <2>2, ReplayFrames, ReplayHasAll
  <2>4. deliveries'[d] = IF d \in due
                         THEN [deliveries[d] EXCEPT !.status = "sent", !.stale = FALSE]
                         ELSE deliveries[d]
    BY <1>6 DEF HandleReady
  <2>5. connections \in Connections /\ toDaemon \in [Connections -> Seq(ServerFrame)]
    BY <1>6 DEF TypeOK
  <2>6. link[connections] \in {"up", "down"}
    BY <1>6, <2>5 DEF TypeOK, Remembered, Opened
  <2>7. ASSUME link[connections] = "up"
        PROVE  /\ d \in due => InQueue(Deliver(d), toDaemon'[connections])
               /\ InQueue(Deliver(d), toDaemon[connections]) => InQueue(Deliver(d), toDaemon'[connections])
    <3>1. toDaemon'[connections] = toDaemon[connections] \o replay
      BY <1>6, <2>1, <2>2, <2>5, <2>7 DEF ServerSends
    <3>2. QED BY <2>3, <2>5, <3>1, QueueKeeps
  <2>8. deliveries[d].status = "queued" => d \in due
    BY DEF RetryReady
  <2>9. CASE d \in due
    <3>1. deliveries[d].status \in Waiting /\ ~ deliveries[d].acked
      BY <1>2, <2>9 DEF RetryReady, Waiting, Unforgotten
    <3>2. deliveries'[d].status = "sent" /\ ~ deliveries'[d].acked
      BY <1>2, <2>4, <2>9, <3>1 DEF Delivery
    <3>3. QED BY <1>1, <1>6, <2>6, <2>7, <2>9, <3>2 DEF UnforgottenNext, OnItsWay
  <2>10. CASE d \notin due
    <3>1. deliveries'[d] = deliveries[d] /\ deliveries[d].status # "queued"
      BY <2>4, <2>8, <2>10
    <3>2. OnItsWay(d, toDaemon[connections], toServer[connections], handling.delivery)
             /\ link[connections] = "up"
          => OnItsWay(d, toDaemon'[connections], toServer'[connections], handling'.delivery)
      BY <1>1, <1>4, <2>5, <2>7 DEF OnItsWay
    <3>3. QED BY <1>1, <1>2, <1>6, <2>6, <3>1, <3>2 DEF Unforgotten, UnforgottenNext
  <2>11. QED BY <2>9, <2>10
<1>7. QED BY <1>5, <1>6

\* A report changes its delivery only, and ends its waiting.
LEMMA ReportRemembers ==
  ASSUME TypeOK, Invariant, Remembered, serverRestarts = 0, NEW c \in Connections,
         ServerReceive(c), Head(toServer[c]).type \in Reports,
         NEW d \in Deliveries
  PROVE  UnforgottenNext(d)
<1>1. PICK e \in Deliveries : e = Head(toServer[c]).delivery
  BY HeadJustified DEF Invariant, ServerReceive
<1>2. /\ UNCHANGED <<connections, pendingDisconnects, link, handling, toDaemon>>
      /\ \/ deliveries' = Acked(e)
         \/ \E status \in Terminal : deliveries' = Finished(e, status)
  BY <1>1 DEF ServerReceive, HandleAck, HandleResult, HandleEnd, Reports, Terminal, daemon
<1>3. deliveries'[d] = deliveries[d] \/ deliveries'[d].status \in {"acked"} \cup Terminal
      \/ deliveries'[d].status = "none"
  BY <1>2 DEF Acked, Finished, TypeOK, Delivery
<1>4. d # e \/ deliveries'[d].status \notin Waiting
  <2>1. CASE deliveries[e].status = "none"
    BY <1>2, <2>1 DEF Acked, Finished, Waiting
  <2>2. CASE deliveries[e].status # "none"
    <3>1. deliveries'[e].status \in {"acked"} \cup Terminal
      BY <1>2, <2>2 DEF Acked, Finished, TypeOK, Delivery
    <3>2. QED BY <3>1 DEF Waiting, Terminal
  <2>3. QED BY <2>1, <2>2
<1>5. CASE deliveries'[d].status \notin Waiting
  BY <1>5 DEF UnforgottenNext, Waiting
<1>6. CASE d # e /\ deliveries'[d].status \in Waiting
  <2>1. deliveries'[d] = deliveries[d]
    BY <1>3, <1>6 DEF Waiting, Terminal
  <2>2. Frame("ack", d) # Head(toServer[c]) /\ Ready # Head(toServer[c])
    BY <1>1, <1>6 DEF Frame, Ready, Reports
  <2>3. \A b \in Connections :
          /\ InQueue(Frame("ack", d), toServer[b]) => InQueue(Frame("ack", d), toServer'[b])
          /\ InQueue(Ready, toServer[b]) => InQueue(Ready, toServer'[b])
    BY <2>2, ReadOn DEF Invariant
  <2>4. connections # None => connections \in Connections
    BY DEF TypeOK
  <2>5. Unforgotten(d)
    BY DEF Remembered
  <2>6. QED BY <1>2, <2>1, <2>3, <2>4, <2>5 DEF Unforgotten, UnforgottenNext, ReadyDue, OnItsWay
<1>7. QED BY <1>4, <1>5, <1>6

\* A new delivery is on its way, or waits until the computer is back.
LEMMA RequestRemembers ==
  ASSUME TypeOK, TypeOK', Remembered, serverRestarts = 0, NEW m \in Messages, Request(m),
         NEW d \in Deliveries
  PROVE  UnforgottenNext(d)
<1> DEFINE new == issued + 1
<1>1. new \in Deliveries /\ Deliver(new) \in ServerFrame
  BY BoundsAssumption, FrameTypes DEF Request, TypeOK, Deliveries
<1> HIDE DEF new
<1>2. /\ deliveries' = [deliveries EXCEPT ![new] =
           [status |-> IF connections # None THEN "sent" ELSE "queued",
            message |-> m, acked |-> FALSE, stale |-> FALSE]]
      /\ ServerSends(<<Deliver(new)>>)
      /\ UNCHANGED <<connections, pendingDisconnects, link, toServer, handling>>
  BY DEF Request, daemon, new
<1>3. /\ connections # None => connections \in Connections /\ link[connections] \in {"up", "down"}
      /\ toDaemon \in [Connections -> Seq(ServerFrame)] /\ deliveries \in [Deliveries -> Delivery]
  BY DEF TypeOK, Remembered, Opened
<1>4. ASSUME connections # None, link[connections] = "up"
      PROVE  /\ InQueue(Deliver(new), toDaemon'[connections])
             /\ \A f : InQueue(f, toDaemon[connections]) => InQueue(f, toDaemon'[connections])
  <2>1. toDaemon'[connections] = toDaemon[connections] \o <<Deliver(new)>>
    BY <1>2, <1>3, <1>4 DEF ServerSends
  <2>2. <<Deliver(new)>> \in Seq(ServerFrame) /\ InQueue(Deliver(new), <<Deliver(new)>>)
    BY <1>1 DEF InQueue
  <2>3. QED BY <1>3, <1>4, <2>1, <2>2, QueueKeeps
<1>5. CASE d = new
  <2>1. /\ ~ deliveries'[d].acked
        /\ deliveries'[d].status = IF connections # None THEN "sent" ELSE "queued"
    BY <1>1, <1>2, <1>3, <1>5
  <2>2. QED BY <1>2, <1>3, <1>4, <1>5, <2>1 DEF UnforgottenNext, OnItsWay
<1>6. CASE d # new
  <2>1. deliveries'[d] = deliveries[d] /\ Unforgotten(d)
    BY <1>2, <1>3, <1>6 DEF Remembered
  <2>2. QED BY <1>2, <1>3, <1>4, <2>1 DEF Unforgotten, UnforgottenNext, OnItsWay, ReadyDue
<1>7. QED BY <1>5, <1>6

\* A new connection asks for its ready, and takes over what was sent on the last.
LEMMA ConnectRemembers ==
  ASSUME TypeOK, Remembered, serverRestarts = 0, NEW c \in Connections, Connect(c),
         NEW d \in Deliveries
  PROVE  UnforgottenNext(d)
<1>1. /\ connections' = c /\ deliveries' = Adopted /\ toDaemon'[c] = <<Connected>>
      /\ toServer' = toServer
  BY DEF Connect, TypeOK
<1>2. ReadyDue(toDaemon'[c], toServer'[c])
  BY <1>1 DEF ReadyDue, InQueue
<1>3. deliveries'[d].status # "sent" /\ (deliveries'[d].status \in Waiting => ~ deliveries'[d].acked)
  <2>1. CASE pendingDisconnects # None \/ connections # None
    BY <1>1, <2>1, RequeuedWaits DEF Adopted
  <2>2. CASE ~ (pendingDisconnects # None \/ connections # None)
    BY <1>1, <2>2 DEF Adopted, Remembered, Unforgotten
  <2>3. QED BY <2>1, <2>2
<1>4. QED BY <1>1, <1>2, <1>3 DEF UnforgottenNext

\* Every step remembers what waits.
LEMMA RememberedStep ==
  ASSUME TypeOK, TypeOK', Invariant, Remembered, [Next]_vars
  PROVE  Remembered'
<1> USE DEF server, network, daemon
<1>1. Opened'
  BY OpenedStep DEF Remembered
<1>2. ASSUME serverRestarts' = 0, NEW d \in Deliveries  PROVE UnforgottenNext(d)
  <2>1. serverRestarts = 0 /\ ~ ServerRestart
    <3>1. serverRestarts' \in {serverRestarts, serverRestarts + 1}
      BY DEF Next, vars, ServerSteps, DaemonSteps, Request, Age, Connect, ServerLosesSocket,
             GraceExpires, ServerReceive, Break, DaemonAccepts, DaemonAcks, Report, Complete, Fail,
             DaemonGreets, DaemonLosesSocket, DaemonRestart, Persist, ServerRestart
    <3>2. serverRestarts \in Nat
      BY BoundsAssumption DEF TypeOK
    <3>3. QED BY <1>2, <3>1, <3>2 DEF ServerRestart
  <2>2. Unforgotten(d)
    BY <2>1 DEF Remembered
  <2>3. CASE \E m \in Messages : Request(m)
    BY <2>1, <2>3, RequestRemembers
  <2>4. ASSUME NEW e \in Deliveries, Age(e) PROVE UnforgottenNext(d)
    <3>1. /\ deliveries'[d].status = deliveries[d].status
          /\ deliveries'[d].acked = deliveries[d].acked
          /\ UNCHANGED <<connections, pendingDisconnects, network, daemon>>
      BY <2>4 DEF Age, TypeOK, Delivery
    <3>2. QED BY <2>2, <3>1 DEF Unforgotten, UnforgottenNext
  <2>5. ASSUME NEW c \in Connections, Connect(c) PROVE UnforgottenNext(d)
    BY <2>1, <2>5, ConnectRemembers
  <2>6. ASSUME NEW c \in Connections, ServerLosesSocket(c) PROVE UnforgottenNext(d)
    <3>1. /\ link[c] = "down" /\ Disconnected(c) /\ toServer' = [toServer EXCEPT ![c] = <<>>]
          /\ UNCHANGED <<deliveries, link, toDaemon, handling>>
      BY <2>6 DEF ServerLosesSocket
    <3>2. CASE connections = c
      <4>1. connections' = None /\ pendingDisconnects' # None
        BY <3>1, <3>2 DEF Disconnected, None, Connections
      <4>2. QED BY <2>2, <3>1, <4>1 DEF Unforgotten, UnforgottenNext
    <3>3. CASE connections # c
      <4>1. UNCHANGED <<connections, pendingDisconnects>>
        BY <3>1, <3>3 DEF Disconnected
      <4>2. connections # None => toServer'[connections] = toServer[connections]
        BY <3>1, <3>3 DEF TypeOK
      <4>3. QED BY <2>2, <3>1, <4>1, <4>2 DEF Unforgotten, UnforgottenNext
    <3>4. QED BY <3>2, <3>3
  <2>7. ASSUME NEW c \in Connections, GraceExpires(c) PROVE UnforgottenNext(d)
    BY <2>1, <2>7, FinalizeRemembers DEF GraceExpires, Invariant
  <2>8. ASSUME NEW c \in Connections, ServerReceive(c) PROVE UnforgottenNext(d)
    <3>1. CASE Head(toServer[c]).type = "ready" /\ HandleReady
      BY <2>1, <2>8, <3>1, ReadyRemembers
    <3>2. CASE Head(toServer[c]).type \in Reports
      BY <2>1, <2>8, <3>2, ReportRemembers
    <3>3. CASE Head(toServer[c]).type = "stopping" /\ HandleStopping(c)
      <4>1. link[c] = "down"
        BY <2>8, <3>3, HeadJustified DEF Invariant, ServerReceive
      <4>2. \A b \in Connections : b # c => toServer'[b] = toServer[b]
        BY <2>8, ReadOn DEF Invariant
      <4>3. Finalize(c) /\ UNCHANGED <<link, toDaemon, handling>>
        BY <2>8, <3>3 DEF HandleStopping, ServerReceive
      <4>4. QED BY <2>1, <4>1, <4>2, <4>3, FinalizeRemembers DEF Invariant
    <3>4. QED BY <2>8, <3>1, <3>2, <3>3 DEF ServerReceive, Reports
  <2>9. CASE \/ DaemonGreets \/ DaemonLosesSocket
             \/ DaemonRestart(<<>>) \/ DaemonRestart(Stopping)
             \/ \E e \in Deliveries : DaemonSteps(e)
             \/ \E b \in Connections : Break(b)
    <3>1. UNCHANGED <<deliveries, connections, pendingDisconnects>>
      BY <2>9 DEF DaemonGreets, DaemonLosesSocket, DaemonRestart, DaemonSteps, Break,
                  DaemonAccepts, DaemonAcks, Report, Complete, Fail
    <3>2. CASE connections = None
      BY <2>2, <3>1, <3>2 DEF Unforgotten, UnforgottenNext
    <3>3. CASE connections # None
      <4>1. connections \in Connections /\ link[connections] # "none"
        BY <3>3 DEF TypeOK, Remembered, Opened
      <4>2. Carries(connections)
        BY <2>9, <4>1, DaemonCarries DEF Invariant
      <4>3. link[connections] = "down" => link'[connections] = "down"
        BY <4>1, DownStays
      <4>4. QED BY <2>2, <3>1, <4>2, <4>3 DEF Unforgotten, UnforgottenNext, Carries
    <3>4. QED BY <3>2, <3>3
  <2>10. CASE Persist \/ UNCHANGED vars
    <3>1. UNCHANGED <<deliveries, connections, pendingDisconnects, network, handling>>
      BY <2>10 DEF Persist, vars
    <3>2. QED BY <2>2, <3>1 DEF Unforgotten, UnforgottenNext
  <2>11. QED
    BY <2>1, <2>3, <2>4, <2>5, <2>6, <2>7, <2>8, <2>9, <2>10 DEF Next, ServerSteps
<1>3. QED BY <1>1, <1>2, RememberedNext

\* While the server has not restarted, a waiting delivery is never forgotten: the
\* ready of its connection will send it, it or its acknowledgement is on its way,
\* or the server will learn that the connection is gone and queue it again
\* (requeueUnackedSentDeliveries, replayQueued).
THEOREM WaitingIsRemembered == Spec => [](serverRestarts = 0 => NothingStranded)
<1>1. Init => Remembered
  BY DEF Init, Remembered, Opened, Unforgotten, Unknown, Waiting
<1>2. TypeOK /\ TypeOK' /\ Invariant /\ Remembered /\ [Next]_vars => Remembered'
  BY RememberedStep
<1>3. TypeOK /\ Remembered => (serverRestarts = 0 => NothingStranded)
  <2> SUFFICES ASSUME TypeOK, Remembered, serverRestarts = 0, NEW d \in Deliveries
               PROVE
        /\ deliveries[d].status = "queued" /\ connections # None
             => link[connections] = "down" \/ ReadyOutstanding(connections)
        /\ deliveries[d].status = "sent"
             => \/ pendingDisconnects # None
                \/ /\ connections # None
                   /\ link[connections] = "down" \/ Underway(d, connections)
    BY DEF NothingStranded
  <2>1. Unforgotten(d)
    BY DEF Remembered
  <2>2. \A c : ReadyDue(toDaemon[c], toServer[c]) => ReadyOutstanding(c)
    BY DEF ReadyDue, ReadyOutstanding, InQueue, Ready, Frame
  <2>3. \A c : OnItsWay(d, toDaemon[c], toServer[c], handling.delivery) => Underway(d, c)
    BY DEF OnItsWay, Underway, InQueue
  <2>4. QED BY <2>1, <2>2, <2>3 DEF Unforgotten
<1>4. QED BY <1>1, <1>2, <1>3, TypeCorrect, InvariantHolds, PTL DEF Spec
=============================================================================
