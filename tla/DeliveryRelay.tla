----------------------------- MODULE DeliveryRelay -----------------------------
(***************************************************************************)
(* The delivery of chat messages to the agent of one connected computer:   *)
(* the relay of the cloud server (server/cloud/daemon-relay.js), the       *)
(* daemon on the computer (cli-core/src/cli.js) and the WebSocket          *)
(* connections between them.                                               *)
(*                                                                         *)
(* Server and daemon are single-threaded: a step is what one of them does  *)
(* between two awaits.  Connections are numbered in the order the daemon   *)
(* opens them and deliveries in the order the server issues them; a frame  *)
(* is lost with the connection that carries it.  A daemon and a server may *)
(* each stop and come back, the daemon with its ledger file, the server    *)
(* with the state it last persisted.                                       *)
(***************************************************************************)
EXTENDS Naturals, Sequences, FiniteSets

CONSTANTS
  Messages,            \* the chat messages addressed to the agent
  NoMessage,           \* the message of a delivery the server does not know
  MaxDeliveries,       \* bound: deliveries the server issues
  MaxConnections,      \* bound: connections the daemon opens
  MaxRuns,             \* bound: runs of the daemon process
  MaxServerRestarts    \* bound: restarts of the server

ASSUME BoundsAssumption ==
  /\ MaxDeliveries \in Nat
  /\ MaxConnections \in Nat \ {0}
  /\ MaxRuns \in Nat \ {0}
  /\ MaxServerRestarts \in Nat
  /\ NoMessage \notin Messages

None == 0                            \* no delivery, no connection
Deliveries == 1..MaxDeliveries
Connections == 1..MaxConnections

VARIABLES
  (* the server *)
  deliveries,          \* cloud().agentDeliveries
  issued,              \* how many deliveries it has issued, over all restarts
  responses,           \* how many answers to a delivery are in the chat
  connections,         \* the computer's entry in `connections`
  pendingDisconnects,  \* the connection whose reconnect grace is running
  stored,              \* the deliveries and responses last persisted
  serverRestarts,
  (* the network *)
  link,                \* a connection: not opened yet, up or down
  toDaemon,            \* frames on their way to the daemon
  toServer,            \* frames on their way to the server
  (* the daemon *)
  run,                 \* daemonRunId
  socket,              \* this.socket
  ledger,              \* the delivery ledger file
  handling,            \* the delivery in the ledger but not acknowledged yet
  session,             \* what the agent session is doing with a delivery
  executions           \* history: how often a session was given a delivery

server == <<deliveries, issued, responses, connections, pendingDisconnects,
            stored, serverRestarts>>
network == <<link, toDaemon, toServer>>
daemon == <<run, socket, ledger, handling, session, executions>>
vars == <<server, network, daemon>>

--------------------------------------------------------------------------------
(* Types *)

Waiting == {"queued", "sent"}
Active == Waiting \cup {"acked"}              \* ACTIVE_DELIVERY_STATUSES
Terminal == {"completed", "failed"}           \* TERMINAL_DELIVERY_STATUSES
Statuses == {"none"} \cup Active \cup Terminal

\* acked: ackedAt is set; stale: sentAt is SENT_DELIVERY_RETRY_TTL_MS old.
Delivery == [status : Statuses, message : Messages \cup {NoMessage},
             acked : BOOLEAN, stale : BOOLEAN]
Unknown == [status |-> "none", message |-> NoMessage,
            acked |-> FALSE, stale |-> FALSE]

LedgerRecord == [status : {"none", "accepted"} \cup Terminal,
                 run : 0..MaxRuns, result : BOOLEAN]
NoRecord == [status |-> "none", run |-> 0, result |-> FALSE]

Reports == {"ack", "result", "idle", "error"}      \* frames about a delivery
Notices == {"ready", "stopping"}                   \* frames about the daemon
DaemonFrame == [type : Reports, delivery : Deliveries]
                 \cup [type : Notices, delivery : {None}]
ServerFrame == [type : {"deliver"}, delivery : Deliveries]
                 \cup [type : {"connected"}, delivery : {None}]

\* What acceptDelivery found out: is d a duplicate, and is its result kept?
Acceptance == [delivery : Deliveries, duplicate : BOOLEAN, result : BOOLEAN]
NoAcceptance == [delivery |-> None, duplicate |-> FALSE, result |-> FALSE]

Snapshot == [deliveries : [Deliveries -> Delivery],
             responses : [Deliveries -> Nat]]

TypeOK ==
  /\ deliveries \in [Deliveries -> Delivery]
  /\ issued \in 0..MaxDeliveries
  /\ responses \in [Deliveries -> Nat]
  /\ connections \in Connections \cup {None}
  /\ pendingDisconnects \in Connections \cup {None}
  /\ stored \in Snapshot
  /\ serverRestarts \in 0..MaxServerRestarts
  /\ link \in [Connections -> {"none", "up", "down"}]
  /\ toDaemon \in [Connections -> Seq(ServerFrame)]
  /\ toServer \in [Connections -> Seq(DaemonFrame)]
  /\ run \in 1..MaxRuns
  /\ socket \in Connections \cup {None}
  /\ ledger \in [Deliveries -> LedgerRecord]
  /\ handling \in Acceptance \cup {NoAcceptance}
  /\ session \in [Deliveries -> {"none", "running", "reported"}]
  /\ executions \in [Deliveries -> Nat]

Init ==
  /\ deliveries = [d \in Deliveries |-> Unknown]
  /\ issued = 0
  /\ responses = [d \in Deliveries |-> 0]
  /\ connections = None
  /\ pendingDisconnects = None
  /\ stored = [deliveries |-> deliveries, responses |-> responses]
  /\ serverRestarts = 0
  /\ link = [c \in Connections |-> "none"]
  /\ toDaemon = [c \in Connections |-> <<>>]
  /\ toServer = [c \in Connections |-> <<>>]
  /\ run = 1
  /\ socket = None
  /\ ledger = [d \in Deliveries |-> NoRecord]
  /\ handling = NoAcceptance
  /\ session = [d \in Deliveries |-> "none"]
  /\ executions = [d \in Deliveries |-> 0]

--------------------------------------------------------------------------------
(* Frames *)

Deliver(d) == [type |-> "deliver", delivery |-> d]
Connected == [type |-> "connected", delivery |-> None]
Frame(type, d) == [type |-> type, delivery |-> d]

\* The daemon writes frames to its socket.  Nothing is kept for later: with
\* no socket, or one the network has cut, they are gone.
DaemonSends(frames) ==
  toServer' = IF socket # None /\ link[socket] = "up"
              THEN [toServer EXCEPT ![socket] = @ \o frames]
              ELSE toServer

\* The server writes frames to the current connection.  A write to a socket
\* that the network has cut is lost, and the server is none the wiser.
ServerSends(frames) ==
  toDaemon' = IF connections # None /\ link[connections] = "up"
              THEN [toDaemon EXCEPT ![connections] = @ \o frames]
              ELSE toDaemon

\* The deliveries of ds in the order they were issued.
InIssueOrder(ds) ==
  {s \in [1..Cardinality(ds) -> ds] :
     \A i, j \in DOMAIN s : i < j => s[i] < s[j]}

--------------------------------------------------------------------------------
(* Requests of the chat *)

\* No delivery of message m is active (activeDeliveryMatches).
NoneAwaited(m) ==          \* mutant: an acknowledged delivery is forgotten
  \A d \in Deliveries :
    ~(deliveries[d].message = m /\ deliveries[d].status \in Waiting)

NoneActive(m) ==
  \A d \in Deliveries :
    ~(deliveries[d].message = m /\ deliveries[d].status \in Active)

\* The router hands message m to the agent.  A delivery of m that is still
\* active takes the place of a new one.  A new one goes out at once when the
\* computer is connected, whether or not it can still be reached.
Request(m) ==
  /\ issued < MaxDeliveries
  /\ NoneActive(m)
  /\ issued' = issued + 1
  /\ deliveries' = [deliveries EXCEPT ![issued + 1] =
       [status |-> IF connections # None THEN "sent" ELSE "queued",
        message |-> m, acked |-> FALSE, stale |-> FALSE]]
  /\ ServerSends(<<Deliver(issued + 1)>>)
  /\ UNCHANGED <<responses, connections, pendingDisconnects, stored,
                 serverRestarts, link, toServer, daemon>>

\* The retry period of a sent delivery runs out.
Age(d) ==
  /\ deliveries[d].status = "sent"
  /\ ~deliveries[d].acked
  /\ ~deliveries[d].stale
  /\ deliveries' = [deliveries EXCEPT ![d].stale = TRUE]
  /\ UNCHANGED <<issued, responses, connections, pendingDisconnects, stored,
                 serverRestarts, network, daemon>>

--------------------------------------------------------------------------------
(* Connections, as the server sees them *)

\* requeueUnackedSentDeliveries
Requeued ==
  [d \in Deliveries |->
     IF deliveries[d].status = "sent" /\ ~deliveries[d].acked
     THEN [deliveries[d] EXCEPT !.status = "queued", !.stale = FALSE]
     ELSE deliveries[d]]

\* adoptConnection ends the grace of the previous connection or replaces it;
\* either way, what was sent and not acknowledged is queued again.
AdoptedAfterReplace ==     \* mutant: the grace ends without a requeue
  IF connections # None THEN Requeued ELSE deliveries

Adopted ==
  IF pendingDisconnects # None \/ connections # None
  THEN Requeued ELSE deliveries

\* The daemon opens connection c and the server adopts it.
Connect(c) ==
  /\ socket = None
  /\ link[c] = "none"
  /\ \A b \in 1..(c - 1) : link[b] # "none"
  /\ socket' = c
  /\ link' = [link EXCEPT ![c] = "up"]
  /\ toDaemon' = [toDaemon EXCEPT ![c] = <<Connected>>]
  /\ connections' = c
  /\ pendingDisconnects' = None
  /\ deliveries' = Adopted
  /\ UNCHANGED <<issued, responses, stored, serverRestarts, toServer,
                 run, ledger, handling, session, executions>>

FinalizeAlways(c) ==       \* mutant: a later connection is not looked for
  /\ pendingDisconnects' =
       IF pendingDisconnects = c THEN None ELSE pendingDisconnects
  /\ connections' = None
  /\ deliveries' = Requeued

\* finalizeComputerDisconnected(c): unless a later connection took over.
Finalize(c) ==
  /\ pendingDisconnects' =
       IF pendingDisconnects = c THEN None ELSE pendingDisconnects
  /\ IF connections \notin {None, c}
     THEN UNCHANGED <<connections, deliveries>>
     ELSE connections' = None /\ deliveries' = Requeued

DisconnectedTwice(c) ==    \* mutant: a replaced connection gets a grace too
  /\ connections' = IF connections = c THEN None ELSE connections
  /\ pendingDisconnects' = c

\* markComputerDisconnected(c): the reconnect grace of c starts, unless c was
\* replaced or has stopped.
Disconnected(c) ==
  IF connections = c
  THEN connections' = None /\ pendingDisconnects' = c
  ELSE UNCHANGED <<connections, pendingDisconnects>>

\* The server notices that connection c is gone, with what it has not read of
\* it.
ServerLosesSocket(c) ==
  /\ link[c] = "down"
  /\ connections = c \/ toServer[c] # <<>>
  /\ toServer' = [toServer EXCEPT ![c] = <<>>]
  /\ Disconnected(c)
  /\ UNCHANGED <<deliveries, issued, responses, stored, serverRestarts,
                 link, toDaemon, daemon>>

\* The reconnect grace of connection c runs out.
GraceExpires(c) ==
  /\ pendingDisconnects = c
  /\ Finalize(c)
  /\ UNCHANGED <<issued, responses, stored, serverRestarts, network, daemon>>

--------------------------------------------------------------------------------
(* What the server does with a frame of the daemon *)

\* deliveryRetryReady
RetryReady(d) ==
  \/ deliveries[d].status = "queued"
  \/ /\ deliveries[d].status = "sent"
     /\ ~deliveries[d].acked
     /\ deliveries[d].stale

\* ready: replay what waits, oldest first, on the current connection.
HandleReady ==
  /\ LET ready == {d \in Deliveries : RetryReady(d)} IN
     IF connections = None
     THEN UNCHANGED <<deliveries, toDaemon>>
     ELSE /\ deliveries' =
               [d \in Deliveries |->
                  IF d \in ready
                  THEN [deliveries[d] EXCEPT !.status = "sent", !.stale = FALSE]
                  ELSE deliveries[d]]
          /\ \E order \in InIssueOrder(ready) :
               ServerSends([i \in 1..Cardinality(ready) |-> Deliver(order[i])])
  /\ UNCHANGED <<responses, connections, pendingDisconnects>>

AckedReopens(d) ==         \* mutant: a late ack reopens a finished delivery
  IF deliveries[d].status = "none" THEN deliveries
  ELSE [deliveries EXCEPT ![d].status = "acked", ![d].acked = TRUE]

\* A finished delivery that is acknowledged stays finished.
Acked(d) ==
  IF deliveries[d].status = "none" THEN deliveries
  ELSE [deliveries EXCEPT ![d].status = IF @ \in Terminal THEN @ ELSE "acked",
                          ![d].acked = TRUE]

\* agent:deliver:ack
HandleAck(d) ==
  /\ deliveries' = Acked(d)
  /\ UNCHANGED <<responses, connections, pendingDisconnects, toDaemon>>

FinishedAsIs(d, status) == \* mutant: the daemon's word is not normalised
  IF deliveries[d].status = "none" THEN deliveries
  ELSE [deliveries EXCEPT
          ![d].status = IF status = "failed" THEN "error" ELSE status]

\* markDeliveryFinished
Finished(d, status) ==
  IF deliveries[d].status = "none" THEN deliveries
  ELSE [deliveries EXCEPT ![d].status = status]

HandleResultAgain(d) ==    \* mutant: every result is posted
  /\ deliveries' = Finished(d, "completed")
  /\ responses' = [responses EXCEPT ![d] = @ + 1]
  /\ UNCHANGED <<connections, pendingDisconnects, toDaemon>>

\* agent:message: the answer is posted unless one with the same delivery id is
\* already there; the server may have lost the delivery itself.
HandleResult(d) ==
  /\ deliveries' = Finished(d, "completed")
  /\ responses' = [responses EXCEPT ![d] = IF @ = 0 THEN 1 ELSE @]
  /\ UNCHANGED <<connections, pendingDisconnects, toDaemon>>

\* agent:status idle, and agent:error or agent:status error.
HandleEnd(d, status) ==
  /\ deliveries' = Finished(d, status)
  /\ UNCHANGED <<responses, connections, pendingDisconnects, toDaemon>>

\* daemon:stopping: no grace.
HandleStopping(c) ==
  /\ Finalize(c)
  /\ UNCHANGED <<responses, toDaemon>>

\* The server reads the next frame of connection c, replaced or not.
ServerReceive(c) ==
  /\ toServer[c] # <<>>
  /\ toServer' = [toServer EXCEPT ![c] = Tail(@)]
  /\ LET f == Head(toServer[c]) IN
     \/ f.type = "ready" /\ HandleReady
     \/ f.type = "ack" /\ HandleAck(f.delivery)
     \/ f.type = "result" /\ HandleResult(f.delivery)
     \/ f.type = "idle" /\ HandleEnd(f.delivery, "completed")
     \/ f.type = "error" /\ HandleEnd(f.delivery, "failed")
     \/ f.type = "stopping" /\ HandleStopping(c)
  /\ UNCHANGED <<issued, stored, serverRestarts, link, daemon>>

--------------------------------------------------------------------------------
(* The daemon *)

\* The greeting of a new connection is answered with ready.
DaemonGreets ==
  /\ socket # None
  /\ toDaemon[socket] # <<>>
  /\ Head(toDaemon[socket]) = Connected
  /\ toDaemon' = [toDaemon EXCEPT ![socket] = Tail(@)]
  /\ DaemonSends(<<Frame("ready", None)>>)
  /\ UNCHANGED <<server, link, daemon>>

DuplicateFinished(d) ==    \* mutant: this run's own deliveries are forgotten
  ledger[d].status \in Terminal

DuplicateOfRun(d) ==       \* mutant: an earlier run's finished ones are forgotten
  ledger[d].status # "none" /\ ledger[d].run = run

\* acceptDelivery's verdict: finished earlier, or accepted by this same run.
Duplicate(d) ==
  \/ ledger[d].status \in Terminal
  \/ ledger[d].status = "accepted" /\ ledger[d].run = run

EnteredLate(d) == ledger   \* mutant: acknowledged before it is entered

\* The ledger once acceptDelivery is done.
Entered(d) ==
  IF Duplicate(d) THEN ledger
  ELSE [ledger EXCEPT ![d].status = "accepted", ![d].run = run]

\* A delivery arrives and is entered in the ledger, which is written to disk
\* before anything else is done with it.  Ledger writes are queued one after
\* the other.
DaemonAccepts(d) ==
  /\ socket # None
  /\ handling = NoAcceptance
  /\ toDaemon[socket] # <<>>
  /\ Head(toDaemon[socket]) = Deliver(d)
  /\ toDaemon' = [toDaemon EXCEPT ![socket] = Tail(@)]
  /\ handling' = [delivery |-> d, duplicate |-> Duplicate(d),
                  result |-> ledger[d].result]
  /\ ledger' = Entered(d)
  /\ UNCHANGED <<server, link, toServer, run, socket, session, executions>>

AckFramesOfNew(d) ==       \* mutant: a duplicate is not acknowledged again
  IF handling.duplicate THEN <<>> ELSE <<Frame("ack", d)>>

\* A delivery is acknowledged; for a duplicate, the result kept in the ledger
\* is sent again.
AckFrames(d) ==
  IF handling.duplicate /\ handling.result
  THEN <<Frame("ack", d), Frame("result", d)>>
  ELSE <<Frame("ack", d)>>

\* With the ledger written, a delivery is acknowledged and, if it is new, given
\* to the agent's session.  The socket may have changed since it arrived.
DaemonAcks(d) ==
  /\ handling.delivery = d
  /\ DaemonSends(AckFrames(d))
  /\ IF handling.duplicate
     THEN UNCHANGED <<session, executions>>
     ELSE /\ session' = [session EXCEPT ![d] = "running"]
          /\ executions' = [executions EXCEPT ![d] = @ + 1]
  /\ handling' = NoAcceptance
  /\ UNCHANGED <<server, link, toDaemon, run, socket, ledger>>

\* The turn ends with a body: the answer goes out first ...
Report(d) ==
  /\ session[d] = "running"
  /\ session' = [session EXCEPT ![d] = "reported"]
  /\ DaemonSends(<<Frame("result", d)>>)
  /\ UNCHANGED <<server, link, toDaemon, run, socket, ledger, handling,
                 executions>>

\* ... and is then kept in the ledger.  A turn without a body, or whose agent
\* spoke through send_message, keeps no result.
Complete(d) ==
  /\ session[d] \in {"running", "reported"}
  /\ ledger' = [ledger EXCEPT ![d].status = "completed",
                              ![d].result = @ \/ session[d] = "reported"]
  /\ session' = [session EXCEPT ![d] = "none"]
  /\ DaemonSends(<<Frame("idle", d)>>)
  /\ UNCHANGED <<server, link, toDaemon, run, socket, handling, executions>>

\* The session cannot run the delivery, or its turn fails.
Fail(d) ==
  /\ session[d] = "running"
  /\ ledger' = [ledger EXCEPT ![d].status = "failed"]
  /\ session' = [session EXCEPT ![d] = "none"]
  /\ DaemonSends(<<Frame("error", d)>>)
  /\ UNCHANGED <<server, link, toDaemon, run, socket, handling, executions>>

\* The daemon notices that its connection is gone.  Its sessions carry on.
DaemonLosesSocket ==
  /\ socket # None
  /\ link[socket] = "down"
  /\ toDaemon' = [toDaemon EXCEPT ![socket] = <<>>]
  /\ socket' = None
  /\ UNCHANGED <<server, link, toServer, run, ledger, handling, session,
                 executions>>

--------------------------------------------------------------------------------
(* Faults.  Only finitely many: the last connection stays up. *)

FaultsMayHappen == link[MaxConnections] = "none"

\* The network cuts connection c; each end finds out in its own time.
Break(c) ==
  /\ FaultsMayHappen
  /\ link[c] = "up"
  /\ link' = [link EXCEPT ![c] = "down"]
  /\ UNCHANGED <<server, toDaemon, toServer, daemon>>

\* The daemon process ends and a new one starts: with notice (close, on a
\* signal or a local stop) or without.  Only the ledger survives.
DaemonRestart(notice) ==
  /\ FaultsMayHappen
  /\ run < MaxRuns
  /\ run' = run + 1
  /\ DaemonSends(notice)
  /\ link' = IF socket = None THEN link ELSE [link EXCEPT ![socket] = "down"]
  /\ toDaemon' = IF socket = None THEN toDaemon
                 ELSE [toDaemon EXCEPT ![socket] = <<>>]
  /\ socket' = None
  /\ handling' = NoAcceptance
  /\ session' = [d \in Deliveries |-> "none"]
  /\ UNCHANGED <<server, ledger, executions>>

Stopping == <<Frame("stopping", None)>>

\* A queued save runs: it writes the state as it is at that moment.
Persist ==
  /\ serverRestarts < MaxServerRestarts
  /\ stored' = [deliveries |-> deliveries, responses |-> responses]
  /\ UNCHANGED <<deliveries, issued, responses, connections,
                 pendingDisconnects, serverRestarts, network, daemon>>

\* The server process ends and a new one loads the persisted state.  Its
\* connections and timers are gone; the delivery records are taken as stored.
ServerRestart ==
  /\ FaultsMayHappen
  /\ serverRestarts < MaxServerRestarts
  /\ serverRestarts' = serverRestarts + 1
  /\ deliveries' = stored.deliveries
  /\ responses' = stored.responses
  /\ connections' = None
  /\ pendingDisconnects' = None
  /\ link' = [c \in Connections |-> IF link[c] = "up" THEN "down" ELSE link[c]]
  /\ toServer' = [c \in Connections |-> <<>>]
  /\ UNCHANGED <<issued, stored, toDaemon, daemon>>

--------------------------------------------------------------------------------
ServerSteps(c) ==
  Connect(c) \/ ServerLosesSocket(c) \/ GraceExpires(c) \/ ServerReceive(c)

DaemonSteps(d) ==
  DaemonAccepts(d) \/ DaemonAcks(d) \/ Report(d) \/ Complete(d) \/ Fail(d)

Next ==
  \/ \E m \in Messages : Request(m)
  \/ \E d \in Deliveries : Age(d) \/ DaemonSteps(d)
  \/ \E c \in Connections : ServerSteps(c) \/ Break(c)
  \/ DaemonGreets
  \/ DaemonLosesSocket
  \/ DaemonRestart(<<>>)
  \/ DaemonRestart(Stopping)
  \/ Persist
  \/ ServerRestart

Spec == Init /\ [][Next]_vars

(***************************************************************************)
(* Fairness.  runForever dials again whenever its socket is gone; sockets  *)
(* deliver what they carry and report their end to either side (the        *)
(* daemon's inbound watchdog, the server's connection watchdog); a timer   *)
(* that is not cleared fires; a handler that was started runs to its next  *)
(* await.  Nothing is assumed of the chat, of the agent's turns, of faults *)
(* or of saves.                                                            *)
(***************************************************************************)
Fairness ==
  /\ \A c \in Connections :
       /\ WF_vars(Connect(c))
       /\ WF_vars(ServerLosesSocket(c))
       /\ WF_vars(GraceExpires(c))
       /\ WF_vars(ServerReceive(c))
  /\ WF_vars(DaemonGreets)
  /\ WF_vars(DaemonLosesSocket)
  /\ \A d \in Deliveries :
       /\ WF_vars(Age(d))
       /\ WF_vars(DaemonAccepts(d))
       /\ WF_vars(DaemonAcks(d))

FairSpec == Spec /\ Fairness

--------------------------------------------------------------------------------
(* Safety *)

\* The ledger on the computer backs whatever the cloud believes: a delivery
\* the server holds for acknowledged or finished, or answered in the chat, was
\* entered in the ledger first, so that a crash of the daemon cannot make the
\* cloud believe in a delivery the computer never had (acceptDelivery writes
\* before handleAgentDeliver acknowledges).
AckMeansAccepted ==
  \A d \in Deliveries :
    \/ deliveries[d].acked
    \/ deliveries[d].status \in {"acked"} \cup Terminal
    \/ responses[d] > 0
    => ledger[d].status # "none"

\* However often a result is sent (by the session, again after a duplicate
\* delivery, by a second run of the daemon, before and after a restart of the
\* server), one answer per delivery is in the chat (postAgentResponse).
AtMostOneResponse == \A d \in Deliveries : responses[d] <= 1

\* However often a delivery is sent, requeued and replayed, one run of the
\* daemon gives it to a session at most once (acceptDelivery).
OncePerRun == \A d \in Deliveries : executions[d] <= run

\* The chat message is at most one active delivery: a routed message is not
\* handed out again while an earlier delivery of it may still be executed
\* (activeDeliveryMatches).
OneActivePerMessage ==
  \A d, e \in Deliveries :
    /\ deliveries[d].status \in Active
    /\ deliveries[e].status \in Active
    /\ deliveries[d].message = deliveries[e].message
    => d = e

\* A reconnect grace runs only while the computer has no connection, so its
\* end can never take a computer offline that is back
\* (clearPendingDisconnect in adoptConnection).
GraceMeansGone == pendingDisconnects # None => connections = None

\* While the daemon has a working connection the server uses that one,
\* whatever it still learns about earlier ones: their end, the last frames
\* they carried, a stopping notice of the daemon's previous run
\* (adoptConnection, finalizeComputerDisconnected).
ServerUsesDaemonsSocket ==
  socket # None /\ link[socket] = "up" => connections = socket

\* Without a restart of the server no waiting delivery is forgotten.  One
\* that is queued while the computer is connected waits for the ready of that
\* connection.  One that was sent and not acknowledged is on its way to the
\* daemon, being entered in the ledger, or its acknowledgement is on its way
\* back -- or the connection is gone, which the server will notice, and then
\* queue the delivery again (requeueUnackedSentDeliveries, replayQueued).
ReadyOutstanding(c) ==
  \/ \E i \in DOMAIN toDaemon[c] : toDaemon[c][i] = Connected
  \/ \E i \in DOMAIN toServer[c] : toServer[c][i].type = "ready"

Underway(d, c) ==
  \/ \E i \in DOMAIN toDaemon[c] : toDaemon[c][i] = Deliver(d)
  \/ handling.delivery = d
  \/ \E i \in DOMAIN toServer[c] : toServer[c][i] = Frame("ack", d)

NothingStranded ==
  \A d \in Deliveries :
    /\ deliveries[d].status = "queued" /\ connections # None
         => link[connections] = "down" \/ ReadyOutstanding(connections)
    /\ deliveries[d].status = "sent"
         => \/ pendingDisconnects # None
            \/ /\ connections # None
               /\ link[connections] = "down" \/ Underway(d, connections)

\* Nothing the computer has finished is taken up or given to a session again,
\* not even after restarts of the daemon and the server (acceptDelivery's
\* duplicates).
FinishedNeverRerun ==
  [][\A d \in Deliveries :
       ledger[d].status \in Terminal =>
         /\ ledger'[d].status \in Terminal
         /\ executions'[d] = executions[d]]_vars

--------------------------------------------------------------------------------
(* The inductive invariant behind the safety properties *)

Ledgered(d) == ledger[d].status # "none"

\* A delivery the server takes to be in the computer's hands.
Held(delivery) == delivery.acked \/ delivery.status \in {"acked"} \cup Terminal

\* Every place a delivery is taken for accepted in is backed by the ledger:
\* the server's records, persisted or not, the session, and each report still
\* on its way.  A stopping notice is the last frame of a cut connection.
JustifiedFrame(c) ==
  {f \in DaemonFrame :
     /\ f.type \in Reports => Ledgered(f.delivery)
     /\ f.type = "stopping" => link[c] = "down"}

Claimed(d) ==
  \/ Held(deliveries[d]) \/ Held(stored.deliveries[d])
  \/ responses[d] > 0 \/ stored.responses[d] > 0
  \/ session[d] # "none" \/ handling.delivery = d

Backed ==
  /\ \A d \in Deliveries : Claimed(d) => Ledgered(d)
  /\ \A c \in Connections : toServer[c] \in Seq(JustifiedFrame(c))

AnsweredOnce ==
  \A d \in Deliveries : responses[d] <= 1 /\ stored.responses[d] <= 1

\* Nothing is known of a delivery that was not issued, and what was persisted
\* obeys OneActivePerMessage too.
OneActive(records) ==
  \A d, e \in Deliveries :
    /\ records[d].status \in Active
    /\ records[e].status \in Active
    /\ records[d].message = records[e].message
    => d = e

Issued ==
  /\ \A d \in Deliveries :
       d > issued => deliveries[d] = Unknown /\ stored.deliveries[d] = Unknown
  /\ OneActive(deliveries)
  /\ OneActive(stored.deliveries)

\* A delivery entered as new and not acknowledged yet.
Fresh(d) == handling.delivery = d /\ ~handling.duplicate

\* What a run of the daemon has done with d so far.
RunOnce ==
  \A d \in Deliveries :
    /\ ledger[d].run <= run
    /\ ledger[d].status = "none" => ledger[d].run < run
    /\ session[d] # "none" \/ Fresh(d)
         => ledger[d].status = "accepted" /\ ledger[d].run = run
    /\ ~(session[d] # "none" /\ Fresh(d))
    /\ executions[d] <= run
    /\ ledger[d].run < run \/ Fresh(d) => executions[d] < run

OneConnection ==
  \A c \in Connections : link[c] = "up" => socket = c /\ connections = c

Invariant ==
  /\ Backed
  /\ AnsweredOnce
  /\ Issued
  /\ RunOnce
  /\ OneConnection
  /\ GraceMeansGone

--------------------------------------------------------------------------------
(* The abstract specification the relay implements *)

PhaseOf(status) ==
  CASE status = "none" -> "none"
    [] status \in Waiting -> "pending"
    [] status = "acked" -> "taken"
    [] status \in Terminal -> "done"

Promise == INSTANCE DeliveryPromise WITH
  phase <- [d \in Deliveries |-> PhaseOf(deliveries[d].status)],
  answers <- responses,
  saved <- [phase |-> [d \in Deliveries |->
                         PhaseOf(stored.deliveries[d].status)],
            answers |-> stored.responses],
  journal <- {d \in Deliveries : ledger[d].status # "none"}

\* Connections, frames, queues and retries only ever amount to the promise of
\* DeliveryPromise: phases move forward, on word from the computer, and an
\* answer is posted once.
KeepsPromise == Promise!Spec

--------------------------------------------------------------------------------
(* Liveness *)

\* Once the network holds, every delivery the server has taken on reaches the
\* daemon, and the server learns of it.
EveryDeliveryTaken ==
  \A d \in Deliveries :
    deliveries[d].status \in Waiting ~> deliveries[d].status \notin Waiting

================================================================================
