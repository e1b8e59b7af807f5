----------------------------- MODULE CodexTurns -----------------------------
(***************************************************************************)
(* One CodexAgentSession of the daemon (cli-core/src/cli.js) and the Codex *)
(* app-server it talks to: opening a thread, turning prompts into turns,   *)
(* steering a turn that runs, recovering from a thread the app-server does *)
(* not know, and the marks of the delivery ledger.                         *)
(*                                                                         *)
(* The session keeps ONE activeDeliveryId, set when a prompt is about to   *)
(* be sent.  Messages of the app-server are handled one after the other,   *)
(* each to its end; a delivery may come whenever a handler awaits.  The    *)
(* app-server is external: it answers requests in order, runs one turn at  *)
(* a time and may refuse a thread or a turn.                               *)
(***************************************************************************)
EXTENDS Naturals, Sequences, FiniteSets, SequencesExt

CONSTANTS
  Deliveries,
  MaxTrouble     \* bound: requests refused, and exits

VARIABLES
  up,            \* the app-server runs (started, child)
  threadId,      \* a thread is known to the session
  threadReady,
  activeTurn,    \* activeTurnId: 0, or the number of a turn
  activeDelivery,\* activeDeliveryId
  prompts,       \* pendingPrompts
  stage,         \* of each delivery: where its prompt is
  lists,         \* of each delivery: the prompts its loop sends next
  recovered,     \* staleThreadRecoveries
  text,          \* the prompts the collected text answers
  handler,       \* what the handler of an app-server message awaits
  mark,          \* the ledger's status of each delivery
  requests,      \* to the app-server
  turn,          \* the app-server's turn: its number and prompts
  messages,      \* from the app-server
  took,          \* history: how many turns took each prompt
  finished,      \* history: the deliveries of turns that completed
  refusals, exits, \* counters of the bounds
  denied         \* history: the opening of a thread was refused and not asked for again

session == <<threadId, threadReady, activeTurn, activeDelivery, prompts, stage, lists, recovered, text>>
ledger == <<handler, mark>>
server == <<requests, turn, messages, took, finished>>
vars == <<up, session, ledger, server, refusals, exits, denied>>

None == "none"
Idle == [at |-> "idle", end |-> None]
NoTurn == [id |-> 0, of |-> {}]

Request(method, d, id) == [method |-> method, delivery |-> d, turn |-> id, thread |-> threadId]
Message(kind, request, id) == [kind |-> kind, request |-> request, turn |-> id]
NoRequest == [method |-> None, delivery |-> None, turn |-> 0, thread |-> FALSE]

\* requestThreadOpen, when the app-server has been spawned.
ThreadOpen(known) ==
  [method |-> IF known THEN "thread/resume" ELSE "thread/start",
   delivery |-> None, turn |-> 0, thread |-> known]

\* The start queue has spawned the app-server.
Init ==
  /\ up = TRUE /\ threadId \in BOOLEAN /\ threadReady = FALSE
  /\ activeTurn = 0 /\ activeDelivery = None
  /\ prompts = <<>>
  /\ stage = [d \in Deliveries |-> "new"] /\ lists = [d \in Deliveries |-> <<>>]
  /\ recovered = {} /\ text = {}
  /\ handler = Idle /\ mark = [d \in Deliveries |-> "accepted"]
  /\ requests = <<ThreadOpen(threadId)>> /\ turn = NoTurn /\ messages = <<>>
  /\ took = [d \in Deliveries |-> 0]
  /\ finished = {}
  /\ refusals = 0 /\ exits = 0 /\ denied = FALSE

-----------------------------------------------------------------------------
(* Sending prompts.                                                        *)

\* deliver: without an app-server it is started, without a thread the prompt
\* waits; otherwise startTurn, up to where it awaits the images.  (Two starts at
\* once are DaemonSessions'.)
Deliver(d) ==
  /\ stage[d] = "new" /\ \A e \in Deliveries : stage[e] # "starting"
  /\ IF ~up
     THEN stage' = [stage EXCEPT ![d] = "starting"] /\ UNCHANGED <<prompts, activeDelivery>>
     ELSE IF ~threadReady
     THEN /\ prompts' = Append(prompts, d) /\ stage' = [stage EXCEPT ![d] = "prompt"]
          /\ UNCHANGED activeDelivery
     ELSE /\ activeDelivery' = d /\ stage' = [stage EXCEPT ![d] = "images"]
          /\ UNCHANGED prompts
  /\ UNCHANGED <<up, threadId, threadReady, activeTurn, lists, recovered, text,
                 ledger, server, refusals, exits, denied>>

\* start: the app-server is spawned again and asked for the thread.
Start(d) ==
  /\ stage[d] = "starting"
  /\ up' = TRUE /\ threadReady' = FALSE
  /\ requests' = Append(requests, ThreadOpen(threadId))
  /\ prompts' = Append(prompts, d) /\ stage' = [stage EXCEPT ![d] = "prompt"]
  /\ UNCHANGED <<threadId, activeTurn, activeDelivery, lists, recovered, text,
                 ledger, turn, messages, took, finished, refusals, exits, denied>>

\* The request of startTurn: steer the turn that runs, else start one.
SendPrompt(d) ==
  requests' = Append(requests, IF activeTurn # 0 THEN Request("turn/steer", d, activeTurn)
                               ELSE Request("turn/start", d, 0))

\* drainPendingPrompts goes on when the prompt has been sent: with the next
\* one, or without a thread with none of them.
Rest(d) == IF threadId THEN lists[d] ELSE <<>>
StagesAfter(d, phase) ==
  [e \in Deliveries |->
     IF e = d THEN phase
     ELSE IF Rest(d) # <<>> /\ e = Rest(d)[1] THEN "images"
     ELSE IF e \in Range(lists[d]) /\ Rest(d) = <<>> THEN "dropped" ELSE stage[e]]

\* startTurn, with the images read: the thread may be gone by then, and only a
\* request to a dead app-server is not made.
StartTurn(d) ==
  /\ stage[d] = "images"
  /\ IF up
     THEN /\ SendPrompt(d) /\ text' = {}
          /\ stage' = StagesAfter(d, "asked")
          /\ mark' = IF activeDelivery # None
                     THEN [mark EXCEPT ![activeDelivery] = "started"] ELSE mark
     ELSE /\ stage' = StagesAfter(d, "dropped")
          /\ UNCHANGED <<requests, text, mark>>
  /\ lists' = IF Rest(d) = <<>> THEN [lists EXCEPT ![d] = <<>>]
              ELSE [lists EXCEPT ![d] = <<>>, ![Rest(d)[1]] = Tail(Rest(d))]
  /\ activeDelivery' = IF Rest(d) = <<>> THEN activeDelivery ELSE Rest(d)[1]
  /\ handler' = IF handler = [at |-> "prompts", end |-> d]
                THEN (IF Rest(d) = <<>> THEN Idle ELSE [handler EXCEPT !.end = Rest(d)[1]])
                ELSE handler
  /\ UNCHANGED <<up, threadId, threadReady, activeTurn, prompts, recovered,
                 turn, messages, took, finished, refusals, exits, denied>>

-----------------------------------------------------------------------------
(* Handling a message of the app-server.                                   *)

Handles(kind) == handler = Idle /\ messages # <<>> /\ Head(messages).kind = kind
Asked == Head(messages).request

KeepsPrompts == prompts        \* mutant: the list is copied, not emptied
Left == <<>>

\* The answer of thread/start or thread/resume: ready, then the prompts.
HandleThread ==
  /\ Handles("thread")
  /\ threadId' = TRUE /\ threadReady' = TRUE
  /\ prompts' = Left
  /\ IF prompts = <<>> THEN UNCHANGED <<stage, lists, activeDelivery, handler>>
     ELSE LET first == prompts[1] IN
       /\ stage' = [d \in Deliveries |-> IF d = first THEN "images"
                     ELSE IF d \in Range(prompts) THEN "listed" ELSE stage[d]]
       /\ lists' = [lists EXCEPT ![first] = Tail(prompts)]
       /\ activeDelivery' = first
       /\ handler' = [at |-> "prompts", end |-> first]
  /\ messages' = Tail(messages)
  /\ UNCHANGED <<up, activeTurn, recovered, text, mark, requests, turn, took, finished,
                 refusals, exits, denied>>

\* The answer of turn/start or turn/steer, and turn/started.
HandleTurn ==
  /\ Handles("turn")
  /\ activeTurn' = Head(messages).turn
  /\ stage' = IF Asked.delivery # None /\ stage[Asked.delivery] = "asked"
             THEN [stage EXCEPT ![Asked.delivery] = "taken"] ELSE stage
  /\ messages' = Tail(messages)
  /\ UNCHANGED <<up, threadId, threadReady, activeDelivery, prompts, lists, recovered, text,
                 ledger, requests, turn, took, finished, refusals, exits, denied>>

HandleDelta ==
  /\ Handles("text")
  /\ text' = text \cup Head(messages).request
  /\ messages' = Tail(messages)
  /\ UNCHANGED <<up, threadId, threadReady, activeTurn, activeDelivery, prompts, stage, lists,
                 recovered, ledger, requests, turn, took, finished, refusals, exits, denied>>

RecoveryKey == IF Asked.delivery # None THEN Asked.delivery
               ELSE IF activeDelivery # None THEN activeDelivery ELSE "thread"

MayRecover == RecoveryKey \notin recovered

AsksForNone == requests        \* mutant: the prompt waits for the old thread
NewThread == IF up THEN Append(requests, ThreadOpen(FALSE)) ELSE requests

\* recoverMissingCodexThread: once for a delivery the prompt goes back to the
\* front and a new thread is asked for.
RecoverMissingThread ==
  /\ Handles("stale") /\ MayRecover
  /\ recovered' = recovered \cup {RecoveryKey}
  /\ IF Asked.delivery # None
     THEN /\ prompts' = <<Asked.delivery>> \o prompts
          /\ stage' = [stage EXCEPT ![Asked.delivery] = "prompt"]
     ELSE UNCHANGED <<prompts, stage>>
  /\ threadId' = FALSE /\ threadReady' = FALSE /\ activeTurn' = 0
  /\ text' = {} /\ activeDelivery' = None
  /\ requests' = NewThread
  /\ messages' = Tail(messages)
  /\ UNCHANGED <<up, lists, ledger, turn, took, finished, refusals, exits, denied>>

\* Any other refusal: the active delivery is marked failed.  If it was the thread
\* that was refused, what waits for one waits on.
HandleRefusal ==
  /\ Handles("refused") \/ (Handles("stale") /\ ~MayRecover)
  /\ mark' = IF activeDelivery # None THEN [mark EXCEPT ![activeDelivery] = "failed"] ELSE mark
  /\ stage' = IF Asked.delivery # None THEN [stage EXCEPT ![Asked.delivery] = "refused"] ELSE stage
  /\ denied' = (denied \/ Asked.delivery = None)
  /\ messages' = Tail(messages)
  /\ UNCHANGED <<up, threadId, threadReady, activeTurn, activeDelivery, prompts, lists,
                 recovered, text, handler, requests, turn, took, finished, refusals, exits>>

\* turn/completed and turn/failed: the text is sent as the answer of the active
\* delivery, then that is marked, with an await at each mark.
HandleTurnEnd ==
  /\ Handles("completed") \/ Handles("failed")
  /\ LET done == Head(messages).kind
         answer == done = "completed" /\ text # {}
     IN /\ mark' = IF answer /\ activeDelivery # None
                   THEN [mark EXCEPT ![activeDelivery] = "completed"] ELSE mark
        /\ handler' = [at |-> IF answer /\ activeDelivery # None THEN "answered" ELSE "marking",
                       end |-> done]
  /\ messages' = Tail(messages)
  /\ UNCHANGED <<up, session, requests, turn, took, finished, refusals, exits, denied>>

OnlyWithText == mark           \* mutant: a turn without a text leaves no mark
EndMark == IF activeDelivery # None THEN [mark EXCEPT ![activeDelivery] = handler.end] ELSE mark

MarkTurnEnd ==
  /\ handler.at = "answered" \/ handler.at = "marking"
  /\ mark' = EndMark
  /\ handler' = [handler EXCEPT !.at = "marked"]
  /\ UNCHANGED <<up, session, server, refusals, exits, denied>>

EndTurn ==
  /\ handler.at = "marked"
  /\ activeTurn' = 0 /\ text' = {} /\ activeDelivery' = None
  /\ handler' = Idle
  /\ UNCHANGED <<up, threadId, threadReady, prompts, stage, lists, recovered, mark, server,
                 refusals, exits, denied>>

-----------------------------------------------------------------------------
(* The app-server.                                                         *)

Answered(kind, id) == messages' = Append(messages, Message(kind, Head(requests), id))
Asks(methods) == up /\ requests # <<>> /\ Head(requests).method \in methods

OpenThread ==
  /\ Asks({"thread/start", "thread/resume"})
  /\ Answered("thread", 0) /\ requests' = Tail(requests)
  /\ UNCHANGED <<up, session, ledger, turn, took, finished, refusals, exits, denied>>

\* A prompt starts a turn or joins the one that runs; what names no thread or a
\* turn that has ended is refused.
TakePrompt ==
  /\ Asks({"turn/start", "turn/steer"})
  /\ LET request == Head(requests)
         d == request.delivery
         id == IF turn.id # 0 THEN turn.id ELSE took[d] + Cardinality({e \in Deliveries : took[e] > 0}) + 1
     IN IF ~request.thread \/ (request.method = "turn/steer" /\ request.turn # turn.id)
        THEN Answered("refused", 0) /\ UNCHANGED <<turn, took>>
        ELSE /\ turn' = [id |-> id, of |-> turn.of \cup {d}]
             /\ took' = [took EXCEPT ![d] = @ + 1]
             /\ Answered("turn", id)
  /\ requests' = Tail(requests)
  /\ UNCHANGED <<up, session, ledger, finished, refusals, exits, denied>>

\* Any request may be refused; one that names a thread, also because the
\* app-server does not know the thread.
RefuseRequest ==
  /\ Asks({"thread/start", "thread/resume", "turn/start", "turn/steer"})
  /\ refusals + exits < MaxTrouble
  /\ refusals' = refusals + 1
  /\ \E kind \in {"stale", "refused"} :
       /\ kind = "stale" => Head(requests).method # "thread/start"
       /\ Answered(kind, 0)
  /\ requests' = Tail(requests)
  /\ UNCHANGED <<up, session, ledger, turn, took, finished, exits, denied>>

\* A turn ends, with a text or with the answer sent by a tool.
FinishTurn ==
  /\ up /\ turn.id # 0
  /\ \E kind \in {"completed", "failed"}, said \in BOOLEAN :
       /\ finished' = IF kind = "completed" THEN finished \cup turn.of ELSE finished
       /\ messages' = messages
            \o (IF said THEN <<[kind |-> "text", request |-> turn.of, turn |-> turn.id]>> ELSE <<>>)
            \o <<Message(kind, NoRequest, turn.id)>>
  /\ turn' = NoTurn
  /\ UNCHANGED <<up, session, ledger, requests, took, refusals, exits, denied>>

\* The close event: neither the turn nor the pending requests are forgotten.
Exit ==
  /\ up /\ refusals + exits < MaxTrouble
  /\ exits' = exits + 1 /\ up' = FALSE
  /\ requests' = <<>> /\ turn' = NoTurn
  /\ UNCHANGED <<session, ledger, messages, took, finished, refusals, denied>>

-----------------------------------------------------------------------------
Handle ==
  \/ HandleThread \/ HandleTurn \/ HandleDelta
  \/ RecoverMissingThread \/ HandleRefusal
  \/ HandleTurnEnd \/ MarkTurnEnd \/ EndTurn

Daemon ==
  \/ \E d \in Deliveries : Start(d)
  \/ \E d \in Deliveries : StartTurn(d)
  \/ Handle

AppServer == OpenThread \/ TakePrompt \/ FinishTurn

Next ==
  \/ \E d \in Deliveries : Deliver(d)
  \/ Daemon
  \/ AppServer
  \/ RefuseRequest
  \/ Exit

Spec == Init /\ [][Next]_vars

FairSpec ==
  /\ Spec /\ WF_vars(OpenThread \/ TakePrompt) /\ WF_vars(FinishTurn)
  /\ WF_vars(\E d \in Deliveries : Start(d)) /\ WF_vars(\E d \in Deliveries : StartTurn(d))
  /\ WF_vars(Handle)

-----------------------------------------------------------------------------
TypeOK ==
  /\ up \in BOOLEAN /\ threadId \in BOOLEAN /\ threadReady \in BOOLEAN
  /\ threadReady => threadId
  /\ activeTurn \in Nat /\ activeDelivery \in Deliveries \cup {None}
  /\ prompts \in Seq(Deliveries) /\ lists \in [Deliveries -> Seq(Deliveries)]
  /\ stage \in [Deliveries -> {"new", "starting", "prompt", "listed", "images", "asked",
                              "taken", "refused", "dropped"}]
  /\ recovered \subseteq Deliveries \cup {"thread"} /\ text \subseteq Deliveries
  /\ mark \in [Deliveries -> {"accepted", "started", "completed", "failed"}]
  /\ handler.at \in {"idle", "prompts", "answered", "marking", "marked"}
  /\ refusals \in 0 .. MaxTrouble /\ exits \in 0 .. MaxTrouble /\ denied \in BOOLEAN

\* However often the thread is lost and the prompt sent again, and however
\* prompts are steered, no two turns take one prompt.
TakenOnce == \A d \in Deliveries : took[d] <= 1

\* A prompt reaches a turn, or is refused, or (a loop whose thread is lost) is
\* dropped, however often the thread is lost; unless the app-server exits, or
\* refuses to open a thread: what waits for that one is not asked for again.
TurnsGoOn ==
  \A d \in Deliveries :
    stage[d] # "new" ~> \/ stage[d] \in {"taken", "refused", "dropped"}
                        \/ denied /\ stage[d] = "prompt"
                        \/ exits > 0

\* When all is quiet, a delivery whose turn has completed is marked so in the
\* ledger, over threads that are lost; if it was the session's only one, for a
\* session knows the last alone, and the app-server has not exited.
Quiet ==
  /\ handler = Idle /\ messages = <<>> /\ requests = <<>> /\ turn = NoTurn
  /\ \A d \in Deliveries : stage[d] \in {"new", "taken", "refused", "dropped"}
CompletedIsMarked ==
  Quiet /\ exits = 0 => \A d \in finished :
    (\A e \in Deliveries \ {d} : stage[e] = "new") => mark[d] = "completed"
=============================================================================
