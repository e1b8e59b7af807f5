---------------------------- MODULE NotifyOwner ----------------------------
(***************************************************************************)
(* The owner's side of Notify (notify-owner/src/handler.js): a request to  *)
(* post in a group is posted when the requester has a grant for it, and    *)
(* else waits, with others like it, for one decision of the owner.  What   *)
(* is decided and what is posted is kept in SQLite (store.js); a plugin    *)
(* host (plugin-host.js) that starts again goes on from there.             *)
(*                                                                         *)
(* One requester and one group, all configured, and confirmations of       *)
(* target access only.  A call reads, awaits, and writes back whole        *)
(* records: of a confirmation, of all of them, of the grants.              *)
(* Confirmations are numbered as they are made.  The group is              *)
(* external: a post with the key of an earlier one shows nothing new.       *)
(***************************************************************************)
EXTENDS Naturals, Sequences, FiniteSets, SequencesExt

CONSTANTS
  Requests,
  MaxHitches     \* bound: cards, deadlines, grants taken back, ends of the process

VARIABLES
  confirmations, grant, intents,    \* SQLite
  overdue,       \* the confirmations whose 24 hours are over
  posted,        \* what is to be read in the group
  refused,       \* of which requests the cloud was told that they are not posted
  request,       \* where prepareNotifyDelivery of a request is
  delivery,      \* where processAuthorizedNotifyDelivery is, and for whom
  deciding, prompting, expiring,    \* the calls about confirmations
  host,          \* up, or recovering
  approved,      \* history: what the owner, or a grant, let through
  undone,        \* history: requests in a record replaced by an older copy
  dropped,       \* history: let through by a grant, and lost with the process
  hitches

database == <<confirmations, grant, intents>>
calls == <<request, delivery, deciding, prompting, expiring>>
outside == <<overdue, posted, refused>>
history == <<approved, undone, dropped>>
notifyVars == <<database, calls, outside, host, history, hitches>>

Numbers == 1 .. Cardinality(Requests)
Decisions == {"once", "always", "rejected"}
Grants == {"none", "active", "over"}
Ids(record) == ToSet(record.ids)

NoDelivery == [at |-> "none", of |-> 0]
NoDecision == [at |-> "idle", record |-> <<>>, left |-> <<>>, answers |-> {}]
NoCopy == [at |-> "idle", copy |-> <<>>]

NotifyInit ==
  /\ confirmations = <<>> /\ grant = "none" /\ intents = [r \in Requests |-> "none"]
  /\ overdue = {} /\ posted = {} /\ refused = {}
  /\ request = [r \in Requests |-> [at |-> "new", grant |-> "none"]]
  /\ delivery = [r \in Requests |-> NoDelivery]
  /\ deciding = [c \in Numbers |-> NoDecision] /\ prompting = [c \in Numbers |-> NoCopy]
  /\ expiring = NoCopy /\ host = "up"
  /\ approved = {} /\ undone = {} /\ dropped = {}
  /\ hitches = 0

-----------------------------------------------------------------------------
(* Records are written back as they were read, but for what the call       *)
(* changes (writeConfirmation has no comparison).                          *)

\* The requests of records that lose a decision, or a request, to the copy.
UndoneBy(copy) ==
  UNION {Ids(confirmations[c]) : c \in
           {i \in DOMAIN copy :
              \/ confirmations[i].status \notin {"pending", copy[i].status}
              \/ ~ Ids(confirmations[i]) \subseteq Ids(copy[i])}}

\* All confirmations are written: writeJson of pending.
WriteAll(copy) ==
  /\ confirmations' = [c \in DOMAIN confirmations |->
                         IF c \in DOMAIN copy THEN copy[c] ELSE confirmations[c]]
  /\ undone' = undone \cup UndoneBy(copy)

\* One is: persistPendingRecord.
WriteOne(c, record) == WriteAll([confirmations EXCEPT ![c] = record])

-----------------------------------------------------------------------------
(* Grants.                                                                 *)

\* revokeNotifyTargetGrant, after it has read them.
RevokeGrant ==
  /\ host = "up" /\ grant = "active" /\ hitches < MaxHitches
  /\ grant' = "over" /\ hitches' = hitches + 1
  /\ UNCHANGED <<confirmations, intents, calls, outside, host, history>>

-----------------------------------------------------------------------------
(* A request arrives.                                                      *)

Locked == \E r \in Requests : request[r].at = "locked"

\* prepareNotifyDelivery up to the state it reads under the lock.
Receive(r) ==
  /\ host = "up" /\ request[r].at = "new" /\ ~Locked
  /\ request' = [request EXCEPT ![r] = [at |-> "locked", grant |-> grant]]
  /\ UNCHANGED <<database, delivery, deciding, prompting, expiring, outside, host,
                 history, hitches>>

\* The grant it has read is neither over nor used up for the day.
UseGrant(r) ==
  /\ request[r].grant = "active"
  /\ grant' = "active"
  /\ delivery' = [delivery EXCEPT ![r] = [at |-> "begin", of |-> 0]]
  /\ approved' = approved \cup {r}
  /\ UNCHANGED <<confirmations, prompting>>

Exists(c) == c \in DOMAIN confirmations     \* mutant: whatever was decided

\* Nobody has decided, and it is not too late.
IsOpen(c) == c \in DOMAIN confirmations /\ confirmations[c].status = "pending" /\ c \notin overdue

\* recordTargetAccessConfirmation: the first that waits takes it up.
Waiting == {c \in Numbers : IsOpen(c)}

JoinConfirmation(r) ==
  \E c \in Waiting :
    /\ \A d \in Waiting : c <= d
    /\ confirmations' = [confirmations EXCEPT ![c].ids = Append(@, r)]
    /\ prompting' = IF confirmations[c].prompt = "failed"
                    THEN [prompting EXCEPT ![c].at = "called"] ELSE prompting

NewConfirmation(r) ==
  /\ Waiting = {}
  /\ confirmations' = Append(confirmations,
       [status |-> "pending", ids |-> <<r>>, prompt |-> "none", done |-> FALSE])
  /\ prompting' = [prompting EXCEPT ![Len(confirmations) + 1].at = "called"]

\* The grants it has read are saved, one that is over marked so.
AskOwner(r) ==
  /\ \/ grant' = request[r].grant
     \/ request[r].grant = "active" /\ grant' = "over"
  /\ JoinConfirmation(r) \/ NewConfirmation(r)
  /\ UNCHANGED <<delivery, approved>>

\* The rest of it, the acknowledgement, and the calls that follow.
Prepared(r) ==
  /\ request[r].at = "locked"
  /\ UseGrant(r) \/ AskOwner(r)
  /\ request' = [request EXCEPT ![r].at = "prepared"]
  /\ UNCHANGED <<intents, deciding, expiring, outside, host, undone, dropped,
                 hitches>>

-----------------------------------------------------------------------------
(* A post: processAuthorizedNotifyDelivery.                                *)

DeliveryGoesTo(r, where, intent) ==
  /\ delivery' = [delivery EXCEPT ![r].at = where]
  /\ intents' = [intents EXCEPT ![r] = intent]
  /\ UNCHANGED <<confirmations, grant, request, deciding, prompting, expiring,
                 overdue, refused, host, history, hitches>>

\* The intent of the request is made, or found.
BeginDelivery(r) ==
  /\ delivery[r].at = "begin" /\ UNCHANGED posted
  /\ IF intents[r] \in {"done", "failed"} THEN DeliveryGoesTo(r, "finished", intents[r])
     ELSE IF intents[r] = "sent_unconfirmed" THEN DeliveryGoesTo(r, "finished", "done")
     ELSE DeliveryGoesTo(r, "sending", "sending")

\* The group shows it; a second one with its key changes nothing.
Show(r) ==
  /\ delivery[r].at = "sending" /\ posted' = posted \cup {r}
  /\ UNCHANGED <<database, calls, overdue, refused, host, history, hitches>>

TransportSent(r) ==
  /\ delivery[r].at = "sending" /\ r \in posted /\ UNCHANGED posted
  /\ DeliveryGoesTo(r, "sent", "sent_unconfirmed")

DeliveryDone(r) ==
  /\ delivery[r].at = "sent" /\ UNCHANGED posted
  /\ DeliveryGoesTo(r, "finished", "done")

\* An error of the transport, posted or not, or of what comes after it.
DeliveryFails(r) ==
  /\ delivery[r].at \in {"sending", "sent"} /\ UNCHANGED posted
  /\ DeliveryGoesTo(r, "finished", "failed")

Result(r) == IF intents[r] = "done" THEN "sent" ELSE "failed"

\* A post a grant let through, or that is recovered, is reported.
ReportDelivery(r) ==
  /\ delivery[r] = [at |-> "finished", of |-> 0]
  /\ delivery' = [delivery EXCEPT ![r] = NoDelivery]
  /\ UNCHANGED <<database, request, deciding, prompting, expiring, outside, host, history,
                 hitches>>

-----------------------------------------------------------------------------
(* A decision: completeTargetAccessConfirmation.                           *)

\* What is posted: all of them, or the first.
Allowed(decision, ids) ==
  IF decision = "always" THEN ids
  ELSE IF decision = "once" THEN SubSeq(ids, 1, 1) ELSE <<>>

\* The record as it is now goes with the call to its end.
Claim(c, status, left, answers) ==
  LET record == [confirmations[c] EXCEPT !.status = status]
  IN /\ confirmations' = [confirmations EXCEPT ![c] = record]
     /\ deciding' = [deciding EXCEPT ![c] =
          [at |-> "delivering", record |-> record, left |-> left, answers |-> answers]]

\* The owner's click or command, if nobody was faster.
Decide(c, decision) ==
  /\ host = "up" /\ ~Locked
  /\ IsOpen(c) /\ deciding[c].at = "idle"
  /\ Claim(c, decision, Allowed(decision, confirmations[c].ids), Ids(confirmations[c]))
  /\ grant' = IF decision = "always" THEN "active" ELSE grant
  /\ approved' = approved \cup ToSet(Allowed(decision, confirmations[c].ids))
  /\ UNCHANGED <<intents, request, delivery, prompting, expiring, outside, host,
                 undone, dropped, hitches>>

\* It comes too late: the record expires, or has, and nobody was told.
DecideLate(c) ==
  /\ host = "up" /\ ~Locked
  /\ c \in DOMAIN confirmations /\ deciding[c].at = "idle"
  /\ \/ confirmations[c].status = "pending" /\ c \in overdue
     \/ confirmations[c].status = "expired" /\ ~confirmations[c].done
  /\ Claim(c, "expired", <<>>, Ids(confirmations[c]))
  /\ UNCHANGED <<grant, intents, request, delivery, prompting, expiring, outside,
                 host, history, hitches>>

\* The posts are made one after the other.
DeliverNext(c) ==
  /\ deciding[c].left # <<>>
  /\ LET r == Head(deciding[c].left) IN
       \/ /\ delivery[r].at = "none"
          /\ delivery' = [delivery EXCEPT ![r] = [at |-> "begin", of |-> c]]
          /\ UNCHANGED deciding
       \/ /\ delivery[r] = [at |-> "finished", of |-> c]
          /\ delivery' = [delivery EXCEPT ![r] = NoDelivery]
          /\ deciding' = [deciding EXCEPT ![c].left = Tail(@)]
  /\ UNCHANGED <<database, request, prompting, expiring, outside, host, history,
                 hitches>>

\* reportConfirmationResults.
Answer(record, r) ==
  IF record.status = "expired" THEN "approval_expired"
  ELSE IF r \in ToSet(Allowed(record.status, record.ids)) THEN Result(r) ELSE "rejected"

ReportDecision(c) ==
  /\ deciding[c].at = "delivering" /\ deciding[c].left = <<>>
  /\ refused' = refused \cup
       {r \in deciding[c].answers :
          Answer(deciding[c].record, r) \in {"rejected", "approval_expired"}}
  /\ deciding' = [deciding EXCEPT ![c].at = "reported"]
  /\ UNCHANGED <<database, request, delivery, prompting, expiring, overdue, posted,
                 host, history, hitches>>

PersistDecision(c) ==
  /\ deciding[c].at = "reported"
  /\ WriteOne(c, [deciding[c].record EXCEPT !.done = TRUE])
  /\ deciding' = [deciding EXCEPT ![c] = NoDecision]
  /\ UNCHANGED <<grant, intents, request, delivery, prompting, expiring, outside, host,
                 approved, dropped, hitches>>

-----------------------------------------------------------------------------
(* The card for the owner: sendNotifyConfirmationPrompt.                   *)

PromptGoesTo(c, call) ==
  /\ prompting' = [prompting EXCEPT ![c] = call]
  /\ UNCHANGED <<grant, intents, request, delivery, deciding, expiring, outside, host,
                 approved, dropped>>

PromptReads(c) ==
  /\ prompting[c].at = "called" /\ hitches < MaxHitches /\ hitches' = hitches + 1
  /\ PromptGoesTo(c, [at |-> "read", copy |-> confirmations])
  /\ UNCHANGED <<confirmations, undone>>

\* After an await for the audit log the record is looked at, and all are written.
PromptStarts(c) ==
  /\ prompting[c].at = "read" /\ UNCHANGED hitches
  /\ LET record == prompting[c].copy[c]
         copy == [prompting[c].copy EXCEPT ![c].prompt = "dispatching"]
     IN IF record.status = "pending" /\ record.prompt \notin {"sent", "dispatching"}
        THEN PromptGoesTo(c, [at |-> "sending", copy |-> copy]) /\ WriteAll(copy)
        ELSE PromptGoesTo(c, NoCopy) /\ UNCHANGED <<confirmations, undone>>

\* The card is out, or is not: the record is written as it was read.
PromptEnds(c, outcome) ==
  /\ prompting[c].at = "sending" /\ UNCHANGED hitches
  /\ PromptGoesTo(c, NoCopy)
  /\ WriteOne(c, [prompting[c].copy[c] EXCEPT !.prompt = outcome])

-----------------------------------------------------------------------------
(* Time: expireNotifyConfirmations, every minute.                          *)

Deadline(c) ==
  /\ c \in DOMAIN confirmations \ overdue /\ hitches < MaxHitches
  /\ overdue' = overdue \cup {c} /\ hitches' = hitches + 1
  /\ UNCHANGED <<database, calls, posted, refused, host, history>>

ExpiredIn(copy) == {c \in DOMAIN copy : copy[c].status = "pending" /\ c \in overdue}

SweepReads ==
  /\ host = "up" /\ expiring.at = "idle" /\ ExpiredIn(confirmations) # {}
  /\ expiring' = [at |-> "read", copy |-> confirmations]
  /\ UNCHANGED <<database, request, delivery, deciding, prompting, outside, host,
                 history, hitches>>

\* Each is reported, with an await.
SweepReports ==
  /\ expiring.at = "read"
  /\ LET expired == ExpiredIn(expiring.copy)
         concerned == UNION {Ids(expiring.copy[c]) : c \in expired}
         copy == [c \in DOMAIN expiring.copy |->
                    IF c \in expired THEN [expiring.copy[c] EXCEPT !.status = "expired", !.done = TRUE]
                    ELSE expiring.copy[c]]
     IN /\ expiring' = [at |-> "reported", copy |-> copy]
        /\ undone' = undone \cup UndoneBy(copy)
        /\ refused' = refused \cup concerned
  /\ UNCHANGED <<database, request, delivery, deciding, prompting, overdue, posted,
                 host, approved, dropped, hitches>>

\* All are written, those that have not expired too.
SweepWrites ==
  /\ expiring.at = "reported"
  /\ WriteAll(expiring.copy) /\ expiring' = NoCopy
  /\ UNCHANGED <<grant, intents, request, delivery, deciding, prompting, outside,
                 host, approved, dropped, hitches>>

-----------------------------------------------------------------------------
(* The process ends, and recoverNotifyDeliveries.                          *)

Crash ==
  /\ hitches < MaxHitches /\ hitches' = hitches + 1
  /\ host' = "recovering"
  /\ dropped' = dropped \cup {r \in Requests : delivery[r] = [at |-> "begin", of |-> 0]
                                                 /\ intents[r] = "none"}
  /\ request' = [r \in Requests |->
                   IF request[r].at = "locked" THEN [at |-> "lost", grant |-> "none"] ELSE request[r]]
  /\ delivery' = [r \in Requests |-> NoDelivery]
  /\ deciding' = [c \in Numbers |-> NoDecision]
  /\ prompting' = [c \in Numbers |-> NoCopy] /\ expiring' = NoCopy
  /\ UNCHANGED <<database, outside, approved, undone>>

Recovering == /\ host = "recovering"
              /\ \A r \in Requests : delivery[r].at = "none"
              /\ \A c \in Numbers : deciding[c].at = "idle"

\* First the intents: what was sent is only reported, the others are posted again.
RecoverSent(r) ==
  /\ Recovering /\ intents[r] = "sent_unconfirmed"
  /\ intents' = [intents EXCEPT ![r] = "done"]
  /\ UNCHANGED <<confirmations, grant, calls, outside, host, history, hitches>>

RecoverIntent(r) ==
  /\ Recovering /\ intents[r] = "sending"
  /\ delivery' = [delivery EXCEPT ![r] = [at |-> "begin", of |-> 0]]
  /\ UNCHANGED <<database, request, deciding, prompting, expiring, outside, host,
                 history, hitches>>

NoIntentLeft == \A r \in Requests : intents[r] \in {"none", "done", "failed"}
\* mutant: without what was approved for good
OnceUnfinished == {c \in DOMAIN confirmations :
                     confirmations[c].status = "once" /\ ~confirmations[c].done}

Unfinished == {c \in DOMAIN confirmations :
                 confirmations[c].status \in {"once", "always"} /\ ~confirmations[c].done}

\* Then what was approved; only what is posted is reported.
RecoverDecision(c) ==
  /\ Recovering /\ NoIntentLeft /\ c \in Unfinished
  /\ LET allowed == Allowed(confirmations[c].status, confirmations[c].ids)
     IN Claim(c, confirmations[c].status, allowed, ToSet(allowed))
  /\ UNCHANGED <<grant, intents, request, delivery, prompting, expiring, outside, host,
                 history, hitches>>

HostUp ==
  /\ Recovering /\ NoIntentLeft /\ Unfinished = {}
  /\ host' = "up"
  /\ UNCHANGED <<database, calls, outside, history, hitches>>

-----------------------------------------------------------------------------
Delivering(r) ==
  \/ BeginDelivery(r) \/ Show(r) \/ TransportSent(r) \/ DeliveryDone(r) \/ DeliveryFails(r)
  \/ ReportDelivery(r)

Completing(c) == DeliverNext(c) \/ ReportDecision(c) \/ PersistDecision(c)

Prompts(c) == PromptReads(c) \/ PromptStarts(c) \/ \E o \in {"sent", "failed"} : PromptEnds(c, o)

Recover ==
  \/ \E r \in Requests : RecoverSent(r) \/ RecoverIntent(r)
  \/ \E c \in Numbers : RecoverDecision(c)
  \/ HostUp

NotifyNext ==
  \/ RevokeGrant
  \/ \E r \in Requests : Receive(r) \/ Prepared(r) \/ Delivering(r)
  \/ \E c \in Numbers :
       \/ DecideLate(c) \/ \E d \in Decisions : Decide(c, d)
       \/ Completing(c) \/ Prompts(c) \/ Deadline(c)
  \/ SweepReads \/ SweepReports \/ SweepWrites
  \/ Crash \/ Recover

NotifySpec == NotifyInit /\ [][NotifyNext]_notifyVars

\* What has begun goes on, the transport succeeds or fails, and a plugin host
\* that has ended starts again.
FairNotifySpec ==
  /\ NotifySpec /\ WF_notifyVars(Recover)
  /\ \A r \in Requests : WF_notifyVars(Delivering(r))
  /\ \A c \in Numbers : WF_notifyVars(Completing(c))

-----------------------------------------------------------------------------
Records == [status : {"pending", "expired"} \cup Decisions, ids : Seq(Requests),
            prompt : {"none", "dispatching", "sent", "failed"}, done : BOOLEAN]

NotifyTypeOK ==
  /\ confirmations \in Seq(Records) /\ Len(confirmations) <= Cardinality(Requests)
  /\ grant \in Grants
  /\ intents \in [Requests -> {"none", "sending", "sent_unconfirmed", "done", "failed"}]
  /\ overdue \subseteq DOMAIN confirmations
  /\ posted \subseteq Requests /\ undone \subseteq Requests /\ dropped \subseteq approved
  /\ \A r \in Requests : delivery[r].at \in {"none", "begin", "sending", "sent", "finished"}
  /\ \A c \in Numbers : deciding[c].at # "idle" => c \in DOMAIN confirmations
  /\ host \in {"up", "recovering"}

\* The owner decides: only what was let through is in the group, what the cloud
\* is about to hear was sent is there, and what it heard is not posted is not
\* there, through batches, late clicks, the sweep and restarts -- unless an older
\* copy of the record took the decision back.
ShownAsDecided ==
  /\ posted \subseteq approved
  /\ posted \cap refused \subseteq undone
  /\ \A r \in Requests : delivery[r].at = "finished" /\ Result(r) = "sent" => r \in posted

\* What was let through is posted, or has failed, whenever the process ends --
\* unless it was only in its memory, or an older copy of the record took it back.
IntentSettled(r) == intents[r] \in {"done", "failed"} \/ r \in dropped \cup undone

ApprovedIsPosted == \A r \in Requests : r \in approved ~> IntentSettled(r)
=============================================================================
