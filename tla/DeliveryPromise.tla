---------------------------- MODULE DeliveryPromise ----------------------------
(***************************************************************************)
(* What the MagClaw delivery relay promises about agent deliveries, with   *)
(* no connection, socket or frame in sight.                                *)
(*                                                                         *)
(* The cloud (server/cloud/daemon-relay.js) keeps a phase for every        *)
(* delivery and the chat keeps the agent's answers; the computer           *)
(* (cli-core/src/cli.js) keeps a ledger of the deliveries it accepted.     *)
(* The promise:                                                            *)
(*   - the cloud takes a delivery for received, finished or answered only  *)
(*     if the computer holds it in its ledger;                             *)
(*   - a delivery is answered in the chat at most once;                    *)
(*   - a delivery never returns to an earlier phase, except that a         *)
(*     restarted server resumes from the state it last persisted.          *)
(***************************************************************************)
EXTENDS Naturals

CONSTANT Deliveries       \* the delivery ids

VARIABLES
  phase,      \* phase[d]: what the cloud holds of d
  answers,    \* answers[d]: the answers to d posted in the chat
  saved,      \* the phase and answers last persisted
  journal     \* the deliveries in the computer's ledger

vars == <<phase, answers, saved, journal>>

Phases == {"none", "pending", "taken", "done"}

TypeOK ==
  /\ phase \in [Deliveries -> Phases]
  /\ answers \in [Deliveries -> {0, 1}]
  /\ saved \in [phase : [Deliveries -> Phases],
                answers : [Deliveries -> {0, 1}]]
  /\ journal \in SUBSET Deliveries

Init ==
  /\ phase = [d \in Deliveries |-> "none"]
  /\ answers = [d \in Deliveries |-> 0]
  /\ saved = [phase |-> phase, answers |-> answers]
  /\ journal = {}

\* The cloud queues a new delivery.
Request(d) ==
  /\ phase[d] = "none"
  /\ phase' = [phase EXCEPT ![d] = "pending"]
  /\ UNCHANGED <<answers, saved, journal>>

\* The computer records a delivery it received.
Accept(d) ==
  /\ journal' = journal \cup {d}
  /\ UNCHANGED <<phase, answers, saved>>

\* The cloud learns that the computer accepted d.
Take(d) ==
  /\ d \in journal
  /\ phase[d] = "pending"
  /\ phase' = [phase EXCEPT ![d] = "taken"]
  /\ UNCHANGED <<answers, saved, journal>>

\* The cloud learns that the computer is through with d.
Finish(d) ==
  /\ d \in journal
  /\ phase[d] \in {"pending", "taken"}
  /\ phase' = [phase EXCEPT ![d] = "done"]
  /\ UNCHANGED <<answers, saved, journal>>

\* The agent's answer to d reaches the chat.  A server that lost d in a
\* restart still posts the answer.
Answer(d) ==
  /\ d \in journal
  /\ answers[d] = 0
  /\ answers' = [answers EXCEPT ![d] = 1]
  /\ phase' = IF phase[d] = "none" THEN phase
                                   ELSE [phase EXCEPT ![d] = "done"]
  /\ UNCHANGED <<saved, journal>>

\* The server persists its state.
Save ==
  /\ saved' = [phase |-> phase, answers |-> answers]
  /\ UNCHANGED <<phase, answers, journal>>

\* The server restarts from the state it persisted.
Recover ==
  /\ phase' = saved.phase
  /\ answers' = saved.answers
  /\ UNCHANGED <<saved, journal>>

Next ==
  \/ \E d \in Deliveries :
       Request(d) \/ Accept(d) \/ Take(d) \/ Finish(d) \/ Answer(d)
  \/ Save
  \/ Recover

Spec == Init /\ [][Next]_vars
================================================================================
