--------------------------- MODULE MCPartsSafety ---------------------------
(***************************************************************************)
(* Three parts that share no state, for safety: every behaviour runs one   *)
(* of them, and the others stay as they start.  Init, Next, Spec and vars  *)
(* are those of StateSaves.                                                *)
(***************************************************************************)
EXTENDS StateSaves, DaemonSessions, NotifyOwner, TLC

CONSTANTS d1, d2, d3    \* deliveries

VARIABLE part

\* Two lanes of agent a, one of b; two deliveries are for the same lane.
LaneAgents == [a1 |-> "a", a2 |-> "a", b1 |-> "b"]
DeliveryLanes == d1 :> "a1" @@ d2 :> "a2" @@ d3 :> "a1"

\* The deliveries of a lane are interchangeable, and so are the workspaces.
PartsSymmetry == Permutations({d1, d3}) \cup Permutations(Workspaces)

\* Saves with writes that fail, or with rows that are read.
NothingRead == reader' = reader
NothingFails == failures' = 0

\* Three deliveries, or two and an upgrade.
NoUpgrade == upgrade' = "none"
TwoDeliveries == \E d \in {d1, d3} : call'[d].phase = "new"

PartsInit ==
  /\ part \in {"saves", "reading", "sessions", "upgrading", "notify"}
  /\ Init /\ DaemonInit /\ NotifyInit

PartsNext ==
  /\ UNCHANGED part
  /\ \/ part = "saves" /\ Next /\ NothingRead /\ UNCHANGED <<daemonVars, notifyVars>>
     \/ part = "reading" /\ Next /\ NothingFails /\ UNCHANGED <<daemonVars, notifyVars>>
     \/ part = "sessions" /\ DaemonNext /\ NoUpgrade /\ UNCHANGED <<vars, notifyVars>>
     \/ part = "upgrading" /\ DaemonNext /\ TwoDeliveries /\ UNCHANGED <<vars, notifyVars>>
     \/ part = "notify" /\ NotifyNext /\ UNCHANGED <<vars, daemonVars>>

PartsSpec == PartsInit /\ [][PartsNext]_<<part, vars, daemonVars, notifyVars>>
=============================================================================
