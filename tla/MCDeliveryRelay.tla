---------------------------- MODULE MCDeliveryRelay ----------------------------
(* DeliveryRelay for TLC. *)
EXTENDS DeliveryRelay, FiniteSetsExt, TLC

CONSTANT MaxFrames       \* bound: frames on their way to one side

\* The chat messages are interchangeable; for the runs without liveness.
MessageSymmetry == Permutations(Messages)

\* At most MaxFrames frames are on their way to the daemon, and as many to the
\* server.
FewFrames ==
  /\ MapThenSumSet(LAMBDA c : Len(toDaemon[c]), Connections) <= MaxFrames
  /\ MapThenSumSet(LAMBDA c : Len(toServer[c]), Connections) <= MaxFrames
================================================================================
