\* Two deliveries of one or two messages, two connections, two runs of the
\* daemon.
SPECIFICATION Spec
CONSTANTS
  Messages = {m1, m2}
  NoMessage = NoMessage
  MaxDeliveries = 2
  MaxConnections = 2
  MaxRuns = 2
  MaxServerRestarts = 0
  MaxFrames = 2
SYMMETRY MessageSymmetry
CONSTRAINT FewFrames
INVARIANTS
  OneActivePerMessage
  GraceMeansGone
  NothingStranded
CHECK_DEADLOCK FALSE
