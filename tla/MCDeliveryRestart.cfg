\* One delivery, three connections, two runs of the daemon and one restart of
\* the server.
SPECIFICATION Spec
CONSTANTS
  Messages = {m1}
  NoMessage = NoMessage
  MaxDeliveries = 1
  MaxConnections = 3
  MaxRuns = 2
  MaxServerRestarts = 1
  MaxFrames = 3
CONSTRAINT FewFrames
INVARIANTS
  TypeOK
  AckMeansAccepted
  AtMostOneResponse
  OncePerRun
  ServerUsesDaemonsSocket
PROPERTIES
  FinishedNeverRerun
  KeepsPromise
CHECK_DEADLOCK FALSE
