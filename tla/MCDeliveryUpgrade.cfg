\* One delivery and one restart of the server, from which the daemon
\* reconnects.  MaxFrames is not used.
SPECIFICATION FairSpec
CONSTANTS
  Messages = {m1}
  NoMessage = NoMessage
  MaxDeliveries = 1
  MaxConnections = 2
  MaxRuns = 1
  MaxServerRestarts = 1
  MaxFrames = 3
PROPERTY EveryDeliveryTaken
CHECK_DEADLOCK FALSE
