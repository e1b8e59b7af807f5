\* One delivery, three connections, two runs of the daemon; the server stays
\* up.  MaxFrames is not used.
SPECIFICATION FairSpec
CONSTANTS
  Messages = {m1}
  NoMessage = NoMessage
  MaxDeliveries = 1
  MaxConnections = 3
  MaxRuns = 2
  MaxServerRestarts = 0
  MaxFrames = 3
PROPERTY EveryDeliveryTaken
CHECK_DEADLOCK FALSE
