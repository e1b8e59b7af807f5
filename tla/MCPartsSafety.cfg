\* One part at a time.  StateSaves: two workspaces and one connection for them,
\* two saves and an operation on accounts, with two failed writes, or with a request
\* that reads rows.  DaemonSessions: one slot, one start at a time, three deliveries,
\* or two and an upgrade, one command of the server or fault.  NotifyOwner: two
\* requests, and one card, deadline, revocation or restart.
SPECIFICATION PartsSpec
CONSTANTS
  Workspaces = {w1, w2}
  All = All
  Operations = {o}
  Readers = {r}
  Slots = 1
  MaxSaves = 2
  MaxFailures = 2
  d1 = d1
  d2 = d2
  d3 = d3
  Lanes = {"a1", "a2", "b1"}
  AgentOf <- LaneAgents
  Deliveries = {d1, d2, d3}
  LaneOf <- DeliveryLanes
  AgentSlots = 1
  ComputerSlots = 1
  MaxStarts = 1
  MaxUpgrades = 1
  MaxTrouble = 1
  Requests = {r1, r2}
  MaxHitches = 1
SYMMETRY PartsSymmetry
INVARIANTS
  FullRunsAlone
  StoredUnlessLost
  NoLostWakeup
  ShownAsDecided
CHECK_DEADLOCK FALSE
