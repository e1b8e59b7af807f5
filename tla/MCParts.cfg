\* One part at a time.  CodexTurns: two prompts, two troubles (requests
\* refused, exits).  ReminderScheduler: two reminders, one of them perhaps
\* further off than a timer reaches, a delivery that throws, a crash.  The bounds
\* of the other parts are in the module.
SPECIFICATION FairPartsSpec
CONSTANTS
  Deliveries = {d1, d2}
  MaxTrouble = 2
  Reminders = {r1, r2}
  MaxDelay = 1
  MaxClock = 2
  MaxHitches = 1
INVARIANTS
  PartsTyped
  TakenOnce
  CompletedIsMarked
  ShownOnce
PROPERTIES
  EverythingIsSent
  WorkGoesOn
  UpgradeGoesOn
  TurnsGoOn
  CanceledStaysSilent
  NearOnesFire
  QueueDrains
  SavesSettle
  ApprovedIsPosted
CHECK_DEADLOCK FALSE
