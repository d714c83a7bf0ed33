CONSTANTS
  Alerts = {1, 2}
  Timeout = 3
  TickMs = 2
  Slots = 2
  Ahead = 1
  MaxNow = 9
SPECIFICATION FairSpec
INVARIANTS EscalatesOnTime
PROPERTIES EscalatedOnce NoAlertForgotten ImplementsDeadlines
