SPECIFICATION BridgeFairSpec
CONSTANTS
  a1 = a1
  o1 = o1
  w1 = w1
  w2 = w2
  Actions = {a1}
  Operators = {o1}
  Workers = {w1}
  MaxAttempts = 2
  PolicySettings <- SandboxOnly
  Scenario <- AllSucceed
  Undeliverable = {}
  Verified = {}
  Faults <- SlowOrDead
  NoteCap = 2
  Backends <- BothBackends
  MaxRestarts = 1
  NoAction = NoAction
  ActionTypes = {"ticket_note"}
  SandboxEnabled = TRUE
PROPERTIES
  ItemsSettle
  EnvelopesAcked
CHECK_DEADLOCK FALSE
