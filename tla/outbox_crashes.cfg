SPECIFICATION Spec
CONSTANTS
  a1 = a1
  a2 = a2
  o1 = o1
  o2 = o2
  w1 = w1
  w2 = w2
  Actions = {a1}
  Operators = {o1}
  Workers = {w1, w2}
  MaxAttempts = 2
  PolicySettings <- SandboxOrKilled
  Scenario <- AllSucceed
  Undeliverable = {}
  Verified = {}
  Faults <- CrashesAndErrors
  NoteCap = 2
  ActionTypes = {"ticket_note"}
  SandboxEnabled = TRUE
SYMMETRY WorkerSymmetry
INVARIANTS
  ReviewedBeforeDelivery
  DeliveredHasAttempt
  ClaimIsRecoverable
  OneWorkerPerItem
