SPECIFICATION ReportSpec
CONSTANTS
  a1 = a1
  a2 = a2
  o1 = o1
  o2 = o2
  w1 = w1
  w2 = w2
  Actions = {a1}
  Operators = {o1, o2}
  Workers = {w1}
  MaxAttempts = 2
  PolicySettings <- SandboxOrMock
  Scenario <- FailOnce
  Undeliverable = {}
  Verified = {}
  Faults <- TargetFaults
  NoteCap = 2
  ActionTypes = {"ticket_note"}
  SandboxEnabled = TRUE
SYMMETRY OperatorSymmetry
INVARIANTS
  AtMostOneNote
  RowsAgree
  ReportsHoldTogether
PROPERTIES
  FinalStatusKept PromiseKept
