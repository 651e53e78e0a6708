SPECIFICATION Spec
CONSTANTS
  i1 = i1
  i2 = i2
  d1 = d1
  u1 = u1
  u2 = u2
  r1 = r1
  r2 = r2
  Invocations = {i1}
  Diagnostics = {d1}
  MaxCommands = 2
  Users = {u1, u2}
  Runs = {r1}
  Risk <- AllApproval
  Faults <- CrashesAndLostReplies
SYMMETRY UserSymmetry
INVARIANTS
  OneCommandPerInvocation
CHECK_DEADLOCK FALSE
