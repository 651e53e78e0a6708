SPECIFICATION FairSpec
CONSTANTS
  i1 = i1
  i2 = i2
  d1 = d1
  u1 = u1
  u2 = u2
  r1 = r1
  r2 = r2
  Invocations = {i1, i2}
  Diagnostics = {}
  MaxCommands = 2
  Users = {u1}
  Runs = {r1, r2}
  Risk <- ApprovalAndElevated
  Faults <- NoFaults

  
PROPERTIES
  InvocationsFinish
CHECK_DEADLOCK FALSE
