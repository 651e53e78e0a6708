SPECIFICATION FairSpec
CONSTANTS
  k1 = k1
  m1 = m1
  m2 = m2
  r1 = r1
  r2 = r2
  Keys = {k1}
  Machines = {m1, m2}
  KeyOf <- MCKeyOf
  Runs = {r1, r2}
  MachineOf <- MCMachineOf
  Calls = {q1, q2, q3}
  MaxTokens = 3
  MaxFaults = 1
INVARIANTS TokenStands KeptTokenWasSaved ReportsOfTheDevice
 
CHECK_DEADLOCK FALSE
