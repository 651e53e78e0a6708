CONSTANTS
  c1 = c1
  c2 = c2
  tenant = tenant
  x1 = x1
  x2 = x2
  ActionTypes = {"ticket_note"}
  SandboxEnabled = TRUE
  Connectors = {c1, c2}
  Tenant = tenant
  Seeded = {tenant, c1}
  Seeds <- SeedRows
  Verified = {}
  Active = {c1, c2}
  Admins = {x1, x2}
  Patches <- GatePatches
  MaxUpdates = 2
SPECIFICATION Spec
SYMMETRY AdminSymmetry
INVARIANTS
  QueuedStaysDeliverable
  
PROPERTIES
  LoneUpdatesKept
