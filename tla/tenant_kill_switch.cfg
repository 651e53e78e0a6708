CONSTANTS
  c1 = c1
  c2 = c2
  tenant = tenant
  x1 = x1
  x2 = x2
  ActionTypes = {"ticket_note"}
  SandboxEnabled = TRUE
  Connectors = {c1}
  Tenant = tenant
  Seeded = {tenant}
  Seeds <- DevSeed
  Verified = {}
  Active = {c1}
  Admins = {x1, x2}
  Patches <- SwitchPatches
  MaxUpdates = 3
SPECIFICATION Spec
SYMMETRY AdminSymmetry
INVARIANT TenantKillSwitchBlocks
