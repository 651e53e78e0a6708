SPECIFICATION Spec
CONSTANTS
  s1 = s1
  s2 = s2
  c1 = c1
  o1 = o1
  k1 = k1
  k2 = k2
  t1 = t1
  r1 = r1
  d1 = d1
  Sessions = {s1, s2}
  Calls = {c1}
  Observations = {o1}
  Packets = {k1, k2}
  Tickets = {t1}
  Recordings = {r1}
  Drafts = {d1}
  Requests = {p1, p2}
  Nothing = Nothing
  Pools <- MCPools
INVARIANTS ListedRowsExist LinkedCallIsListed
PROPERTIES LinkStays LifecycleKept PacketOfApproved
CHECK_DEADLOCK FALSE
