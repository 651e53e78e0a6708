SPECIFICATION Spec
CONSTANTS
  Sessions = {s1, s2}
  Opened = {s1}
  x1 = x1
  x2 = x2
  Texts = {x1, x2}
  NoSession = NoSession
  NoText = NoText
  Handlers = {"ticket", "draft"}
  Calls = {c1, c2}
  NoCall = NoCall
  CallTools = {"control", "webhook", "greeting", "recording", "observation", "sharing", "capture"}
  Devices = {d1, d2}
  NoDevice = NoDevice
  Installations = {i1, i2}
  Descriptions = {w1}
  NoDescription = NoDescription
  Credentials = {k1}
  ConnectorTools = {"edit", "link", "validate"}
  Deliveries = {p1, p2}
  Tabs <- TwoTabs
  PolicyTools = {"panel", "editor", "validation"}
  BrowserTabs = {b1, b2}
  NoTab = NoTab
  Users = {u1, u2}
  NoUser = NoUser
  MaxRequests = 3
  MaxWaiting = 2
INVARIANTS TicketOfSession WrittenAsReviewed  ButtonsReleased  OneSessionPerFlow ActsAsShown
PROPERTY EditsKept
SYMMETRY Symmetry
CHECK_DEADLOCK FALSE
