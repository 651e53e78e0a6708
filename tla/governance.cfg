SPECIFICATION Spec
CONSTANTS
  p1 = p1
  p2 = p2
  r1 = r1
  r2 = r2
  Types = {"ai", "retention"}
  Admins = {p1, p2}
  Bodies <- SwitchOffs
  MaxUpdates = 1
  Requests = {r1, r2}
  Purposes <- AnyAndChat
  Selections = {"ollama"}
  AiProvider = "ollama"
  LocalRuntime = "lmstudio"
  Configured = {"ollama", "lmstudio"}
  Fallback = {"lmstudio"}
SYMMETRY AdminSymmetry
INVARIANTS
  LoneUpdatesStand
  AnswersSeeTheirQuestion
  GenerationWasAllowed
PROPERTIES
  StoredAsRetained
CHECK_DEADLOCK FALSE
