SPECIFICATION Spec
CONSTANTS
  Id = {a, b}
  Text = {1, 2}
  MaxImages = 2
  Job = {j1, j2}
  MaxConn = 2
  MaxActs = 3
  None = None
INVARIANTS  FaceBelongs PromptStaysInRoom
CHECK_DEADLOCK FALSE
