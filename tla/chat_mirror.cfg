SPECIFICATION Spec
CONSTANTS
  c1 = c1
  c2 = c2
  ta = ta
  tb = tb
  Client = {c1, c2}
  Host = host
  Texts = {ta, tb}
  Events = {"say", "edit", "delete", "move", "away", "drop"}
  MaxSays = 2
  MaxActs = 4
  Stream = stream
  None = None
  History <- NoHistory
INVARIANTS TypeOK 
PROPERTIES  ImplementsTranscript
SYMMETRY Symmetry
CHECK_DEADLOCK FALSE
