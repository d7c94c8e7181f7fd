SPECIFICATION Spec
CONSTANTS
  c1 = c1
  c2 = c2
  ta = ta
  tb = tb
  Client = {c1}
  Host = host
  Texts = {ta}
  Events = {"say", "reply", "move", "away", "drop"}
  MaxSays = 2
  MaxActs = 6
  Stream = stream
  None = None
  History <- NoHistory
INVARIANTS OneReply TokensBeforeEnd 
CHECK_DEADLOCK FALSE
