SPECIFICATION Spec
CONSTANTS
  r1 = r1
  r2 = r2
  p = p
  q = q
  None = None
  Port = {p}
  Req = {r1, r2}
  Exit = exit
  Caller = {r1, r2, exit}
  Lease = 3
  Margin = 1
  MaxTries = 1
  Speaks = {"NAT-PMP", "UPnP"}
  Faults = {}
  MaxPerTick = 2
PROPERTIES ClosedBeforeReleased
