SPECIFICATION Spec
CONSTANTS
  h = h
  h2 = h2
  c1 = c1
  c2 = c2
  home = home
  away = away
  ra = ra
  rb = rb
  None = None
  Conn = {h, h2, c1}
  HostTabs = {h, h2}
  Outdated = {}
  Garbled = {}
  Ip = {home, away}
  Reports = {ra, rb}
  RequireParity = TRUE
  Ops = {"report", "invalid", "persona"}
  BigOps = {"report"}
  Events = {}
  MaxPeers = 4
  MaxLobby = 2
  MaxPending = 1
  MaxFailures = 2
  OocKeep = 1
  MaxOoc = 0
  MaxGen = 1
  MaxBacklog = 0
  IpOf <- MCIpOf
INVARIANTS TypeOK OneHost NobodyLeftWaiting
PROPERTIES AdmittedByGate 
SYMMETRY Symmetry
CHECK_DEADLOCK FALSE
