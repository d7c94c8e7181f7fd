SPECIFICATION FairSpec
CONSTANTS
  h = h
  h2 = h2
  c1 = c1
  c2 = c2
  home = home
  away = away
  ra = ra
  rb = rb
  None = None
  Conn = {h, c1, c2}
  HostTabs = {h}
  Outdated = {c2}
  Garbled = {c1}
  Ip = {home, away}
  Reports = {ra, rb}
  RequireParity = TRUE
  Ops = {}
  BigOps = {}
  Events = {"timeout", "stop"}
  MaxPeers = 4
  MaxLobby = 2
  MaxPending = 2
  MaxFailures = 2
  OocKeep = 1
  MaxOoc = 0
  MaxGen = 2
  MaxBacklog = 0
  IpOf <- MCIpOf
PROPERTIES HandshakesEnd DoomedSocketsClose
CHECK_DEADLOCK FALSE
