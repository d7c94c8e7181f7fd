SPECIFICATION FairSpec
CONSTANTS
  h = h
  h2 = h2
  c1 = c1
  c2 = c2
  home = home
  away = away
  ra = ra
  rb = rb
  None = None
  Conn = {h, c1}
  HostTabs = {h}
  Outdated = {}
  Garbled = {}
  Ip = {home, away}
  Reports = {ra, rb}
  RequireParity = TRUE
  Ops = {"report", "turn", "cast"}
  BigOps = {}
  Events = {"again", "lobby", "kick", "ban", "silent", "stop", "error"}
  MaxPeers = 4
  MaxLobby = 2
  MaxPending = 3
  MaxFailures = 2
  OocKeep = 1
  MaxOoc = 0
  MaxGen = 1
  MaxBacklog = 0
  IpOf <- MCIpOf
INVARIANTS JoinAnnouncedOnce
PROPERTIES LobbyWaitsEnd ImplementsRoom
CHECK_DEADLOCK FALSE
