SPECIFICATION Spec
CONSTANTS
  h = h
  h2 = h2
  c1 = c1
  c2 = c2
  home = home
  away = away
  ra = ra
  rb = rb
  None = None
  Conn = {h, c1, c2}
  HostTabs = {h}
  Outdated = {}
  Garbled = {}
  Ip = {home, away}
  Reports = {ra, rb}
  RequireParity = FALSE
  Ops = {"persona", "ooc", "private", "name"}
  BigOps = {}
  Events = {}
  MaxPeers = 4
  MaxLobby = 2
  MaxPending = 1
  MaxFailures = 2
  OocKeep = 1
  MaxOoc = 1
  MaxGen = 1
  MaxBacklog = 0
  IpOf <- MCIpOf
INVARIANTS NewcomersCaughtUp SeatedFirst PrivateStaysPrivate RosterConverges
 
SYMMETRY Symmetry
CHECK_DEADLOCK FALSE
