SPECIFICATION MCSpec
CONSTANTS
  alice = alice  bob = bob  hub = hub
  Clients = {alice, bob}
  Peers = {}
  Ping <- MCPing
  LongestPing = 2
  Exempt = {}
  CONNECTTIMEOUT = 2
  PINGFREQUENCY = 3
  UNKNOWN_TIME = 1
  MaxStep = 1
  MaxAge = 10
  MaxBans = 2
INVARIANTS HuntDue
CHECK_DEADLOCK FALSE
