SPECIFICATION MCSpec
CONSTANTS
  alice = alice  bob = bob  hub = hub
  Clients = {alice, hub}
  Peers = {hub}
  Ping <- MCPing
  LongestPing = 2
  Exempt = {hub}
  CONNECTTIMEOUT = 2
  PINGFREQUENCY = 2
  UNKNOWN_TIME = 1
  MaxStep = 1
  MaxAge = 10
  MaxBans = 1
INVARIANTS TypeOK RequestsAgree AuthEnds UnknownEnds
PROPERTIES DropsInTime Settles
CHECK_DEADLOCK FALSE
