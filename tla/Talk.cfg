SPECIFICATION MCSpec
CONSTANTS
  a = a b = b c = c u1 = u1 u2 = u2 u3 = u3 u4 = u4
  NoOne = NoOne
  \* Modes
  MAXBANS = 2
  MaxChanges = 2
  \* KLines
  p1 = p1 p2 = p2 kw = kw ki = ki d1 = d1
  People = {p1, p2}
  KMasks = {kw, ki}
  IpMasks = {ki}
  DMasks = {d1}
  Hits <- MCHits
  Matchers <- MCMatchers
  Within <- MCWithin
  Ilined = {p1, p2}
  Elined = {p2}
  Exempt = {}
  KFlag = FALSE
  MaxHold = 1
  MaxTemp = 1
  MaxPending = 1
  MaxFaults = 1
  \* Talk
  Server <- Servers
  Edge <- Edges
  Hop <- Hops
  User <- Persons
  Home <- Homes
  World <- Worlds
  Nobody = Nobody
  \* Queries
  c1 = c1 c2 = c2
  Person <- Askers
  LocalPerson <- LocalAskers
  Channel <- AskedOf
  Scene <- Scenes
  NoChannel = NoChannel
  \* Hash
  Clients = {x, y, z}
  NoClient = NoClient
  n1 = n1 n2 = n2 h1 = h1 h2 = h2
  Nick <- Nicks
  Host <- Hosts
  Masks <- MaskList
  Bucket <- Buckets
  Slot <- Slots
  NoName = NoName
  \* Drone
  DRONETIME = 2
  DRONECOUNT = 1
  Sendq = 4
  MaxTime = 5
INVARIANTS ModesAgree EveryoneOnce Discreet LostInFloodOnly Filing
 
CHECK_DEADLOCK FALSE
