SPECIFICATION MCSpec
CONSTANTS
  \* Confs
  Users = {u1, u2}
  Peers = {s1}
  Ports = {p}
  IpLimit = 1
  MaxConf = 6
  MaxClass = 6
  NoPort = NoPort
  AddressOf <- MCAddress
  Files <- MCFiles
  \* Mtrie
  MaxILines = 2
  MaxLines = 3
  \* IpLines
  Size = 8
  Blocks = {1, 2, 4}
  Exceptions = {3, 4}
  MaxDlines = 4
  MaxIpKlines = 2
  \* Masks
  MATCH_MAX_CALLS = 9
  \* Autoconn
  n1 = n1 n2 = n2
  Hub = TRUE
  MIN_CONN_FREQ = 2
  HANGONGOODLINK = 2
  HANGONRETRYDELAY = 1
  HandshakeTime = 1
  MaxConns = 2
  MaxLineIds = 3
  MaxOrders = 1
  RehashInLookup = TRUE
  Never = Never
  NoName = NoName
INVARIANT LookupValid
CHECK_DEADLOCK FALSE
