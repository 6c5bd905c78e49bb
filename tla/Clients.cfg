SPECIFICATION MCSpec
CONSTANTS
  alice = alice  root = root  oper = oper  bob = bob  rem = rem
  x = x  y = y  z = z
  NoClient = NoClient  NoNick = NoNick
  Clients = {alice, root, rem}
  Nicks = {x, y, z}
  NICKNAMEHISTORYLENGTH = 2
  KILLCHASETIMELIMIT = 1
  Locals = {alice, root}
  Linked = TRUE
  Admins = {}
  Opers = {}
  UserHost <- Twins
  MaxTS = 3
  ANTI_NICK_FLOOD = TRUE
  MAX_NICK_TIME = 0
  MAX_NICK_CHANGES = 2
  FNICK = FALSE
SYMMETRY NickSymmetry
INVARIANTS TypeOK TableAgrees NickUnique HistoryAgrees KillHitsLastHolder NicksKnown
INVARIANTS CountersRight OpersAgree ModesTold
CHECK_DEADLOCK FALSE
