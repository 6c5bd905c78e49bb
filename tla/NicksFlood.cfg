SPECIFICATION Spec
CONSTANTS
  alice = alice  rem = rem  x = x  y = y
  NoClient = NoClient  NoNick = NoNick
  Clients = {alice, rem}
  Nicks = {x, y}
  NICKNAMEHISTORYLENGTH = 3
  KILLCHASETIMELIMIT = 1
  Locals = {alice}
  Linked = TRUE
  Admins = {}
  Opers = {}
  UserHost <- Twins
  MaxTS = 3
  ANTI_NICK_FLOOD = TRUE
  MAX_NICK_TIME = 0
  MAX_NICK_CHANGES = 2
  FNICK = FALSE
INVARIANTS UplinkKnows
CHECK_DEADLOCK FALSE
