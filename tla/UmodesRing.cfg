SPECIFICATION Spec
CONSTANTS
  root = root  oper = oper  rem = rem  NoClient = NoClient
  Clients = {root, oper, rem}
  Locals = {root, oper}
  Letters = {"O", "i", "n", "o", "w"}
  ServerLetters = {}
  Ghosts = FALSE
  OLine <- OLines
  NFlag = {root}
  Hold <- Default
  Flined = {}
  MAXCLIENTS = 9
  MAX_BUFFER = 1
  Spare = 5
  MaxOff = 2
INVARIANTS OperListIsList
CHECK_DEADLOCK FALSE
