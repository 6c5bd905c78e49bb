SPECIFICATION Spec
CONSTANTS
  alice = alice  root = root  rem = rem  c1 = c1
  Server = Server
  Users = {alice, rem}
  Locals = {alice}
  Opers = {}
  Admins = {}
  Linked = TRUE
  Channels = {c1}
  Letters = {"i"}
  MaxLimit = 0
  MaxKey = 0
  Masks <- NoMasks
  Hits <- NoHits
  Covers <- NoHits
  MaxTS = 1
  FJOIN = TRUE
  MAXCHANNELSPERUSER = 1
  MAXBANS = 0
INVARIANTS NoGhostChannel
CHECK_DEADLOCK FALSE
