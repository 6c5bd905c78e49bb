SPECIFICATION MCSpec
CONSTANTS
  \* Channel
  alice = alice  root = root  rem = rem  c1 = c1
  Server = Server
  Users = {alice, root, rem}
  Locals = {alice, root}
  Opers = {root}
  Admins = {root}
  Linked = TRUE
  Channels = {c1}
  Letters = {"i"}
  MaxLimit = 0
  MaxKey = 0
  Masks <- NoMasks
  Hits <- NoHits
  Covers <- NoHits
  MaxTS = 2
  FJOIN = TRUE
  MAXCHANNELSPERUSER = 1
  MAXBANS = 0
  \* Links and Tree
  a = a b = b c = c u1 = u1 u2 = u2
  NoOne = NoOne
  NoCommand = NoCommand
INVARIANTS TypeOK LinksAgree CountersAgree InvitesAgree NetAgrees PersonsServed
CHECK_DEADLOCK FALSE
