SPECIFICATION MCSpec
CONSTANTS
  alice = alice  bob = bob  root = root  rem = rem
  c1 = c1  c2 = c2  c3 = c3  c4 = c4  wide = wide  narrow = narrow
  Server = Server
  Users = {alice, root, rem}
  Locals = {alice, root}
  Opers = {root}
  Admins = {root}
  Linked = TRUE
  Channels = {c1}
  Letters = {"i"}
  MaxLimit = 0
  MaxKey = 0
  Masks <- NoMasks
  Hits <- NoHits
  Covers <- NoHits
  MaxTS = 2
  FJOIN = FALSE
  MAXCHANNELSPERUSER = 1
  MAXBANS = 0
INVARIANTS LinkedAgrees LimitKept AloneAgrees
PROPERTY StatusRightly
CHECK_DEADLOCK FALSE
SYMMETRY MCSymmetry
