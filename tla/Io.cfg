SPECIFICATION MCSpec
CONSTANTS
  \* Dbuf
  Owner = {q, r}
  Byte = {x, e}
  Eol = {e}
  DBUF_SIZE = 2
  INITIAL_DBUFS = 1
  USUAL_MAX = 1
  MaxLength = 4
  MaxPut = 3
  MaxCount = 5
  \* Sendq
  a = a n = n h = h
  Hidden = {h}
  Limit = 1
  Slack = 1
  MaxSay = 1
  MaxList = 2
  MaxMade = 1
  \* Recvq
  FirstByte = {"x", "p", "s", "q"}
  CLIENT_FLOOD = 3
  MAX_CLIENT = 4
  LongLine = 3
  READBUF_SIZE = 4
  BUFSIZE = 2
  Burst = 2
  Cost = 1
  MaxRead = 5
  \* Flud
  Local = {l}
  Remote = {m}
  Chan = {c}
  FLUDNUM = 1
  FLUDTIME = 1
  FLUDBLOCK = 2
  \* Adns
  Req = {p, d}
  Ptr = {p}
  Slot = {1, 2, 3, 4}
  MaxServers = 2
  UDPMAXRETRIES = 2
  MaxRestart = 1
  MaxSubmit = 2
  \* Blalloc
  Address = {f, g, i}
  ElemsPerBlock = 3
  BitsPerLong = 2
  \* Poll
  Fd = {1}
  Served = {}
  Doors = 2
  MaxRequests = 1
  MaxAccept = 2
  MaxFill = 1
INVARIANTS StructuresSound QueuesSound
PROPERTIES QueueSpec AnswersRight AnswersEnd
CHECK_DEADLOCK FALSE
