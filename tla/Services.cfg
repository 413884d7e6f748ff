SPECIFICATION FairSpec
CONSTANTS
  Callers = {c1, c2}
  Devices = {d1}
  Consoles = {w1}
  MaxSeq = 2
  MaxDrops = 1
  MaxEvents = 1
  MaxInbox = 1
  Kinds = {"middle", "stream"}
  Creators = {k1}
  MaxLinks = 2
  MaxAsks = 1
  MaxUpsets = 1
  Ports = {p1}
  Phones = {h1}
  MapModes = {0, 2}
  MaxMaps = 2
  MaxTunnels = 2
  Transports = {"channel", "stream", "cached"}
  Senders = {s1, s2}
  Buffers = {b1, b2}
  Sizes = {0, 2, 3, 5, 6, 8}
  Prefix = 1
  Piece = 3
  Largest = 7
  Cache = 1
  MaxMessages = 2
  Clients = {v1}
  MaxNotices = 2
  MaxInFlight = 2
CHECK_DEADLOCK FALSE
INVARIANTS TypeOK AnswerIsOwn WaitForgotten FramesWhole NothingMissed SessionHeld
PROPERTIES OneRedialPerLink CallEnds DeadLinkRedialled PortReleased PushReaches RequestEnds
