SPECIFICATION Spec
CONSTANTS
  Callers = {c1, c2}
  Devices = {d1}
  Consoles = {w1}
  MaxSeq = 3
  MaxDrops = 1
  MaxEvents = 1
  MaxInbox = 2
CHECK_DEADLOCK FALSE
INVARIANT NoSendOnClosed
