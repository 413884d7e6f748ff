SPECIFICATION Spec
CONSTANTS
  Device = {d1}
  Flow = {f1}
  FlowDefs <- OneStep
  Loop = {l1}
  Req = {r1, r2}
  Ops <- StartStop
  NoRpa = NoRpa
  NoDevice = NoDevice
  Quiet = FALSE
  MaxLen = 1
  MaxPoll = 1
  MaxHist = 3
  MaxRec = 4
  MaxRound = 1
  MaxReq = 2
  MaxCrash = 0
PROPERTIES StopSticks
SYMMETRY Alike
CHECK_DEADLOCK FALSE
