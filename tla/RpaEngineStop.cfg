SPECIFICATION FairSpec
CONSTANTS
  Device = {d1}
  Flow = {f1}
  FlowDefs <- OneStep
  Loop = {l1, l2}
  Req = {r1, r2}
  Ops <- Switch
  NoRpa = NoRpa
  NoDevice = NoDevice
  Quiet = FALSE
  MaxLen = 1
  MaxPoll = 0
  MaxHist = 1
  MaxRec = 1
  MaxRound = 1
  MaxReq = 2
  MaxCrash = 0
PROPERTIES StopStopsEngine
CHECK_DEADLOCK FALSE
