SPECIFICATION FairSpec
CONSTANTS
  Device = {d1}
  Flow = {f1}
  FlowDefs <- OneStep
  Loop = {l1, l2}
  Req = {r1, r2}
  Ops <- Switching
  NoRpa = NoRpa
  NoDevice = NoDevice
  Quiet = FALSE
  MaxLen = 1
  MaxPoll = 1
  MaxHist = 5
  MaxRec = 6
  MaxRound = 0
  MaxReq = 3
  MaxCrash = 0
INVARIANTS EngineAlive
PROPERTIES RunEnds StopReturns
CHECK_DEADLOCK FALSE
