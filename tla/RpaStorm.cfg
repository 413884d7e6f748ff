SPECIFICATION Spec
CONSTANTS
  Device = {d1}
  Flow = {f1}
  FlowDefs <- OddFlows
  Loop = {l1}
  Req = {r1, r2}
  Ops <- NoSwitch
  NoRpa = NoRpa
  NoDevice = NoDevice
  Quiet = FALSE
  MaxLen = 2
  MaxPoll = 0
  MaxHist = 3
  MaxRec = 4
  MaxRound = 1
  MaxReq = 2
  MaxCrash = 1
INVARIANTS TypeOK LiveHistoryIsNewest RunningHistoryOwned OpenStepRecord NoOrphanAtStart
PROPERTIES StepRecordFinal OnlyRoundsRevive
SYMMETRY Alike
CHECK_DEADLOCK FALSE
