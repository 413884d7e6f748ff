SPECIFICATION FairSpec
CONSTANTS
  Device = {d1}
  Flow = {f1}
  FlowDefs <- PlainFlows
  Loop = {l1}
  Req = {r1}
  Ops <- ControlAndEdits
  NoRpa = NoRpa
  NoDevice = NoDevice
  Quiet = TRUE
  MaxLen = 2
  MaxPoll = 1
  MaxHist = 6
  MaxRec = 10
  MaxRound = 1
  MaxReq = 4
  MaxCrash = 0
INVARIANTS OneRunningHistory OwnVariables FailureHasCause
PROPERTIES ImplementsFairFlowRun
CHECK_DEADLOCK FALSE
