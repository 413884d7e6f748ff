SPECIFICATION FairSpec
CONSTANTS
  Kinds <- MCKinds
  Modes = {"engine", "single"}
  Params <- MCParams
  Numbers <- MCNumbers
  Spellings <- MCSpellings
  Numeral <- MCNumeral
  Printed <- MCPrinted
  Files = 2
  MaxTasks = 4
  MaxRetries = 2
  TaskTimeout = 5
  InstallTimeout = 2
  OnlineTimeout = 5
  BootWait = 3
  ProxyWait = 1
  ScriptTimeout = 2
  SingleTimeout = 5
  Epoch = 6
  MaxTime = 30
  MaxLag = 2
  MaxBreaks = 1
  MaxConns = 2
CHECK_DEADLOCK FALSE
INVARIANTS TypeOK  SuccessIsOwn ResentOnlyAfterDeath ScriptVerdict SingleScriptFails ConditionAgrees
PROPERTIES StepEnds
