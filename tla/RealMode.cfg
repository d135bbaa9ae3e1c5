CONSTANTS
  Master <- MCMaster
  Slave <- MCSlave
SPECIFICATION FairSpecRM
INVARIANTS RightTable HandlersReady CallLeavesNoTrace
PROPERTIES ClockSurvivesBios KeyDuringCallIsServed
