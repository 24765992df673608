SPECIFICATION FairLoop
CONSTANTS
  Ops = {o1}
  Kinds = {"promise", "raw", "loose"}
  Clocks = {TRUE, FALSE}
  Delays = {0, 1}
  Periods = {0, 1}
  MaxTimers = 1
  MaxArmed = 1
  Endless = TRUE
  MaxLate = 1
  MaxMacrotasks = 2
  MaxRuns = 1
  Calls = {"RunLoop"}
  Stops = {"interrupt"}
CHECK_DEADLOCK FALSE
PROPERTY NothingLeftBehind
PROPERTY LoopTerminates
PROPERTY InterruptStopsLoop
PROPERTY JobsRun
