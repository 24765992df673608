SPECIFICATION Spec
CONSTANTS
  Ops = {o1, o2}
  Kinds = {"promise", "raw", "loose"}
  Clocks = {TRUE, FALSE}
  Delays = {1}
  Periods = {0}
  MaxTimers = 0
  MaxArmed = 0
  Endless = FALSE
  MaxLate = 1
  MaxMacrotasks = 2
  MaxRuns = 1
  Calls = {"RunLoop", "RunJobs"}
  Stops = {"ctx", "interrupt", "close", "exit"}
SYMMETRY Operations
CHECK_DEADLOCK FALSE
INVARIANT NoLostWakeup
INVARIANT OpsAreExact
PROPERTY NothingLeftBehind
