SPECIFICATION FairSpec
CONSTANTS
  Gens = {"g"}
  Asyncs = {"f"}
  AsyncGens = {"a"}
  MaxRequests = 3
  MaxResumes = 3
CHECK_DEADLOCK FALSE
INVARIANT ContextIsOwn
INVARIANT FramesFound
INVARIANT RequestsInOrder
PROPERTY EveryRequestIsAnswered
