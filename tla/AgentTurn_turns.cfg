SPECIFICATION FairSpec
CONSTANTS
  Agents = {r, c1, c2}
  Root = r
  Nobody = nobody
INVARIANT OneAtATime
INVARIANT NobodyForgotten
INVARIANT HolderKnowsOfQueue
PROPERTY ImplementsTurnSpec
PROPERTY EveryoneGetsATurn
