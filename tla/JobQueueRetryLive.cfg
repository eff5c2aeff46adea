\* Liveness over the whole chain of attempts, one process.
CONSTANTS
  Job = {j1}
  Hint = {j1}
  RetryMax = 2
  Worker = {w1}
  Mortal = {}
  None = None
SPECIFICATION FairSpec
PROPERTIES
  EveryJobSettles
