\* Liveness with a process that may crash; no automatic retry.
CONSTANTS
  Job = {j1}
  Hint = {j1}
  RetryMax = 0
  Worker = {w1, w2}
  Mortal = {w2}
  None = None
SPECIFICATION FairSpec
PROPERTIES
  EveryJobSettles
