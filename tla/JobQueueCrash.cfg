\* Two processes, one of which may crash at any point; one HINT_EXTRACT job
\* with one automatic retry.
CONSTANTS
  Job = {j1}
  Hint = {j1}
  RetryMax = 1
  Worker = {w1, w2}
  Mortal = {w2}
  None = None
SPECIFICATION Spec
INVARIANTS
  TypeOK
  NoDoubleDispatch
  ReflectsDurableResult
  LostJobAccounted
  CancelledWasRequested
PROPERTIES
  LiveLeaseKept
  Lifecycle
