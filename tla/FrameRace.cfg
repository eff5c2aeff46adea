\* Two executions look at one frame for the first time.
CONSTANTS
  Reader = {"plate", "time"}
  Position = {1}
  Image = {"now"}
  MaxCalls = 1
SPECIFICATION Spec
INVARIANTS
  SameFrameResolves
CHECK_DEADLOCK FALSE
