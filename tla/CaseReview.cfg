\* Two candidates and the whole chain of observations; four commands let the
\* user leave a candidate and come back.  A behaviour ends when they are used up.
CONSTANTS
  Commands = {"START", "SELECT_OTHER", "RETRY_PLATE_READ", "EVIDENCE"}
  Found = {2}
  Verdicts = {"OK", "NOT_OBSERVED", "NO_VISUAL"}
  Endings = {"SUCCEEDED", "FAILED"}
  MaxCommands = 4
  MaxHeld = 1
SPECIFICATION Spec
INVARIANTS
  WaitingIsSelected
  ScreenGuides
  ReadyHasReadouts
  RetryTargetsSelected
CHECK_DEADLOCK FALSE
