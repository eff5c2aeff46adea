\* The Worker of a Fine is lost on its last attempt.
CONSTANTS
  Commands = {"START"}
  Found = {2}
  Verdicts = {"OK"}
  Endings = {"SUCCEEDED", "STALE"}
  MaxCommands = 1
  MaxHeld = 1
SPECIFICATION Spec
INVARIANTS
  FailedFineLeavesExit
CHECK_DEADLOCK FALSE
