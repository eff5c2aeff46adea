\* Liveness of the search phase.
CONSTANTS
  Commands = {"START", "STOP", "EDIT_HINT", "RETRY_SEARCH"}
  Found = {0, 1}
  Verdicts = {"NOT_OBSERVED"}
  Endings = {"SUCCEEDED", "FAILED", "STALE"}
  MaxCommands = 2
  MaxHeld = 1
SPECIFICATION FairSpec
PROPERTIES
  ProgressEnds
  ResultsTaken
CHECK_DEADLOCK FALSE
