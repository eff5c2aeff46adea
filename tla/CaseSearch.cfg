\* The search phase: three commands; a Fine is issued and says no, so that the
\* user may go back.  The user may stop at any point and need not act: a
\* behaviour ends when the commands are used up.
CONSTANTS
  Commands = {"START", "STOP", "EDIT_HINT", "RETRY_SEARCH"}
  Found = {0, 1}
  Verdicts = {"NOT_OBSERVED"}
  Endings = {"SUCCEEDED", "FAILED", "STALE"}
  MaxCommands = 3
  MaxHeld = 1
SPECIFICATION Spec
INVARIANTS
  SearchesAreDue
  ProcessedIsReflected
  ScreenGuides
CHECK_DEADLOCK FALSE
