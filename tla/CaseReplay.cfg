\* All commands, all endings, two deliveries in flight: results are replayed
\* after their receipt while their successors arrive.
CONSTANTS
  Commands = {"START", "STOP", "EDIT_HINT", "RETRY_SEARCH", "RETRY_PLATE_READ", "SELECT_OTHER", "EVIDENCE"}
  Found = {0, 2}
  Verdicts = {"OK", "NOT_OBSERVED"}
  Endings = {"SUCCEEDED", "FAILED", "STALE"}
  MaxCommands = 2
  MaxHeld = 2
SPECIFICATION Spec
INVARIANTS
  CaseTypeOK
  NoDeliveryFault
PROPERTY
  Delivers
CHECK_DEADLOCK FALSE
