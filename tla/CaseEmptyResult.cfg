\* A Fine fails, the user edits the hints, and the next search finds nothing.
CONSTANTS
  Commands = {"START", "SELECT_OTHER", "EDIT_HINT"}
  Found = {0, 2}
  Verdicts = {"NOT_OBSERVED"}
  Endings = {"SUCCEEDED", "FAILED"}
  MaxCommands = 4
  MaxHeld = 1
SPECIFICATION Spec
INVARIANTS
  EmptyResultIsShown
CHECK_DEADLOCK FALSE
