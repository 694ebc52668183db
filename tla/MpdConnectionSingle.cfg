SPECIFICATION Spec
CONSTANTS
  Sections = {"single", "status"}
  Lossy = TRUE
  Elements = {"pair", "junk", "bare", "list_OK"}
  MaxCommands = 4
  MaxItems = 1
  MaxElements = 2
INVARIANT InSync
PROPERTY Implements
