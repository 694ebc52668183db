SPECIFICATION Spec
CONSTANTS
  Sections = {"single", "status", "double", "unchecked", "load", "list", "listOk"}
  Lossy = TRUE
  Elements = {"pair", "junk", "bare", "list_OK"}
  MaxCommands = 4
  MaxItems = 2
  MaxElements = 1
INVARIANTS TypeOK Ready
PROPERTY SectionsEnd
