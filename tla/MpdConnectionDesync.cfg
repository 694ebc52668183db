SPECIFICATION Spec
CONSTANTS
  Sections = {"single", "unchecked"}
  Lossy = TRUE
  Elements = {"pair"}
  MaxCommands = 2
  MaxItems = 1
  MaxElements = 1
INVARIANT InSync
