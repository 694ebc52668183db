SPECIFICATION Spec
CONSTANTS
  Clients = {"reader"}
  Versions = {1200}
  Fields = {"Album"}
  Constraints = {c1}
  MaxLines = 2
  MaxConstraints = 1
  None = None
INVARIANT RangeHandedOut
