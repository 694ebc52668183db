SPECIFICATION Spec
CONSTANTS
  Clients = {"finder"}
  Versions = {1200, 1300}
  Fields = {"Album"}
  Constraints = {c1, c2}
  MaxLines = 2
  MaxConstraints = 2
  None = None
INVARIANTS ExactOnly
