SPECIFICATION Spec
CONSTANTS
  Nodes = {n1, n2, n3, n4, n5}
  Null = Null
  Handles = {a, b}
  Items = {x, y}
SYMMETRY Symmetry
INVARIANTS HeapSound ListInv
PROPERTY Implements
