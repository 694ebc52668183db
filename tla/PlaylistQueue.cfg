SPECIFICATION Spec
CONSTANTS
  Nodes = {n1, n2, n3}
  Null = null
  Commands = {add, delete, negative}
  Void = {negative}
INVARIANT HeapSound
PROPERTY Implements
