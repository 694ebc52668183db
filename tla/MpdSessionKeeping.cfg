SPECIFICATION Spec
CONSTANTS
  MaxDepth = 12
  Calls <- KeepingCallbacks
  Outcomes = {"none", "ack", "fatal"}
INVARIANTS NoGetterFault OpensClean OpenInv StatusInv
