SPECIFICATION Spec
CONSTANTS
  MaxDepth = 10
  Calls <- AnyCalls
  Outcomes = {"none", "ack", "fatal"}
INVARIANTS TypeOK SessionInv NoLockLeak NoConnectionFault CommandsDoNotCompete
