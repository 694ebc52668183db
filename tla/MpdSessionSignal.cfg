SPECIFICATION Spec
CONSTANTS
  MaxDepth = 10
  Calls <- QuietCallbacks
  Outcomes = {"none", "ack", "fatal"}
INVARIANT SignalMatchesState
