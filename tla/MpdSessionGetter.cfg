SPECIFICATION Spec
CONSTANTS
  MaxDepth = 10
  Calls <- SettingStatusCallback
  Outcomes = {"none", "ack", "fatal"}
INVARIANT NoGetterFault
