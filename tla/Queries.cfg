SPECIFICATION Spec
CONSTANTS
  Clients = {"reader", "documented", "any"}
  Versions = {1200, 1300}
  Fields = {"Album"}
  Constraints = {c1, c2}
  MaxLines = 3
  MaxConstraints = 2
  None = None
INVARIANTS TypeOK CompleteOrTold HandedOver NothingLeftOver SearchRemembered SendsWhatWasAsked NoErrorOfItsOwn ReplyInv
