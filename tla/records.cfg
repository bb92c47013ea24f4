SPECIFICATION Spec
CONSTANTS
  Ids = {1, 2, 3, 4}
  Columns = {1, 2}
  Indexed = {1}
  Texts = {"uri", "prefix", "other"}
  NoText = "none"
  Extra <- MCExtra
  Hash <- MCHash
  Cells = {1, 2, 3, 4}
  Depth = 3
  Stores <- MCStores
  Careless = FALSE
INVARIANTS
  LinksExact
  StringsExact
  IndexExact
CHECK_DEADLOCK FALSE
