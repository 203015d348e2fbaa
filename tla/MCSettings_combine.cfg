CONSTANTS
  old = old
  new = new
  c1 = c1
  v1 = v1
  v2 = v2
  NoValue = NoValue
  Server = {old}
  Call = {c1, c2}
  Key = {"update", "query"}
  Value = {v1}
SPECIFICATION Spec
PROPERTY WritesCombine
CHECK_DEADLOCK FALSE
