SPECIFICATION Spec
CONSTANTS
  v = v
  w = w
  Keys = {1, 3, 5}
  Values = {v, w}
  InitCap = 1
  MaxEntries = 3
  Others <- MCOthers
  NoValue = NoValue
INVARIANTS Consistent LoadBounded SuccessMeansDone
PROPERTY RefinesOrderedMap
