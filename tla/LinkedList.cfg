SPECIFICATION Spec
CONSTANTS
  Lists = {a, b}
  Nodes = {1, 2, 3}
  Items = {v, w, NoItem}
  NoItem = NoItem
  Null = Null
INVARIANTS Sound
PROPERTY RefinesItemLists
