CONSTANTS
  x1 = x1
  x2 = x2
  x3 = x3
  l1 = l1
  l2 = l2
  Elements = {x1, x2, x3}
  Lists = {l1, l2}
SPECIFICATION Spec
INVARIANTS
  LinksMirror
PROPERTIES
  ImplementsOrderedLists
