SPECIFICATION Spec
CONSTANTS
  Entries = {e1, e2, e3}
  e1 = e1
  e2 = e2
  e3 = e3
  Listeners = {l1, l2, l3, l4}
  l1 = l1
  l2 = l2
  l3 = l3
  l4 = l4
  NoListener = NoListener
SYMMETRY Symmetry
INVARIANT OneSocket
CHECK_DEADLOCK FALSE
