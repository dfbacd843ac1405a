SPECIFICATION Spec
CONSTANTS
  f1 = f1
  f2 = f2
  n1 = n1
  none = none
  Files = {f1, f2}
  NewFiles = {n1}
  NoFile = none
  Environments <- Named
INVARIANT ContentDeleteIsItsOwn
