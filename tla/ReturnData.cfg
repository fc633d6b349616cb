\* A blocking and a non-blocking client, two receivers, two messages each.
SPECIFICATION Spec
CONSTANTS
  Clients = {c1, c2}
  Blocking = {c1}
  Receivers = {p1, p2}
  Blocks = {b1, b2, b3, b4, b5}
  Sizes = {1, 2}
  Header = 1
  MaxSends = 2
  MaxBlocks = 2
  None = None
INVARIANTS
  TypeOK
  BlocksAreOwned
  
  ReturnDataArrives
PROPERTIES
  FreedCompletely
SYMMETRY Symmetry
