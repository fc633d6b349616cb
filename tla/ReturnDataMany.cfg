\* Two receivers of one blocking send return three pieces of data or more.
SPECIFICATION Spec
CONSTANTS
  Clients = {c1}
  Blocking = {c1}
  Receivers = {p1, p2}
  Blocks = {b1, b2, b3, b4, b5}
  Sizes = {1, 2}
  Header = 1
  MaxSends = 1
  MaxBlocks = 2
  None = None
INVARIANTS
  OnlyReturnData
SYMMETRY Symmetry
