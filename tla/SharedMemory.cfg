\* Three daemons, one after the other or two at the same time, and two receivers.
SPECIFICATION Spec
CONSTANTS
  d1 = d1
  d2 = d2
  d3 = d3
  r1 = r1
  r2 = r2
  Daemons = {d1, d2, d3}
  Receivers = {r1, r2}
  None = None
  MaxLiving = 2
SYMMETRY ProcessSymmetry
INVARIANTS
  TypeOK
  SharesSegment
  ServedName
  
  NoForeignUse
