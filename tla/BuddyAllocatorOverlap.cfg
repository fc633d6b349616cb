\* Areas of one and of two units, freed in any order.
SPECIFICATION Spec
CONSTANTS
  MaxOrder = 2
  Unit = 4
  Header = 1
  Sizes = {3, 7}
  Nested = FALSE
INVARIANTS
  NoOverlap
