\* Sizes at the boundaries of the orders, freed in reverse order.
SPECIFICATION Spec
CONSTANTS
  MaxOrder = 3
  Unit = 4
  Header = 1
  Sizes = {0, 1, 3, 4, 7, 8, 15, 31, 32}
  Nested = TRUE
INVARIANTS
  TypeOK
  NoOverlap
  
  RefusesWhenFull
  AllMerged
