SPECIFICATION GraphSpec
CONSTANTS
  Names = {a, b, c, d}
  Values = {real}
  Nil = Nil
SYMMETRY Symmetry
INVARIANTS
  SortedByDependency
  GraphConsistent
  ClosedBeforeItsParents
