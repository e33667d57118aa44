SPECIFICATION Spec
CONSTANTS
  Nodes = {n1, n2, n3, n4}
  Names = {s1, s2}
  MaxNames = 2
  NULL = NULL
SYMMETRY Symmetry
INVARIANT TypeOK
INVARIANT OneOwner
INVARIANT Linked
INVARIANT NamesCounted
PROPERTY ImplementsForest
