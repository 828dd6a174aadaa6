\* Prims under two names, three deep.
SPECIFICATION Spec
VIEW View
CONSTANTS
  PrimNames = {"a", "b"}
  PropNames = {}
  SetNames = {}
  VariantNames = {}
  Specifiers = {"inert", "class"}
  Ops <- EditOps
  Indices <- InsertIndices
  Careful = TRUE
  MaxSpecs = 5
  MaxDepth = 3
  MaxValues = 2
  MaxTracked = 0
INVARIANTS TreeConsistent
PROPERTIES RefusalsChangeNothing ChildrenAsAsked MovesLoseNothing ChangesTold
