\* A prim and a variant of the same name.
SPECIFICATION Spec
VIEW View
CONSTANTS
  PrimNames = {"a", "b"}
  PropNames = {"p"}
  SetNames = {"v"}
  VariantNames = {"a"}
  Specifiers = {"inert", "class"}
  Ops <- VariantOps
  Indices <- InsertIndices
  Careful = TRUE
  MaxSpecs = 6
  MaxDepth = 3
  MaxValues = 2
  MaxTracked = 0
PROPERTY OnlyInertRemoved
