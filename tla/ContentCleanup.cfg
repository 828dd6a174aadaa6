\* A prim name, a property, a variant set and a variant, three deep.
SPECIFICATION Spec
VIEW View
CONSTANTS
  PrimNames = {"a"}
  PropNames = {"p"}
  SetNames = {"v"}
  VariantNames = {"x"}
  Specifiers = {"inert"}
  Ops <- CleanupOps
  Indices <- InsertIndices
  Careful = TRUE
  MaxSpecs = 6
  MaxDepth = 3
  MaxValues = 2
  MaxTracked = 2
INVARIANTS CleanedUp
PROPERTIES OnlyInertRemoved SweepExact
