\* Laws of the pure parts over bounded inputs (MCAlgorithms).
SPECIFICATION Spec
INVARIANTS PathsRight ListsRight FieldsRight LayersReadBack ValuesReadBack CrateRight ExpressionsRight
CHECK_DEADLOCK FALSE
