\* Two threads; paths of up to three elements, in memory for three nodes.
SPECIFICATION Spec
CONSTANTS
    Thread = {t1, t2}
    Node = {n1, n2, n3}
    Root = Root
    NoNode = NoNode
    Name = {a, b}
    MaxHandles = 4
SYMMETRY Symmetry
INVARIANTS NodesCounted TokensFresh
PROPERTIES ImplementsInterning
