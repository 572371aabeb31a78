SPECIFICATION Spec
CONSTANTS
    Msg = {a, b, c}
    Barrier = {c}
    Capacity = 4
    Node = {n1, n2, n3, n4}
    nil = nil
INVARIANT ListWellFormed
PROPERTY ImplementsBatchQueue
SYMMETRY CellSymmetry
