SPECIFICATION Spec
CONSTANTS
    NumOps = 3
    Sizes = {1, 2}
    Failing = TRUE
INVARIANTS ShapesCurrent CommandsCurrent MemoryFits
PROPERTY FixedStay
