SPECIFICATION Spec
CONSTANTS
    Sessions = {s1, s2}
    Totals = {1, 2}
    Blocks = {b1, b2, b3}
    Null = Null
    MidPaths = {FALSE, TRUE}
    AllocFails = TRUE
    ResizeFails = TRUE
SYMMETRY SessionSymmetry
INVARIANTS RunsUnlessExhausted NothingLeaks PlanIsCurrent
