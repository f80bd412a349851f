SPECIFICATION Spec
CONSTANTS
    NumWeights = 3
    Sizes = {1, 2}
    Temps = {0, 1, 4}
    FileSize = 3
    MaxStarts = 3
INVARIANTS OwnWeights MarkerVouches Apart NothingLeft
