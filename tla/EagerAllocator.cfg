SPECIFICATION Spec
CONSTANTS
    MaxBlocks = 2
    Requests = {1, 2, 7}
    MinAllocs = {0, 8}
    Align = 2
    MaxChunks = 3
    MaxGroups = 2
INVARIANTS Tiled MergesBack GroupsSeparate
