SPECIFICATION Spec
CONSTANTS
    Requests = {1, 3}
    MaxAllocs = 5
    Barriers = 1
INVARIANTS FusesToOne FreeListConsistent DisjointLifetimes
