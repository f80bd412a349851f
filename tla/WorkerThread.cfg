SPECIFICATION WorkerFairSpec
CONSTANTS
    Workers = {w1, w2, w3}
    MaxPosts = 4
INVARIANTS DoneWhenGone
PROPERTIES EveryTaskRuns DestructorReturns
