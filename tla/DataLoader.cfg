SPECIFICATION FairSpec
CONSTANTS
    Workers = {w1, w2}
    NumJobs = 4
    NumBatches = 8
    DropShort = TRUE
    MaxEpochs = 2
    Client = Client
INVARIANTS FreshBatches WorkersNeverBlock
PROPERTIES NextReturns JoinReturns
