\* Two inputs, three commands, every graph of them; MaxAllocs is one node for
\* each tensor and for each command's own memory.
CONSTANTS
    MaxAllocs = 8
    NumInputs = 2
    NumCommands = 3
    Weights <- MCWeights
    Scratches <- MCScratches
    Stills <- MCStills
    Shapes = {1, 2}
SPECIFICATION PipelineSpec
INVARIANTS ValuesSurvive EverythingReturned
PROPERTIES FixedStay
