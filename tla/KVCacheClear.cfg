SPECIFICATION Spec
CONSTANTS
    Align = 2
    ExpandChunk = 1
    Limits <- MCLimits
    Prompts = {1, 3}
    DraftLength = 2
    MaxTokens = 8
    MaxMisuse = 1
INVARIANT
    LengthAsserted
CHECK_DEADLOCK FALSE
