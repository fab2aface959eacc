CONSTANTS
    CompressTypes <- MCCompressTypes
    Block = 4
    Sizes <- MCSizes
    MaxCalls = 3
SPECIFICATION Spec
PROPERTY CallsComplete
CHECK_DEADLOCK FALSE
