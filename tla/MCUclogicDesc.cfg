SPECIFICATION MCSpec
CONSTANTS
    Buffers <- MCBuffers
    Templates <- MCTemplates
    Params <- MCParams
INVARIANTS SaneIsExact V1IsExact PlaceholdersReplaced
CHECK_DEADLOCK FALSE
