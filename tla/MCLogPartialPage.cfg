SPECIFICATION Spec
CONSTANTS
    Size = 2
    PageSize = 2
    Value = {1, 2}
    ubik_nBuffers = 1
    NetworkOrder = TRUE
    MaxVersion = 3
INVARIANT BytesKept
CONSTRAINT ShortLog
