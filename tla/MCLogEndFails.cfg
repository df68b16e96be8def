SPECIFICATION IOErrorSpec
CONSTANTS
    Size = 2
    PageSize = 1
    Value = {1, 2}
    ubik_nBuffers = 1
    NetworkOrder = TRUE
    MaxVersion = 3
INVARIANT EndLeavesNothing
CONSTRAINT ShortLog
