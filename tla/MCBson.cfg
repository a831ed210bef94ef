SPECIFICATION InfoSpec
CONSTANTS
    Names <- MCNames
    Values <- MCValues
    SubDocs <- MCSubDocs
    FixedSizes = {22}
    Starts = {3}
    Footers = {2}
    VecSizes = {0}
    Slack = 3
    MaxDepth = 3
    ArrayLimit = 5
    MaxElements = 6
    MaxSubdocs = 6
    OwnKeys <- MCOwnKeys
    MaxTree <- MCMaxTree
    VariableRefs <- MCVariableRefs
    HexDigits <- MCHexDigits
    DeviceEntries <- MCDeviceEntries
    SimEntries <- MCSimEntries
    MaxEntries <- MCMaxEntries
    MaxBefore = 1
INVARIANTS WritesInBounds ReadsWhatWasBuilt ParsedAsDescribed
PROPERTY ReaderIsCursor
CHECK_DEADLOCK FALSE
