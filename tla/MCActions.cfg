SPECIFICATION FfbSpec
CONSTANTS
    Builders = {w, p}
    Pipeline = p
    Payloads = {4}
    Resizes = {12}
    SampleCounts = {0, 3}
    BackendIds = {0, 127}
    IvBase = 2
    IvLen = 2
    MaxActions = 2
    MaxSends = 2
INVARIANTS DatagramsAsBuilt SentOnce PipelineAccounted
PROPERTY SendsResolve
CHECK_DEADLOCK FALSE
