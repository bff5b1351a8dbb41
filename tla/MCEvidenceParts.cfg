SPECIFICATION Spec
CONSTANTS
    Hosts = {0, 1}
    TraceLines = {1, 2}
    MaxRequests = 3
    MaxOdd = 1
    Mapping <- OneMapping
    DirectLines = {64, 128}
    Kinds = {"writer_persisted", "writer_host", "authority", "dirty_range_ownership"}
    MaxLag = 1
    MaxMishaps = 2
    Items = {1, 2, 3}
    Owners = {"AUTHORITY_BI_ACQUIRE", "WRITER_RECEIPT", "PLACEMENT_ROUTED", "WRITER_BEFORE_VISIBILITY"}
    MaxReceipts = 1
    MaxFaults = 1
    MaxNoise = 1
    MaxErrors = 1
    MaxBuilds = 2
    MaxInvocations = 2
    MaxRequested = 2
    Requestable = {"mdtest-easy-write", "mdtest-easy-stat", "ior-easy-read"}
    CustomGroups = {"mdtest-easy"}
INVARIANTS
    TraceVerdictIsExact
    TakenBackAfterUnmap
    StrictProofIsReal
    DurableWhenAudited
    PassedIsClean
    RecordedFilesCoexist
    ManifestTellsTheRun
CHECK_DEADLOCK FALSE
