SPECIFICATION Spec
CONSTANTS
    MaxBuckets = 4
    Widths <- MCWidths
    Day = 20
    NoTime = NoTime
    MaxTail = 3
    MaxSamples = 5
    Named = Named
    Every = Every
    NoEnd = NoEnd
    Words <- MCWords
    NoAffinity = NoAffinity
    Empty = Empty
    Absent = Absent
    Hidden = Hidden
    Structured <- MCStructured
    ControllerLabels <- MCControllerLabels
    NoRevision = NoRevision
    Marker = Marker
    MaxLogLines = 10
    MaxGrepPods = 3
    OtherLogPods = 2
    OtherLogLines = 2
    Unread = Unread
    NoCount = NoCount
    Never = Never
    Failed = Failed
    NoPod = NoPod
    NoJob = NoJob
    NoPodOf = NoPodOf
    EventLimit = 2
    Unset = Unset
    NoService = NoService
    NoPort = NoPort
    Unreadable = Unreadable
    SummaryInputs <- MCSummaryInputs
    ReadInputs <- MCReadInputs
    PolicyInputs <- MCPolicyInputs
    Packets <- MCPackets
    PlacementInputs <- MCPlacementInputs
    HistoryInputs <- MCHistoryInputs
    ResultInputs <- MCResultInputs
    PodLogInputs <- MCPodLogInputs
    EventInputs <- MCEventInputs
    RouteInputs <- MCRouteInputs
    JobInputs <- MCJobInputs
    ClaimInputs <- MCClaimInputs
    SnapshotInputs <- MCSnapshotInputs
    OtelInputs <- MCOtelInputs
    PullGap = 1
    RequiredKinds <- MCRequiredKinds
    LatestPull = LatestPull
    NoImport = NoImport
    NoEvent = NoEvent
    Uncertain = Uncertain
    NotKnown = NotKnown
    NoContainer = NoContainer
    EndOfTime = 1000
    NoAnswer = NoAnswer
INVARIANTS
    SummaryComplete
    BucketsBounded
    ReplayedLogHonest
    PolicyAsEnforced
    PlacementAsScheduler
    ChangesExplain
    ConfigReach
    
    RedactionSwept
    LogsAccounted
    EventsMerged
    RoutesAsServed
    JoinsReplayed
    SnapshotImported
CHECK_DEADLOCK FALSE
