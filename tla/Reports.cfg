SPECIFICATION Spec
CONSTANTS
    NoAge = NoAge
    Window = 24
    Resembles <- MCResembles
    Requests <- MCRequests
    NoKind = NoKind
    Names <- MCNames
    Clusters <- MCClusters
    States <- MCStates
    Gone = Gone
    ReplicaSets <- MCReplicaSets
    Accesses <- MCAccesses
    MaxChanges = 1
    NoAnswer = NoAnswer
INVARIANTS
    NothingDropped
    RefusalsNamed
    TroubleShown
    NotFoundHonest
CHECK_DEADLOCK FALSE
