SPECIFICATION MCSpec
CONSTANTS
    Nil = Nil
    Run = {r1, r2}
    LastWriteVer = {1}
    DBVersion = {0, 1, 2}
    EventID = {1, 2}
    RangeID = {1, 2}
    FirstVersion = 1
    FirstEvent = 1
    Requests <- MCRequests
    NamespaceID = {i1, i2}
    NamespaceName = {n1, n2}
    Admin = {a1, a2}
    MaxNotification = 4
    UserDataQueue = {q1, q2}
    BuildID = {b1}
    DataWriter = {w1, w2}
    MaxUserData = 2
    ActivityKey = {1, 2}
    ChasmKey = {"n"}
    SignalKey = {"s"}
    Blob = {"x", "y"}
    MaxBuffered = 2
    MaxFilled = 2
    Endpoint = {1, 2}
    EndpointWriter = {e1, e2}
    MaxTable = 3
    EndpointPage = 1
    Editor = {c1, c2}
    MaxMetadata = 3
    Member = {m1, m2}
    Lifetime = 1
    MaxClock = 3
    MaxRecordsPruned = {0, 1}
    Service = {s1, s2, s3}
    Build <- Builds
INVARIANTS
    PointerMatchesRun RunningRunIsCurrent StateIsBackedByWrites
    AgreeUnlessOvertaken VersionsAreUnique
    IndexInStep FlagsAreTrue
    RecordReadsBack
    ListingShowsItsVersion
    LiveHostsAreListed
    RunningBuildsAreAdmitted
PROPERTY
    NoEditIsLost
CHECK_DEADLOCK FALSE
