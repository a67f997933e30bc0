SPECIFICATION ServicesSpec
CONSTANTS
    p1 = p1  p2 = p2
    d1 = d1  d2 = d2  d3 = d3
    s1 = s1  s2 = s2
    x = x  y = y
    nd = nd  nc = nc  nv = nv  nb = nb  nm = nm  ns = ns
    \* leases
    Workers = {p1, p2}  TTL = 1  NoOwner = NoOwner
    \* Lockers
    Drives = {d1, d2, d3}  ProcessOf <- MCProcessOf  Claiming = {d1, d3}
    NoDrive = NoDrive  MaxMishaps = 1  MaxToken = 3
    \* Schedules
    Schedule = {s1, s2}  SpecsFor <- MCSpecsFor  NoSpec = NoSpec  BacklogCap = 1
    FieldRange <- MCFieldRange  Calendar <- MCCalendar  CronHorizon = 6
    MaxTime = 2  MaxInt64 = 2  MaxUpsets = 1
    \* FanOut
    Item = {x, y}  Expansions <- MCExpansions  MaxWidth = 2  PoolWidth = 2
    NodeRetries = 0  Modes <- KeyedModes  NoItems = NoItems  MaxGlitches = 3
    \* SqliteStore
    Keys = {x}  Vals = {y}  Absent = Absent  NoRows = NoRows
    BatchK = 2  AutoCheckpoint = 2  MaxWal = 2  MaxSlips = 2
    \* FileStores
    GroupK = 3  MaxVersion = 6  MaxFaults = 2
    \* Mailbox
    SignalId = {s1, s2}  Deliverer = {d1, d2}  Remover = Remover  Nobody = Nobody
    MailboxCap = 1  MaxDeaths = 1
    \* Waits
    WaitKinds = {"timer", "signal", "timeout", "approval", "condition"}
    Durations <- MCDurations  Letters <- MCLetters  Span = 7  MaxNow = 2  MaxHiccups = 1
    \* SubWorkflow
    Styles = {"inline", "parked", "queue"}  MaxStumbles = 2
    \* Graph
    GraphNode = {nd, nc, nv, nb, nm, ns}  Builders <- MCBuilders  BudgetWidth = 2
INVARIANTS
    ServicesTypeOK
    DrivesSerialized
    BacklogBounded
    NextSlotExact
    FanOutPartition
    ExpansionBeforeBranches
    NothingForgotten
    ParkedIsDurable
    SyncedIsCurrent
    LossBounded
    MailboxWithinCap
    WaitEndsForCause
    CompletedOverResult
    BuiltGraphHolds
PROPERTIES
    WaiterServed
    OneshotNeverLost
    DueScheduleFires
    PoolDrains
    WaitEnds
    ParentLearns
CHECK_DEADLOCK FALSE
