SPECIFICATION FairSpec
CONSTANTS
    w1 = w1  w2 = w2  a = a  c = c
    Workers = {w1, w2}
    TTL = 1
    NoOwner = NoOwner
    Workflows = {a, c}
    NoItem = NoItem
    Types = {"t"}
    TypeOf <- OneType
    Hosts = {"any", "h"}
    NoHost = "any"
    HostOf <- BoundC
    HostScope <- SecondForH
    Registered <- AllTypes
    ProcOf <- OwnProcess
    Children = {a}
    TypeCap <- CapOne
    GlobalCap = 0
    MaxAttempts = 2
    Levels = 1
    MaxFaults = 1
CHECK_DEADLOCK FALSE
INVARIANT RunningWithinCap
PROPERTY QueueDrains
