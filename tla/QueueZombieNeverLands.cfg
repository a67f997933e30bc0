SPECIFICATION Spec
CONSTANTS
    w1 = w1  w2 = w2  a = a  c = c
    Workers = {w1, w2}
    TTL = 1
    NoOwner = NoOwner
    Workflows = {a}
    NoItem = NoItem
    Types = {"t"}
    TypeOf <- OneType
    Hosts = {"any"}
    NoHost = "any"
    HostOf <- Anyone
    HostScope <- NoScope
    Registered <- AllTypes
    ProcOf <- OwnProcess
    Children = {a}
    TypeCap <- Uncapped
    GlobalCap = 0
    MaxAttempts = 3
    Levels = 2
    MaxFaults = 3
CHECK_DEADLOCK FALSE
PROPERTY ZombieNeverLands
