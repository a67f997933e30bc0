SPECIFICATION Spec
CONSTANTS
    w1 = w1  w2 = w2  a = a  c = c
    Workers = {w1, w2}
    TTL = 1
    NoOwner = NoOwner
    Workflows = {a}
    NoItem = NoItem
    Types = {"t"}
    TypeOf <- OneType
    Hosts = {"any"}
    NoHost = "any"
    HostOf <- Anyone
    HostScope <- NoScope
    Registered <- AllTypes
    ProcOf <- OwnProcess
    Children = {a}
    TypeCap <- Uncapped
    GlobalCap = 0
    MaxAttempts = 1
    Levels = 2
    MaxFaults = 4
CHECK_DEADLOCK FALSE
INVARIANTS TypeOK OnlyOwnerPasses ClaimedIsReclaimable SignalAfterTerminal
PROPERTIES TerminalIsFinal ImplementsDurableJob
