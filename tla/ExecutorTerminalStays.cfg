SPECIFICATION Spec
CONSTANTS
    pick = pick  left = left  right = right  join = join  tol = tol  last = last
    pay = pay  book = book  wait = wait  ship = ship  done = done  sig = sig
    Nodes = {pick, left, right, join, book}
    Deps <- ExtraDeps
    LastLevel = 2
    ChoiceNodes = {pick}
    MergeNodes = {join}
    WaitNodes = {}
    ContinueOnError = {}
    Level <- LongestPath
    Pos <- NameOrder
    Targets <- Heads
    Tails <- JoinTails
    Awaited <- OneSignal
    Signals = {sig}
    Compensable = {}
    MaxConcurrency = 2
    MaxFaults = 1
PROPERTY TerminalStatusStays
