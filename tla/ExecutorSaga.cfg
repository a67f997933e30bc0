SPECIFICATION FairSpec
CONSTANTS
    pick = pick  left = left  right = right  join = join  tol = tol  last = last
    pay = pay  book = book  wait = wait  ship = ship  done = done  sig = sig
    Nodes = {pay, book, wait, ship, done}
    Deps <- SagaDeps
    LastLevel = 2
    ChoiceNodes = {}
    MergeNodes = {}
    WaitNodes = {wait}
    ContinueOnError = {}
    Level <- LongestPath
    Pos <- NameOrder
    Targets <- Heads
    Tails <- JoinTails
    Awaited <- OneSignal
    Signals = {sig}
    Compensable = {pay, book, done}
    MaxConcurrency = 2
    MaxFaults = 4
INVARIANTS SuspendedIffWaiting NoForwardOnceRollingBack
PROPERTIES RollbackFinishes SignalWakes AckedOnlyWhenApplied CompensatesInReverse
