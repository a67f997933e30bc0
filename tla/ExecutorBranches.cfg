SPECIFICATION Spec
CONSTANTS
    pick = pick  left = left  right = right  join = join  tol = tol  last = last
    pay = pay  book = book  wait = wait  ship = ship  done = done  sig = sig
    Nodes = {pick, left, right, join, tol, last}
    Deps <- BranchDeps
    LastLevel = 3
    ChoiceNodes = {pick}
    MergeNodes = {join}
    WaitNodes = {}
    ContinueOnError = {tol}
    Level <- LongestPath
    Pos <- NameOrder
    Targets <- Heads
    Tails <- JoinTails
    Awaited <- OneSignal
    Signals = {sig}
    Compensable = {}
    MaxConcurrency = 2
    MaxFaults = 4
INVARIANTS TypeOK RunsOnDurableDeps NilMeansSettled OutcomesJustified
PROPERTY JournalOnlyGrows
