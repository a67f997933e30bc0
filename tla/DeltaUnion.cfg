SPECIFICATION SqSpec
CONSTANTS
    Keys = {k1}  Vals = {a}  Absent = Absent  NoRows = NoRows
    BatchK = 2  AutoCheckpoint = 2  MaxWal = 2  MaxSlips = 0
INVARIANT DeltaUnionIsTheState
CHECK_DEADLOCK FALSE
