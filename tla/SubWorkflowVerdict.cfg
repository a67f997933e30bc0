SPECIFICATION SubSpec
CONSTANTS
    Styles = {"inline", "parked", "queue"}  MaxStumbles = 0
INVARIANT DoneChildNeverFailsParent
CHECK_DEADLOCK FALSE
