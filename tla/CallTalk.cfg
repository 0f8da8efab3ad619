CONSTANTS
    Posted <- AllPosted
    Overtaking <- None
    MaxQueue = 2
SPECIFICATION Spec
INVARIANTS Ladder ParametersApplied
CHECK_DEADLOCK FALSE
