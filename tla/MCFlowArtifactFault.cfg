CONSTANTS
    MaxFaults = 1
    NoReport <- MCNoReport
SPECIFICATION Spec
INVARIANT
    FailingStageMarked
