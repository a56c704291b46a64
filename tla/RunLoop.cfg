CONSTANTS
    Width <- MCWidth
    Ptses = 2
    Handlers <- MCHandlers
    Verdicts = {"PASS", "FAIL"}
    Retry <- MCRetry
    StressTest = FALSE
    RepeatUntilFailed = FALSE
    MaxWids = 1
    MaxBroken = 1
SPECIFICATION Spec
INVARIANTS Registered PassHonest RunsApart RunInv
PROPERTIES PreRunWhole RunEnds
CHECK_DEADLOCK FALSE
