CONSTANTS
    Width <- MCWidth
    Ptses = 2
    Handlers <- MCHandlers
    Verdicts = {"PASS", "FAIL"}
    Retry <- MCRetry
    StressTest = FALSE
    RepeatUntilFailed = FALSE
    MaxWids = 1
    MaxBroken = 1
SPECIFICATION Spec

PROPERTY PostRunWhole
CHECK_DEADLOCK FALSE
