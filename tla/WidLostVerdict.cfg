CONSTANTS
    MaxTests = 1
    MaxWids = 1
    Deferring = {1}
    Retries = {}
SPECIFICATION FairSpec
PROPERTIES VerdictReaches
CHECK_DEADLOCK FALSE
