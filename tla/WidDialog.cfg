CONSTANTS
    MaxTests = 3
    MaxWids = 2
    Deferring = {1}
    Retries = {3}
SPECIFICATION FairSpec
INVARIANTS AnswersMatch VerdictOrder DialogInv
PROPERTIES SenderReturns VerdictTaken
CHECK_DEADLOCK FALSE
