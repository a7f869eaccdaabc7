SPECIFICATION Spec
CONSTANTS
    Count = 3
    Limits <- OneAtATimeOrMore
    MaxRetries = 1
    MaxAttempts = 2
    Chains = {1, 2}
CHECK_DEADLOCK FALSE
INVARIANTS
    FanOutTypeOK
    CountsItsChildren
    OneChainPerChild
    NeverStuck
PROPERTIES
    AnswerStands
    ExecutionEndsOnce
    ExecutionEnds
    KeepsThePromise
