SPECIFICATION LiveSpec
CONSTANTS
    j1 = j1
    j2 = j2
    w1 = w1
    w2 = w2
    Jobs = {j1, j2}
    Workers = {w1, w2}
    Takes <- MCTakes
    Handles <- MCHandles
    Recurring = {j1}
    NoJob = NoJob
    MaxRequeues = 1
INVARIANTS TypeOK ExclusiveHold StuckOnlyByFailure
PROPERTIES EndedIsFinal Served ImplementsQueue
CHECK_DEADLOCK FALSE
