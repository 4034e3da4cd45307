SPECIFICATION Spec
CONSTANTS
    j1 = j1
    j2 = j2
    w1 = w1
    w2 = w2
    Jobs = {j1, j2}
    Workers = {w1, w2}
    Tools = {t1}
    Takes <- MCTakes
    NoJob = NoJob
    MaxAgings = 1
INVARIANT CancelSparesRunning
CHECK_DEADLOCK FALSE
