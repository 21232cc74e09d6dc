CONSTANTS
    j1 = j1
    j2 = j2
    j3 = j3
    shared = shared
    own = own
    w1 = w1
    w2 = w2
    NoJob = NoJob
    Jobs = {j2, j3}
    Contexts <- MCContexts
    ContextOf <- MCContextOf
    Workers = {w1}
    Awaited = {j2, j3}
    Impatient = {j2}
    Malformed = {j2}
SPECIFICATION Spec
CHECK_DEADLOCK FALSE
PROPERTIES EveryFutureAnswered
