CONSTANTS
    meta1 = meta1
    meta2 = meta2
    Metas = {meta1, meta2}
    NoMeta = NoMeta
    MaxRuns = 2
    NodeCount = 2
SPECIFICATION Spec
CHECK_DEADLOCK FALSE
INVARIANTS OneFilePerRun
