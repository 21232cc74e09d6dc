CONSTANTS
    meta1 = meta1
    meta2 = meta2
    Metas = {meta1, meta2}
    NoMeta = NoMeta
    MaxRuns = 3
    NodeCount = 2
SPECIFICATION Spec
CHECK_DEADLOCK FALSE
SYMMETRY MetaSymmetry
INVARIANTS TypeOK WellFormedTrace OkMeansComplete CauseInTrace MetadataFresh
           FileInherited
