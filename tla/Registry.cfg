CONSTANTS
    w1 = w1
    w2 = w2
    Threads = {w1, w2}
    dflt = dflt
    ma = ma
    mb = mb
    broken = broken
    Modules = {dflt, ma, mb, broken}
    x = x
    y = y
    z = z
    Names = {x, y, z}
    None = None
    Offers <- MCOffers
    Fragile = {broken}
    SortedList <- MCSortedList
    Defaults <- MCDefaults
    Extensions = {1, 2, 3, 4, 5, 6}
    Hooks <- MCHooks
    Profiles <- MCProfiles
    Symbols <- MCSymbols
    MaxOps = 2
SPECIFICATION Spec
SYMMETRY Workers
CHECK_DEADLOCK FALSE
INVARIANTS PromiseKept ProfileReproduces
PROPERTY RefusalsExplained
