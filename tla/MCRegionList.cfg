SPECIFICATION Spec
CONSTANTS
    r1 = r1 r2 = r2 r3 = r3 full = full cache = cache raw = raw space = space
    Nobody = Nobody
    Regions = {r1, r2, r3}
    Threads = {t1, t2}
    Lists = {full, cache, raw, space}
    UnitCount <- MCUnitCount
    Deletable = {full}
    Caches = {cache}
    Merges <- MCMerges
    Moves <- MCMoves
INVARIANTS ListsConsistent NeverFatal VisitorSeesAll
PROPERTY ImplementsSequences
SYMMETRY MCSymmetry
