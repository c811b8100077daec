SPECIFICATION Spec
CONSTANTS
    Words = 4
    WordBits = 2
    MaxParts = 2
    PartMod = 8
    IndexMod = 16
    Markers = {m1, m2}
INVARIANTS
    OneMarkerWins
    CountersExact
    NeverAborts
    PreLiveExactPastFirstPart
