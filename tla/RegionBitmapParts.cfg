SPECIFICATION Spec
CONSTANTS
    Words = 3
    WordBits = 2
    MaxParts = 2
    PartMod = 8
    IndexMod = 16
    Markers = {m1, m2}
INVARIANTS
    PreLiveExact
