CONSTANTS
  small = small
  large = large
  Regions = {small, large}
  Markers = {m1, m2}
  Kinds = {mark, enqueue}
  UnitsOf <- MCUnitsOf
  UnitCount = 3
  LiveInfoSize = 2
  HeaderSize = 1
  WordsSize = 2
  PageSize = 5
  CommitsOnDemand = TRUE
  Null = Null
  Claimed = Claimed
SPECIFICATION Spec
SYMMETRY Symmetry
INVARIANTS BindingsCurrent MarksKept NeverFatal MemoryIsSound
