CONSTANTS
  Files = {"exe", "rt", "sys", "plug", "plug2"}
  Image <- MCImage
  Bases <- MCBases
  Fixed <- MCFixed
  FixedBase <- MCFixedBase
  Addresses <- MCAddresses
  MaxCalls = 0
  MaxWalks = 2
  Walkers = {t1, t2}
  Capacity = 3
  Word = 1024
  Own <- MCOwn
  ImageLists <- MCOnlyProcess
  Process <- MCProcess
  Stacks <- MCThrowing
  GrowSize = 128
SPECIFICATION Spec
INVARIANT WalkIsAlwaysExact
CHECK_DEADLOCK FALSE
