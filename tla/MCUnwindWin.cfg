CONSTANTS
  Files = {"exe", "rt", "sys", "plug", "plug2"}
  Image <- MCImage
  Bases <- MCBases
  Fixed <- MCFixed
  FixedBase <- MCFixedBase
  Addresses <- MCAddresses
  MaxCalls = 3
  MaxWalks = 2
  Walkers = {t1, t2}
  Capacity = 3
  Word = 1024
  Own <- MCOwn
  ImageLists <- MCImageLists
  Process <- MCProcess
  Stacks <- MCStacks
  GrowSize = 128
SYMMETRY MCSymmetry
SPECIFICATION Spec
INVARIANTS
  SectionsFound LookupFindsImage WalkIsExact AnswerIsOneImage
CHECK_DEADLOCK FALSE
