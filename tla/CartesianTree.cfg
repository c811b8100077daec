CONSTANT N = 6
SPECIFICATION Spec
INVARIANTS TreeWellFormed MetadataSound OperationsExact
PROPERTY ImplementsFreeBlocks
