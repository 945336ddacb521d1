SPECIFICATION Spec
CONSTANTS
    MaxMessages = 3
    MaxBatch = 2
INVARIANT EndIsWhole
PROPERTY ContractSpec
CHECK_DEADLOCK FALSE
