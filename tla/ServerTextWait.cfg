SPECIFICATION TextSpec
CONSTANTS
    MaxInt64 = 127
    MaxLen = 3
    Ms = 4
    MaxInt32 = 7
    Exact = 32
    Powers = {1, 2, 4, 8, 16, 32, 64, 128, 256}
    Second = 6
    MaxNumber = 270
INVARIANT
    WaitIsNeverCut
