CONSTANT MaxBatches = 4
SPECIFICATION FairSpec
INVARIANTS EnvelopeIsExact CleanEndIsWhole ResultIsServers NothingOutlivesCall
PROPERTY EndedCallReturns
CHECK_DEADLOCK FALSE
