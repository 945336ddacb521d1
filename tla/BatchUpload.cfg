CONSTANTS MaxRows = 2 RowEnds <- MCRowEnds BufCap = 3
SPECIFICATION FairSpec
INVARIANTS WireInOrder WriterJoined CompleteMeansAll OwnFaultReported
PROPERTY CallReturns
CHECK_DEADLOCK FALSE
