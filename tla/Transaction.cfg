CONSTANT MaxFn = 2
SPECIFICATION Spec
INVARIANTS CommitIsTrue FailedFnNeverCommits NoEscapedWrites RollbackIsTrue OuterWritesSurvive NestedNeverRuns
PROPERTY ContractSpec
CHECK_DEADLOCK FALSE
