CONSTANT MaxCalls = 3
SPECIFICATION Spec
INVARIANTS OutcomeIsTrue FailedFnNeverCommits HandleIsConfined
PROPERTY ContractSpec
CHECK_DEADLOCK FALSE
