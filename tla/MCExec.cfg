SPECIFICATION Spec
INVARIANT ExecReturns
CHECK_DEADLOCK FALSE
