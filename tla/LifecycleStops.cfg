SPECIFICATION Spec
INVARIANT
  RunsUntilShutdown
CHECK_DEADLOCK FALSE
