CONSTANT MaxConnections = 1
SPECIFICATION Spec
CHECK_DEADLOCK FALSE
INVARIANT RequestsAnswered
