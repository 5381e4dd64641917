SPECIFICATION Spec
CONSTANT MaxCommands = 3
INVARIANTS StatusIsFinal
CHECK_DEADLOCK FALSE
