SPECIFICATION Spec
CONSTANT MaxActions = 3
CHECK_DEADLOCK FALSE
INVARIANT HopsWired
