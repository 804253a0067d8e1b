CONSTANT Calls = {c1, c2, c3, c4}
SPECIFICATION Spec
INVARIANT TokenAccounted
PROPERTIES BusyOnlyWhileOwned ImplementsCallGate
CHECK_DEADLOCK FALSE
