CONSTANT ChildKinds = {"attached", "quiet", "escaped"}
SPECIFICATION Spec
INVARIANT NoSignalForCleanup
CHECK_DEADLOCK FALSE
