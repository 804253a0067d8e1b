CONSTANT ChildKinds = {"attached", "quiet", "escaped"}
SPECIFICATION Spec
INVARIANT WholeGroupTerminated
CHECK_DEADLOCK FALSE
