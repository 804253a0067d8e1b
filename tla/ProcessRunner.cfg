CONSTANT ChildKinds = {"attached", "quiet", "escaped"}
SPECIFICATION FairSpec
INVARIANTS ReportedExitIsReal Escalation
PROPERTIES ImplementsCommands LateCancelIsHarmless TerminatorEnds CancelEnds
CHECK_DEADLOCK FALSE
