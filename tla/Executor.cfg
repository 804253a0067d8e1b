CONSTANT ChildKinds = {"attached", "quiet", "escaped"}
SPECIFICATION FairSpec
INVARIANTS TypeOK GateCoversCommand SyncReturnsLast AsyncOutlivesRequest
PROPERTIES GateGivenBack TimeoutFreesGate ImplementsExecution
CHECK_DEADLOCK FALSE
