CONSTANTS
  Runs = {r1}
  Stops = {s1, s2}
  Requests = {q1, q2}
  MaxSignals = 3
SPECIFICATION FairSpec
CHECK_DEADLOCK FALSE
INVARIANTS OneShutdown NilMeansDrained
PROPERTIES ImplementsServerLife NoRequestAfterShutdown RunStops ShutdownReturns
