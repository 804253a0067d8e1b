CONSTANTS
  q1 = q1
  q2 = q2
  Requests <- MCRequests
  Groups = {"g"}
  Workloads <- MCWorkloads
  MaxSignals = 1
  MaxStarts = 1
SPECIFICATION FairSpec
CHECK_DEADLOCK FALSE
PROPERTY SignalStopsProgram
