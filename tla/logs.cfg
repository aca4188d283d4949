SPECIFICATION Spec
CONSTANTS
  t1 = t1
  t2 = t2
  Reporters <- TwoReporters
  Interval = 1
  MaxDay = 2
  SubmitFaults = {"flag", "licence", "create", "read", "net", "remove", "kill"}
SYMMETRY Interchangeable
INVARIANTS
  LoneReportArrives
  OneReportPerInterval
