SPECIFICATION Spec
CONSTANTS
  Requests <- KeyedRequests
  Overrides <- NothingSupplied
  InvokersNamed = FALSE
  UpstreamStatic = FALSE
  MaxResumes = 0
  MaxFaults = 0
  MaxCrashes = 0
  MaxErrors = 1
INVARIANT RemaindersReported
CHECK_DEADLOCK FALSE
