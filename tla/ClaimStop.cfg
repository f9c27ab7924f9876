SPECIFICATION Spec
CONSTANTS
  Requests <- StoppedRequests
  Overrides <- NothingSupplied
  InvokersNamed = FALSE
  UpstreamStatic = FALSE
  MaxResumes = 1
  MaxFaults = 0
  MaxCrashes = 0
  MaxErrors = 0
PROPERTY StopNotReplayed
CHECK_DEADLOCK FALSE
