SPECIFICATION Spec
CONSTANTS
  Requests <- AllRequests
  Overrides <- AnythingSupplied
  InvokersNamed = FALSE
  UpstreamStatic = TRUE
  MaxResumes = 2
  MaxFaults = 1
  MaxCrashes = 1
  MaxErrors = 1
INVARIANT RecordIsBacked
PROPERTIES StopHonoured TeardownAfterResumes NothingStaysTied
CHECK_DEADLOCK FALSE
