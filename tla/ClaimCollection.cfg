SPECIFICATION Spec
CONSTANTS
  Requests <- ProxiedRequests
  Overrides <- NothingSupplied
  InvokersNamed = FALSE
  UpstreamStatic = FALSE
  MaxResumes = 1
  MaxFaults = 0
  MaxCrashes = 0
  MaxErrors = 0
INVARIANT OneCollection
CHECK_DEADLOCK FALSE
