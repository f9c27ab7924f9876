SPECIFICATION Spec
CONSTANTS
  Requests <- ProxiedRequests
  Overrides <- NothingSupplied
  InvokersNamed = FALSE
  UpstreamStatic = FALSE
  MaxResumes = 0
  MaxFaults = 0
  MaxCrashes = 1
  MaxErrors = 0
INVARIANT OrphanResumable
CHECK_DEADLOCK FALSE
