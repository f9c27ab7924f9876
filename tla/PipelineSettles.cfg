SPECIFICATION FairSpec
CONSTANTS
  Requests <- AllRequests
  Overrides <- KindChanged
  InvokersNamed = FALSE
  UpstreamStatic = FALSE
  MaxResumes = 2
  MaxFaults = 0
  MaxCrashes = 0
  MaxErrors = 0
PROPERTIES EveryRunSettles KeyLostOnlyByChange SplitsOnlyByChange
CHECK_DEADLOCK FALSE
