SPECIFICATION Spec
CONSTANTS
  Requests <- ProxiedRequests
  Overrides <- NothingSupplied
  InvokersNamed = FALSE
  UpstreamStatic = FALSE
  MaxResumes = 2
  MaxFaults = 1
  MaxCrashes = 1
  MaxErrors = 1
INVARIANTS TypeOK ReadyIsWhole SecretsAgree OneClient ConnectorMatchesRegistration
PROPERTIES CollectionStable ImplementsLifecycle
CHECK_DEADLOCK FALSE
