SPECIFICATION Spec
CONSTANTS
  Contracts <- Drifts
  Holdings <- SomeHoldings
  MaxAttempts = 4
  PollLimit = 2
  Shapes <- SomeShapes
  MaxProbes = 3
  MaxSteps = 2
  Urls <- SomeUrls
  References <- SomeReferences
  Webs <- SomeWebs
  Origins = {"https://api", "https://other"}
  Methods = {"GET"}
  Paths <- SomePaths
  Templates <- SomeTemplates
  FetchBudget = 3
  ProbeBudget = 1
  TurnBudget = 3
  Deployments = {"first run", "second run"}
  Members = {"Gemini Enterprise", "allUsers", "viewer"}
  Wanted <- SomeWanted
  Edits = 3
  Credentials = {"k1", "k2"}
  Forms <- SomeForms
  Worlds <- SomeWorlds
  Engines = {"app", "other app"}
  Rounds = 2
  Entries = {"a form", "a form with a key", "another form"}
  Wiped <- SomeWiped
  Calls = 3
  Creations = 1
INVARIANTS
  TypeOK GivesUpRightly AcceptedAsAsked VerifiedIsAcceptable QuietMeansAccepted
  ProbesLeaveNothing SpecBeforeModel CredentialLifted AnswersConverge SubmittedAsTyped
PROPERTIES GrantsKept EveryInvestigationEnds
CHECK_DEADLOCK FALSE
