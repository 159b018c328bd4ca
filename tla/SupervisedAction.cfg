SPECIFICATION Spec
CONSTANTS
  Contracts <- SavedContracts
  Bundles <- MCBundles
  Proposals <- MCProposals
  Scenarios <- MCScenarios
  PrivatePaths <- MCPrivate
  Torn = Torn
  Absent = Absent
  None = None
  MaxEdits = 1
  MaxRuns = 2
INVARIANTS ProposedIsComplete ProposedIsAuthorised ReviewCoversRisk
CHECK_DEADLOCK FALSE
