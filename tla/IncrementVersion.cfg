SPECIFICATION Spec
CONSTANTS
  None = None
  Packages = 4
  DependsOn <- WorkspaceDependencies
  INCREMENT_POS = "patch"
  MaxRuns = 4
INVARIANT CommittedPackagesAgree
PROPERTY NewVersionIsLater
