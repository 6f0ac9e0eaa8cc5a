SPECIFICATION Spec
CONSTANTS
  Versions <- MCVersions
  Size <- MCSize
  Configs <- MCConfigs
  Budget = 2
  None = None
INVARIANTS HashVouches PublishedInPlace
PROPERTIES RecoversWithinBudget GivesUpOnlySpent Terminates
