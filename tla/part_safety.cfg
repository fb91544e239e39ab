SPECIFICATION Spec
CONSTANTS
  Entries = 4
  Objects <- MCObjects
  Object <- MCObject
  MaxFailures = 3
  MaxLives = 2
INVARIANTS StartedAsOne ResourcesFollowState StaleOnlyAfterFailure
