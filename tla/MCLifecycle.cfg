CONSTANTS
  NULL = NULL
  Profile = {"p1", "p2"}
  Device = {"d1"}
  Request = {"r1"}
  Retries = 2
  RegistryRetries = 2
  MaxStarts = 3
  CommandInfo <- MCCommandInfo
  Bits = Bits
  MaxTasks = 2
  MaxPolls = 2
SPECIFICATION MCSpec
INVARIANTS
  
  CompleteUnlessCut
  StartFailsOnlyIfTrouble
  ResultsFreedOnce
PROPERTY StartsAndStopsEnd
CHECK_DEADLOCK FALSE
