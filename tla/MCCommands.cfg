SPECIFICATION CommandsSpec
CONSTANTS
  Dev <- MCDev
  Http = {h1, h2}
  Profile <- MCProfile
  ProfileOf <- MCProfileOf
  Resources <- MCResources
  Commands <- MCCommands_
  Request <- MCRequest
  MaxCmdOps = 1
  NULL = NULL
  DeviceId = {"d1", "d2"}
  ProfilesOf <- ProfilesOfDef
  MaxStructs = 6
  MaxCopied = 2
  Fetcher = {"t"}
  CommandLine <- MCCommandLine
  Environment <- MCEnvironment
  Port <- MCPort
  UINT16_MAX = 3
  ConfigFile <- MCConfigFile
  Stored <- MCStored
  FileLevel = "DEBUG"
  Plugged <- MCPlugged
  StoredLevel = "INFO"
  MaxChanges = 2
  Level = {"INFO", "DEBUG"}
SYMMETRY Symmetry
INVARIANTS
  
  
  FreedOnceAndWhole
  
