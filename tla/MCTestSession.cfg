SPECIFICATION Spec
CONSTANTS
  Texts <- MCStrings
  Paths <- MCPaths
  Kind <- MCKind
  Sections <- MCSections
  Builtin <- MCBuiltin
  DefaultFile <- MCDefaultFile
  Files <- MCFiles
  Environments <- MCEnvironments
  Letters <- MCLetters
  Native <- MCNative
  Registered <- MCRegistered
  Agent <- MCAgent
  Meant <- MCMeant
  Missing = Missing
  None = None
INVARIANTS
  TypeOK
  SettingsFollowPriority
  OpenDriversAccountedFor
  RunsOnItsBackend
\* A session ends.
CHECK_DEADLOCK FALSE
