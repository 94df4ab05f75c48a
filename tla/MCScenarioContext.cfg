CONSTANTS
  Empty = empty
  Results = {empty, rows}
  Errors = {SyntaxError, TypeError}
  None = None
  Databases = {main, other}
  DefaultDb = main
  Users = {alice, bob}
  Clients = {c1, c2, c3}
  Params = {p}
  ExitCodes = {0, 1}
  MaxBatch = 2
  MaxSteps = 5
SYMMETRY ClientSymmetry
SPECIFICATION Spec
INVARIANTS
  TypeOK
  RecordedOutcome
  AcceptedResultIsClean
  LiveClientsReachable
  UserQueriesShareClient
