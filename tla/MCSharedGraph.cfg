CONSTANTS
  w1 = w1
  w2 = w2
  d1 = d1
  d2 = d2
  Workers = {w1, w2}
  Databases = {d1, d2}
  Protected = {d1}
  DatabaseOf <- OneDatabase
  Objects = {con, idx}
  Constraints = {con}
  Suites = {{"graph", "cli", "objects"}, {"tree", "admin"}}
  MaxScenarios = 1
SPECIFICATION Spec
INVARIANTS
  TypeOK
  ReadsOwnRows
  SchemaAccountedFor
  ProtectedStays
PROPERTIES
  ScenarioEnds
  LoopsAdvance
  ImplementsPrivateGraphs
CHECK_DEADLOCK FALSE
