CONSTANTS
  N = 3
  MaxDirs = 2
  MaxTokens = 2
SPECIFICATION Spec
INVARIANTS
  TypeOK
  IdentitiesAgree
  StartedFromHere
  FormsQuorum
PROPERTIES
  ImplementsCluster
