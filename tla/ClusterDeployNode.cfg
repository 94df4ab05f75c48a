CONSTANTS
  N = 3
  MaxDirs = 1
  MaxTokens = 2
SPECIFICATION Spec
PROPERTIES
  NodeOptionTouchesItsNode
