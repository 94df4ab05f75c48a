SPECIFICATION Spec
CONSTANTS
  None = None
  n1 = n1
  n2 = n2
  ignore = ignore
  other = other
  Names <- MCNames
  Tags <- MCTags
  SkipMarkers <- MCSkip
  Lines <- MCLines
  MaxLines = 4
INVARIANT IgnoredIsSkipped
CHECK_DEADLOCK FALSE
