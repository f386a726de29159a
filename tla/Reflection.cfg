CONSTANTS
  Profiles = {"p"}
  Types = {"insight"}
  MinEntries = 2
  MetaThreshold = 2
  MaxDepth = 2
  Cascade = TRUE
  MaxAnswers = 3
  MaxSem = 3
  MaxMeta = 5
  MaxTime = 2
  MaxPasses = 2
  MaxFailures = 1
SPECIFICATION ReflectionSpec
INVARIANTS
  MetaCondensedOnce
  
PROPERTIES
  DistrustLasts
  PassEnds
CHECK_DEADLOCK FALSE
