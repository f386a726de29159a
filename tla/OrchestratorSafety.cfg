CONSTANTS
    c1 = c1  c2 = c2  h1 = h1  h2 = h2  h3 = h3
    Chats <- TwoChats
    Kinds = {"voice"}
    Handlers <- TwoHandlers
    MaxRows = 2
    MaxAttempts = 2
    MaxConcurrent = 1
    MaxBoots = 2
    MaxFaults = 1
    AdminOps = TRUE
SPECIFICATION Spec
SYMMETRY Symmetry
INVARIANTS SingleOwner  CountMatches ActiveTasksBacked AttemptsBound
PROPERTIES NoticeIffDeadLettered SettledStays
CHECK_DEADLOCK FALSE
