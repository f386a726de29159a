CONSTANTS
    c1 = c1  c2 = c2  h1 = h1  h2 = h2  h3 = h3
    Chats <- TwoChats
    Kinds = {"command"}
    Handlers <- TwoHandlers
    MaxRows = 2
    MaxAttempts = 2
    MaxConcurrent = 2
    MaxBoots = 2
    MaxFaults = 0
    AdminOps = FALSE
SPECIFICATION FairSpec
PROPERTIES EventuallySettled
CHECK_DEADLOCK FALSE
