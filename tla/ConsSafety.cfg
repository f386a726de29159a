CONSTANTS
    c1 = c1  j1 = j1  j2 = j2
    ChatIds <- OneChat
    ChatOf <- SameChat
    Jobs <- TwoJobs
    Sessions = {1, 2}
    Messages = {1, 2, 3}
    MinMessages = 1
    ChunkSize = 2
    Threshold = 1
    EndsSessions = TRUE
    MaxFaults = 1
    MaxCrashes = 1
SPECIFICATION FairSpec
INVARIANTS SummarisedOnce CondensedOnce
 
CHECK_DEADLOCK FALSE
