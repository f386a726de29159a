CONSTANTS
    MaxMails = 2
    PageSize = 2
    MaxMessages = 2
    MaxCache = 2
    MaxFaults = 1
    MaxRenewalFails = 1
    MaxRestarts = 1
SPECIFICATION FairSpec
INVARIANTS Covered DeliveredExactly
PROPERTY NotifiedDelivered
CHECK_DEADLOCK FALSE
