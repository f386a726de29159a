CONSTANTS
    l1 = l1  l2 = l2
    MaxUpdates = 4
    Denied <- Second
    Greeted <- Third
    Media <- First
    Loops <- TwoLoops
    MaxTroubles = 2
SPECIFICATION FairSpec
INVARIANTS OnePollLoop ConfirmedAccounted RowsSound
PROPERTIES AllQueued
CHECK_DEADLOCK FALSE
