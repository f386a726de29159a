CONSTANTS
    e1 = e1  e2 = e2  i1 = i1  i2 = i2  k1 = k1  k2 = k2
    Calls <- TwoCalls
    Idlers <- OneIdler
    Backups <- TwoBackups
    MaxBoxes = 2
    MaxTurns = 3
    MaxUpsets = 2
SPECIFICATION Spec
INVARIANTS EntryWillExpire 
CHECK_DEADLOCK FALSE
SYMMETRY Symmetry
