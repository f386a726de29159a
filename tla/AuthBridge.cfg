CONSTANTS
    m1 = m1  m2 = m2  b1 = b1  b2 = b2  t1 = t1  t2 = t2  None = None
    Machines <- TwoMachines
    Browsers <- TwoBrowsers
    Tokens <- TwoTokens
    MaxKeys = 2
    MaxSessions = 1
    Ttl = 0
    Timeout = 1
    MaxTime = 1
    MaxFaults = 1
SPECIFICATION Spec
SYMMETRY Symmetry
INVARIANT AcceptedIsStored
PROPERTIES ImplementsPromise
CHECK_DEADLOCK FALSE
