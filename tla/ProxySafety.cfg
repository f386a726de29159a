CONSTANTS
    a = a  b = b  d = d  c1 = c1  c2 = c2
    Hosts = {a, b, d}
    Names = {"oauth", "key", "google"}
    Files <- Changing
    Active = "none"
    MaxEntries = 2
    CacheTtl = 1
    Conns = {c1, c2}
    MaxTime = 2
    MaxRequests = 4
    MaxReloads = 2
SPECIFICATION Spec
INVARIANTS WindowRespected RotationEven RecentStays
SYMMETRY ConnSymmetry
CHECK_DEADLOCK FALSE
