CONSTANTS
  Chats = {c1, c2}
  Callers = {w1, w2}
  MaxProfiles = 3
  MaxId = 5
  MaxOps = 3
SYMMETRY Symmetry
SPECIFICATION Spec
INVARIANTS
  
  ServerFollowsChat
  ProfilesSound
CHECK_DEADLOCK FALSE
