SPECIFICATION Spec
CONSTANTS
  Procs = {p1, p2}
  None = None
  MaxSids = 3
  MaxNow = 3
  MaxVersion = 2
  MaxEpoch = 2
  Cap = 1
  CapPolicy = "evict_oldest"
  IdleStaff = 2
  IdlePrivileged = 1
  Absolute = 3
  Reauth = 2
  Backstop = 3
  Threshold = 2
  BackoffBase = 1
  BackoffCeiling = 2
  Window = 2
  ValidWindow = 1
  Grants = {"acting"}
  GrantOf <- MCGrantOf
  Starts <- MCStarts
INVARIANTS  RevocationIsComplete 
PROPERTIES EndedStaysEnded
SYMMETRY Symmetry
CHECK_DEADLOCK FALSE
