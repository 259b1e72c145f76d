SPECIFICATION Spec
CONSTANTS
  owner = owner
  chief = chief
  officer = officer
  Users = {owner, chief, officer}
  Owner = owner
  NoUser = NoUser
  Perms <- ReimbPermissions
  NoPerm = NoPerm
  Grants <- OfficeScoped
  Scoped <- OfficeScoped
  Proximity <- OfficeProximity
  Definitions <- ReimbDefs
  Rank <- ReimbRanks
  NoAmount = NoAmount
  NoKey = NoKey
  ClaimIds = {1, 2}
  AdvanceIds = {1}
  Sessions = {s1, s2}
  r1 = r1
  PayoutRefs = {r1}
  Dates = {1, 2}
  Idle = Idle
  NoClaim = NoClaim
  NoAdvance = NoAdvance
  NoRef = NoRef
  NoDate = NoDate
  Situations <- DoubleClick
INVARIANTS
  NumbersAccounted
SYMMETRY AnySession
CHECK_DEADLOCK FALSE
