SPECIFICATION Spec
CONSTANTS
  Office = Office
  Division = Division
  Section = Section
  Branch = Branch
  Units = {Office, Division, Section, Branch}
  NoRow = NoRow
  NoUnit = NoUnit
  RoleGrants <- SeededRoles
  MaxAncestryDepth = 3
  Employees = {1, 2}
  NoEmail = NoEmail
  Importers = {1, 2}
  Idle = Idle
  MaxTreeDepth = 4
  Users = {1, 2, 3, 4}
  StaffOf <- MCStaffOf
  ClaimIds = {1, 2, 3}
  KindOf <- MCKindOf
  AmountOf <- MCAmountOf
  TripOf <- MCTripOf
  ClaimantOf <- MCClaimantOf
  NoUser = NoUser
  NoDay = NoDay
  NoPerm = NoPerm
  NoAmount = NoAmount
  Worlds <- MCWorlds
  FollowupDays = 0
  DoneWindow = 0
  InsightsWindow = 1
  ScanCap = 1
  CardLimit = 1
  ListCap = 3
  SourceCap = 1
  MaxReturns = 1
  MaxNow = 2
INVARIANTS
  ListsMatchTheGate
  
  ListsCountEveryClaim
  ValidatedFeedsApply
PROPERTY HolderSeesTheirWork
CHECK_DEADLOCK FALSE
