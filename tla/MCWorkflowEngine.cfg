SPECIFICATION Spec
CONSTANTS
  maker = maker
  ann = ann
  bob = bob
  oicd = oicd
  Users = {maker, ann, bob, oicd}
  NoUser = NoUser
  Perms <- FourEyesPerms
  NoPerm = NoPerm
  Grants <- FourEyesGrants
  Definitions <- FourEyesDefinitions
  Rank <- FourEyesRank
  NoAmount = NoAmount
  NoKey = NoKey
  Amounts <- TwoAmounts
  Keys = {k1}
  Windows <- OicForAnn
  Originators = {maker}
  NotStarted = NotStarted
  NoView = NoView
  NoVersion = NoVersion
  MaxVersion = 6
INVARIANTS
  StateMatchesLog
  KeySpentOnce
  SegregationHolds
  GatesAreSound
  OfferedIsAccepted
CHECK_DEADLOCK FALSE
