SPECIFICATION FairSpec
CONSTANTS
  beat1 = beat1
  beat2 = beat2
  task = task
  desk = desk
  w1 = w1
  w2 = w2
  ana = ana
  ben = ben
  NoKey = NoKey
  NoUser = nobody
  Committed = Committed
  Ids <- MCIds
  DedupKeys <- MCDedupKeys
  Users = {ana, ben}
  Prefs <- MCPrefs
  Senders = {beat1, task}
  Workers = {w1}
  MaxRetries = 1
  MaxCrashes = 1
  Steps <- MCSteps
  Advances <- MCAdvances
  Facts <- MCFacts
  DueOn <- MCDueOn
  Nudgeable = {1, 2}
  OwnerOf <- MCOwnerOf
  ClaimantOf <- MCClaimantOf
  Addressed = {ana}
  Holidays <- MCHolidays
  Repeat = 1
  PageSize = 1
  MaxPages = 3
  MaxTaskRetries = 1
  Days <- MCDays
  Room = 3
  MaxAttempts = 2
  Beats = {beat1}
  Notifiers = {task}
  Desks = {}
  Starts <- MCLiveStarts
PROPERTIES  OverdueIsNudged
CHECK_DEADLOCK FALSE
