\* Two clicks of a stake with a reorganization-free chain of three blocks; two wallets
\* with two challenges; two requests of the API; two failures of a release; two actions
\* of the administrator; two payouts of a goal; two accounts with two profiles; a topic
\* of six replies; and forms opened at the turn of the year and of January, in a leap year
\* and in a century year that is none.
CONSTANTS
  Clicks = {i1, i2}
  Confirmations = 1
  MaxBlock = 3
  Wallets = {j1, j2}
  Challenges = {i1, i2}
  MaxReads = 2
  MaxEvents = 2
  Requests = {i1, i2}
  CacheTtl = 2
  MaxWait = 1
  MaxChanges = 2
  MaxFailures = 2
  Signed = {i1, i2}
  Slots = {i1, i2}
  Payouts = {i1, i2}
  MaxContributions = 2
  MaxTime = 4
  MaxRebuilds = 1
  PageSize = 1
  Accounts = {j1, j2}
  MaxWrites = 2
  MaxSwitches = 1
  MaxReplies = 6
  EarlierLimit = 1
  TargetLimit = 2
  MaxRefreshes = 2
  Years = {2000, 2100}
  Months = {0, 1}
  MaxPeriods = 3
SPECIFICATION SiteSpec
INVARIANTS StakeInv AccessInv  PagesInv
SYMMETRY Interchangeable
CHECK_DEADLOCK FALSE
