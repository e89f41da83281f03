\* One manager and one Safe owner besides a legacy manager, one intent that can
\* be prepared, signed, lost and executed, and one change of the owners; one
\* intent for the actions on a goal, monthly or not; two concurrent requests on
\* a draft.
CONSTANTS
  Addr = {"a", "b"}
  InitialOwners = {"a"}
  LegacyManagers = {"b"}
  Intents = {"i1"}
  MaxEvents = 4
  MaxOwnerChanges = 1
  MaxRequests = 1
  MaxSubmits = 2
  MaxNonce = 1
  MonthlyIntents = {"i1"}
  MaxChainEvents = 1
  MaxSafeTx = 1
  MaxAttempts = 3
  Requests = {"r1", "r2"}
  MaxTokens = 2
  MaxRequested = 4
SPECIFICATION GoalsSpec
INVARIANTS ManagersInv ExecutedActionTookEffect DraftsInv
PROPERTIES PendingProposalsEnd RetiredIntentsStayRetired
CHECK_DEADLOCK FALSE
