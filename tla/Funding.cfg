\* Both assets, both types of goal: settlements, policies, a stop, a cancellation
\* and a replay of the log.
CONSTANTS
  AssetOrder <- BothAssets
  Types = {"ONE_TIME", "MONTHLY"}
  Policies = {"PAYOUT_ALL", "ROLL_OVER"}
  Amounts = {1}
  Target = 1
  MaxPerSettlement = 2
  MaxFunded = 2
  MaxTime = 3
  MaxLog = 9
  MaxResets = 1
CHECK_DEADLOCK FALSE
SPECIFICATION Spec
INVARIANTS HandlersAcceptTheLog ProjectionFollowsContract SettlementAddsUp NeverOverstatesWhatIsOwed
