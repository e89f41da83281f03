\* The contract also emits events that no handler knows.
CONSTANTS
  Processes = {p1}
  Confirmations = 1
  ChunkSize = 2
  Kinds = {"event", "global"}
  MaxLogs = 1
  MaxHeight = 4
  MaxForks = 0
  MaxDepth = 1
  DeepWhenQuiet = FALSE
  MaxFailures = 0
  None = None
SPECIFICATION FairSpec
PROPERTY EventuallyIndexed
