\* Overlapping and failing jobs, a configuration change and a reorganization of
\* any depth, over several chunks.
CONSTANTS
  Processes = {p1, p2}
  Stakers = {s1}
  Confirmations = 2
  ChunkSize = 1
  MaxHeight = 3
  MaxForks = 1
  MaxDepth = 3
  MaxStake = 1
  MaxConfig = 1
  MaxFailures = 1
  FreshForks = TRUE
  None = None
SPECIFICATION FairSpec
INVARIANT ProjectionInv
PROPERTIES CheckpointFollowsOneFork EventuallySynced
