SPECIFICATION FairSpec
CONSTANTS
  Targets = {"app", "lib", "base"}
  Nodes = {1, 2}
  Needs <- MCNeeds
  Assignments <- MCAssignments
  Mounts <- MCMounts
  None = None
INVARIANTS WaitCoversAll SessionsCounted
PROPERTIES ImplementsGraph BuildReturns
CHECK_DEADLOCK FALSE
