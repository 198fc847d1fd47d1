SPECIFICATION FairSpec
CONSTANTS
  TaskId = {1, 2}
  Handler = {h1, h2}
  MaxTasks = 2
  MaxResults = 2
INVARIANTS
  TypeOK
  ReplyMatchesUntilAbandoned
  SleeperIsNotified
PROPERTY AcceptedResultEndsWait
CHECK_DEADLOCK FALSE
