CONSTANTS
  Events = {1, 2, 3}
  Keys = {1}
  KeyOf <- OneKey
  Backlog <- Empty
  StartTime = 5
  MaxTime = 6
  MaxTries = 3
  ShortWrites = FALSE
  Kills = 1
  Agents = {}
  Retriers = {}
  Oversize = {}
  Answers = {"ok"}
  Outage <- Forever
  Passes = {"flush"}
  BackoffInterval = 1
  RetryLimit = 1
  CleanupInterval = 5
  CleanupAge = 5
  Crashes = 0
  Stops = 0
  Faults = 0
  Inodes = {i1, i2}
  NoInode = noInode
  MaxPolls = 1
  NoEvent = noEvent
SPECIFICATION FairSpec
INVARIANTS PublishedWhole OnlyKillsFail
PROPERTIES EnqueueEnds
CHECK_DEADLOCK FALSE
