CONSTANTS
  Events = {1, 2}
  Keys = {1}
  KeyOf <- OneKey
  Backlog <- Empty
  StartTime = 5
  MaxTime = 5
  MaxTries = 2
  ShortWrites = FALSE
  Kills = 0
  Agents = {a1}
  Retriers = {}
  Oversize = {}
  Answers = {"ok", "rejected"}
  Outage <- Forever
  Passes = {"flush"}
  BackoffInterval = 1
  RetryLimit = 1
  CleanupInterval = 5
  CleanupAge = 5
  Crashes = 0
  Stops = 0
  Faults = 0
  Inodes = {i1, i2}
  NoInode = noInode
  MaxPolls = 1
  NoEvent = noEvent
SPECIFICATION Spec
INVARIANTS OneFilePerName
