CONSTANTS
  Events = {1, 2, 3}
  Keys = {1, 2}
  KeyOf <- TwoKeysThenStray
  Backlog <- AllQueued
  StartTime = 5
  MaxTime = 5
  MaxTries = 2
  ShortWrites = FALSE
  Kills = 0
  Agents = {a1}
  Retriers = {r1}
  Oversize = {}
  Answers = {"ok", "rejected", "throttled"}
  Outage <- Forever
  Passes = {"flush"}
  BackoffInterval = 1
  RetryLimit = 1
  CleanupInterval = 5
  CleanupAge = 3
  Crashes = 0
  Stops = 0
  Faults = 0
  Inodes = {i1, i2}
  NoInode = noInode
  MaxPolls = 1
  NoEvent = noEvent
SPECIFICATION StatusSpec
INVARIANTS StatusTypeOK NobodyOverlooked OneOutcome
