CONSTANTS
  Events = {1, 2}
  Keys = {1}
  KeyOf <- OneKey
  Backlog <- OneQueued
  StartTime = 5
  MaxTime = 6
  MaxTries = 2
  ShortWrites = FALSE
  Kills = 1
  Agents = {a1}
  Retriers = {r1}
  Oversize = {2}
  Answers = {"ok", "rejected"}
  Outage <- Forever
  Passes = {"flush"}
  BackoffInterval = 1
  RetryLimit = 1
  CleanupInterval = 1
  CleanupAge = 0
  Crashes = 1
  Stops = 0
  Faults = 0
  Inodes = {i1, i2}
  NoInode = noInode
  MaxPolls = 1
  NoEvent = noEvent
SPECIFICATION Spec
INVARIANTS TypeOK  NothingLost
PROPERTIES KeepsPromise
