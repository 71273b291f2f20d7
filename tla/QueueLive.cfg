CONSTANTS
  Events = {1, 2}
  Keys = {1, 2}
  KeyOf <- KeyPerEvent
  Backlog <- OneQueued
  StartTime = 5
  MaxTime = 7
  MaxTries = 2
  ShortWrites = FALSE
  Kills = 0
  Agents = {a1}
  Retriers = {}
  Oversize = {}
  Answers = {"ok", "throttled"}
  Outage <- FirstKeyForever
  Passes = {"flush"}
  BackoffInterval = 1
  RetryLimit = 1
  CleanupInterval = 5
  CleanupAge = 5
  Crashes = 0
  Stops = 1
  Faults = 0
  Inodes = {i1, i2}
  NoInode = noInode
  MaxPolls = 1
  NoEvent = noEvent
SPECIFICATION FairSpec
PROPERTIES Delivered Stopped
