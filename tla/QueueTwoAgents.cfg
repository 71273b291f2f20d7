CONSTANTS
  Events = {1, 3}
  Keys = {1}
  KeyOf <- StrayLast
  Backlog <- OneQueued
  StartTime = 5
  MaxTime = 5
  MaxTries = 2
  ShortWrites = FALSE
  Kills = 0
  Agents = {a1, a2}
  Retriers = {}
  Oversize = {}
  Answers = {"ok", "rejected", "unreadable"}
  Outage <- Forever
  Passes = {"flush", "dequeue"}
  BackoffInterval = 1
  RetryLimit = 1
  CleanupInterval = 5
  CleanupAge = 5
  Crashes = 1
  Stops = 0
  Faults = 1
  Inodes = {i1, i2, i3}
  NoInode = noInode
  MaxPolls = 1
  NoEvent = noEvent
SPECIFICATION Spec
INVARIANTS NothingLost CountersNeverOvercount
PROPERTIES KeepsPromise
