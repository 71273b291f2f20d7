CONSTANTS
  Procs = {p1, p2, p3}
  Inodes = {i1, i2, i3, i4}
  NoInode = noInode
  MaxPolls = 2
  MayCrash = FALSE
SPECIFICATION LockSpec
INVARIANTS MutualExclusion
