SPECIFICATION DaemonSpec
CONSTANTS
  Procs = {p, q}
  Values = {v, w}
  Inodes = {i1, i2, i3, i4}
  Ids = {x, y}
  None = None
  Empty = Empty
  Torn = Torn
  NoFile = NoFile
SYMMETRY Interchangeable
INVARIANTS DaemonTypeOK OneAgent ScriptKnows
PROPERTIES IdKept StoresAtomically
