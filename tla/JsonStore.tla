----------------------------- MODULE JsonStore ------------------------------
(***************************************************************************)
(* A JsonStore (pdagent/jsonstore.py): a file that a get reads, and that a *)
(* set replaces by another one, written under the name <db>.bak first.     *)
(* Several processes may share a store: every PDQueue loads the counters   *)
(* of `aggregates` and writes them back when it is made, in the agent and  *)
(* in the pd-queue command alike.  A file is a name for an inode; a        *)
(* process goes on using the inode that it has opened.                     *)
(***************************************************************************)
EXTENDS FiniteSets

CONSTANTS
  Procs,    \* processes that share the store
  Values,   \* what can be stored
  Inodes,
  None, Empty, Torn

ASSUME StoreAssumption ==
  /\ {None, Empty, Torn} \cap Values = {}
  /\ None \notin Inodes
  /\ Empty # Torn

VARIABLES
  path, bak,   \* the inodes that the two names stand for, or None
  content,     \* what is in an inode
  op,          \* where a process is in set() or get()
  fd,          \* the inode it has open
  arg,         \* what it sets
  alone        \* history: no other set was under way during its set

storeVars == <<path, bak, content, op, fd, arg, alone>>

InSet == {p \in Procs : op[p] \in {"opened", "closed"}}
InUse == {path, bak} \cup {fd[p] : p \in Procs}

StoreInit ==
  /\ path = None /\ bak = None
  /\ content = [i \in Inodes |-> Empty]
  /\ op = [p \in Procs |-> "idle"]
  /\ fd = [p \in Procs |-> None]
  /\ arg = [p \in Procs |-> None]
  /\ alone = [p \in Procs |-> FALSE]

\* p is through; an inode without a name that nobody has open is free again.
Done(p) ==
  /\ op' = [op EXCEPT ![p] = "idle"]
  /\ fd' = [fd EXCEPT ![p] = None]
  /\ content' = [i \in Inodes |-> IF i \in InUse' THEN content[i] ELSE Empty]
  /\ arg' = [arg EXCEPT ![p] = None]
  /\ alone' = [alone EXCEPT ![p] = FALSE]

-----------------------------------------------------------------------------
(* set() *)

\* (mutant) writes the file itself
OpenInPlace(p) ==
  /\ path' \in IF path = None THEN Inodes \ InUse ELSE {path}
  /\ bak' = path'
  /\ fd' = [fd EXCEPT ![p] = path']
  /\ content' = [content EXCEPT ![path'] = Empty]

\* (mutant) what a set that was cut off has left in the file is not emptied
OpenAppend(p) ==
  /\ bak' \in IF bak = None THEN Inodes \ InUse ELSE {bak}
  /\ fd' = [fd EXCEPT ![p] = bak']
  /\ UNCHANGED <<path, content>>

\* open(self._backup_path, "w"): makes the file, or empties the one there is.
OpenBackup(p) ==
  /\ bak' \in IF bak = None THEN Inodes \ InUse ELSE {bak}
  /\ fd' = [fd EXCEPT ![p] = bak']
  /\ content' = [content EXCEPT ![bak'] = Empty]
  /\ UNCHANGED path

SetOpen(p, v) ==
  /\ op[p] = "idle"
  /\ op' = [op EXCEPT ![p] = "opened"]
  /\ arg' = [arg EXCEPT ![p] = v]
  /\ OpenBackup(p)
  /\ alone' = [q \in Procs |-> q = p /\ InSet = {}]

\* What is in a file after v was written at its beginning: the end of a
\* longer text, written meanwhile by another set, stays behind it.
Written(old, v) == IF old \in {Empty, v} THEN {v} ELSE {v, Torn}

\* json.dump() and close()
SetWrite(p) ==
  /\ op[p] = "opened"
  /\ op' = [op EXCEPT ![p] = "closed"]
  /\ \E c \in Written(content[fd[p]], arg[p]) : content' = [content EXCEPT ![fd[p]] = c]
  /\ UNCHANGED <<path, bak, fd, arg, alone>>

\* os.rename(): of whatever the name stands for by now; OSError if nothing.
SetRename(p) ==
  /\ op[p] = "closed"
  /\ IF bak # None THEN path' = bak /\ bak' = None ELSE UNCHANGED <<path, bak>>
  /\ Done(p)

-----------------------------------------------------------------------------
(* get() *)

GetOpen(p) ==
  /\ op[p] = "idle" /\ path # None
  /\ op' = [op EXCEPT ![p] = "reading"]
  /\ fd' = [fd EXCEPT ![p] = path]
  /\ UNCHANGED <<path, bak, content, arg, alone>>

\* The value in an inode; None when json.load() fails or there is no file.
Load(i) == IF i \in Inodes /\ content[i] \in Values THEN content[i] ELSE None

\* The answer of a get is Load(fd[p]).
GetRead(p) ==
  /\ op[p] = "reading"
  /\ UNCHANGED <<path, bak>>
  /\ Done(p)

\* The process is killed.
Cut(p) ==
  /\ UNCHANGED <<path, bak>>
  /\ Done(p)

-----------------------------------------------------------------------------
StoreStep(p) ==
  \/ \E v \in Values : SetOpen(p, v)
  \/ SetWrite(p) \/ SetRename(p)
  \/ GetOpen(p) \/ GetRead(p)
  \/ Cut(p)

StoreNext == \E p \in Procs : StoreStep(p)

StoreSpec == StoreInit /\ [][StoreNext]_storeVars

-----------------------------------------------------------------------------
(* Properties *)

\* Every variable has its type, and no two files share an inode.
StoreTypeOK ==
  /\ path \in Inodes \cup {None} /\ bak \in Inodes \cup {None}
  /\ path = bak => path = None
  /\ content \in [Inodes -> Values \cup {Empty, Torn}]
  /\ op \in [Procs -> {"idle", "opened", "closed", "reading"}]
  /\ fd \in [Procs -> Inodes \cup {None}]
  /\ arg \in [Procs -> Values \cup {None}]
  /\ alone \in [Procs -> BOOLEAN]

Doing(p) == CASE op[p] = "idle" -> "idle"
              [] op[p] \in {"opened", "closed"} -> "set"
              [] op[p] = "reading" -> "get"

\* what a set was given; what a get will answer
Value(p) == IF op[p] = "reading" THEN Load(fd[p]) ELSE arg[p]

Promised == INSTANCE Register WITH
  stored <- Load(path),
  doing <- [p \in Procs |-> Doing(p)],
  value <- [p \in Procs |-> Value(p)],
  alone <- alone

\* "persist JSON-based data atomically" (jsonstore.py:38): whoever is killed
\* at whatever point, the store holds what the last set that came to its
\* rename was given, whole, and a get answers with the value there was when it
\* opened the file.  That is, unless this set overlapped another one: what two
\* of them make of the file stays until the next set is made alone.
StoresAtomically == Promised!RegisterSpec
=============================================================================
