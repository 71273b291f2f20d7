------------------------------ MODULE FileLock ------------------------------
(***************************************************************************)
(* pdagent/thirdparty/filelock.py: an advisory lock on a file that is      *)
(* created by acquire() and deleted by release().                          *)
(*                                                                         *)
(* The lock lives on the inode a process has opened, while processes find  *)
(* the inode through the path; release() removes the path first and drops  *)
(* the inode's lock second.  The model keeps the two apart:                *)
(*   path     the inode the lock file's path names, NoInode if no file     *)
(*   fd[p]    the inode p's self.f is open on                              *)
(*   lpc[p]   where p is in acquire()/release()                            *)
(*   polls[p] failed attempts of the current acquire(); stands for the     *)
(*            elapsed time that acquire() compares with self.timeout       *)
(*   orphaned whether a killed process may have left the file behind       *)
(***************************************************************************)
EXTENDS Naturals

CONSTANTS
  Procs,      \* processes that use the lock
  Inodes,     \* inode numbers; an unused one is taken for a new file
  NoInode,
  MaxPolls,   \* an acquire() that failed this often has reached its timeout
  MayCrash    \* whether processes get killed, now or before the initial state

ASSUME FileLockAssumption ==
  /\ NoInode \notin Inodes
  /\ MaxPolls \in Nat \ {0}
  /\ MayCrash \in BOOLEAN

VARIABLES path, fd, lpc, polls, orphaned

lockVars == <<path, fd, lpc, polls, orphaned>>

LockStates == {"out", "opened", "waiting", "in", "unlinked", "undeleted"}

\* is_locked is set: the process runs between acquire() and the end of release()
Locked(p) == lpc[p] \in {"in", "unlinked", "undeleted"}

\* the process owns the lock as its caller sees it: acquire() has returned,
\* release() has not been called
Inside(p) == lpc[p] = "in"

Used == {path} \cup {fd[p] : p \in Procs}

\* lockf() answers EWOULDBLOCK: another process has the lock of this inode
LockedByOther(p) == \E q \in Procs \ {p} : Locked(q) /\ fd[q] = fd[p]

\* A file that a killed process left behind may be there.
LockInit ==
  /\ path \in IF MayCrash THEN Inodes \cup {NoInode} ELSE {NoInode}
  /\ fd = [p \in Procs |-> NoInode]
  /\ lpc = [p \in Procs |-> "out"]
  /\ polls = [p \in Procs |-> 0]
  /\ orphaned = (path # NoInode)

-----------------------------------------------------------------------------
(* acquire() *)

\* open(lockfile, "w"): the file the path names, or a new one.  The file of
\* the previous attempt is closed when self.f is rebound.
Open(p) ==
  /\ lpc[p] \in {"out", "waiting"}
  /\ path' \in IF path = NoInode THEN Inodes \ Used ELSE {path}
  /\ fd' = [fd EXCEPT ![p] = path']
  /\ lpc' = [lpc EXCEPT ![p] = "opened"]
  /\ UNCHANGED <<polls, orphaned>>

\* lockf(LOCK_EX | LOCK_NB) succeeds, on the inode that was opened
Acquire(p) ==
  /\ lpc[p] = "opened"
  /\ ~LockedByOther(p)
  /\ lpc' = [lpc EXCEPT ![p] = "in"]
  /\ polls' = [polls EXCEPT ![p] = 0]
  /\ UNCHANGED <<path, fd, orphaned>>

\* (mutants) the time is never looked at; the start time is taken anew
BusyUnlimited(p) ==
  /\ lpc[p] = "opened"
  /\ LockedByOther(p)
  /\ lpc' = [lpc EXCEPT ![p] = "waiting"]
  /\ polls' = [polls EXCEPT ![p] = @ + 1]
  /\ UNCHANGED <<path, fd, orphaned>>
BusyForever(p) ==
  /\ lpc[p] = "opened"
  /\ LockedByOther(p)
  /\ lpc' = [lpc EXCEPT ![p] = "waiting"]
  /\ UNCHANGED <<path, fd, polls, orphaned>>

\* lockf() fails and the timeout has not been reached: sleep, then open again
Busy(p) ==
  /\ lpc[p] = "opened"
  /\ LockedByOther(p)
  /\ polls[p] + 1 < MaxPolls
  /\ lpc' = [lpc EXCEPT ![p] = "waiting"]
  /\ polls' = [polls EXCEPT ![p] = @ + 1]
  /\ UNCHANGED <<path, fd, orphaned>>

\* lockf() fails for the last time: LockTimeoutException
Timeout(p) ==
  /\ lpc[p] = "opened"
  /\ LockedByOther(p)
  /\ polls[p] + 1 >= MaxPolls
  /\ lpc' = [lpc EXCEPT ![p] = "out"]
  /\ fd' = [fd EXCEPT ![p] = NoInode]
  /\ polls' = [polls EXCEPT ![p] = 0]
  /\ UNCHANGED <<path, orphaned>>

-----------------------------------------------------------------------------
(* release() *)

\* (mutant) the file is kept
UnlinkNothing(p) ==
  /\ lpc[p] = "in"
  /\ path # NoInode
  /\ lpc' = [lpc EXCEPT ![p] = "unlinked"]
  /\ UNCHANGED <<path, fd, polls, orphaned>>

\* os.unlink(lockfile): whatever file the path names by now
Unlink(p) ==
  /\ lpc[p] = "in"
  /\ path # NoInode
  /\ path' = NoInode
  /\ lpc' = [lpc EXCEPT ![p] = "unlinked"]
  /\ UNCHANGED <<fd, polls, orphaned>>

\* self.f.close() drops the lock
Close(p) ==
  /\ lpc[p] = "unlinked"
  /\ lpc' = [lpc EXCEPT ![p] = "out"]
  /\ fd' = [fd EXCEPT ![p] = NoInode]
  /\ UNCHANGED <<path, polls, orphaned>>

\* os.unlink(lockfile) raises ENOENT: release() ends with the lock still held
UnlinkMissing(p) ==
  /\ lpc[p] = "in"
  /\ path = NoInode
  /\ lpc' = [lpc EXCEPT ![p] = "undeleted"]
  /\ UNCHANGED <<path, fd, polls, orphaned>>

\* __del__() calls release() once more: the path may name a file again, and
\* whether or not it does, the file object is closed next
Finalize(p) ==
  /\ lpc[p] = "undeleted"
  /\ path' = NoInode
  /\ lpc' = [lpc EXCEPT ![p] = "unlinked"]
  /\ UNCHANGED <<fd, polls, orphaned>>

\* The process is killed: the kernel closes its file, the path stays.
LockCrash(p) ==
  /\ MayCrash
  /\ lpc[p] # "out"
  /\ lpc' = [lpc EXCEPT ![p] = "out"]
  /\ fd' = [fd EXCEPT ![p] = NoInode]
  /\ polls' = [polls EXCEPT ![p] = 0]
  /\ orphaned' = TRUE
  /\ UNCHANGED path

AcquireStep(p) == Open(p) \/ Acquire(p) \/ Busy(p) \/ Timeout(p)
ReleaseStep(p) == Unlink(p) \/ Close(p) \/ UnlinkMissing(p) \/ Finalize(p)

LockNext == \E p \in Procs : AcquireStep(p) \/ ReleaseStep(p) \/ LockCrash(p)

LockSpec == LockInit /\ [][LockNext]_lockVars

\* A process that is inside acquire() or release() keeps running; nothing
\* obliges it to call acquire() again.
FairLockSpec ==
  /\ LockSpec
  /\ \A p \in Procs : WF_lockVars(lpc[p] # "out" /\ (AcquireStep(p) \/ ReleaseStep(p)))

-----------------------------------------------------------------------------
(* Properties *)

LockTypeOK ==
  /\ path \in Inodes \cup {NoInode}
  /\ fd \in [Procs -> Inodes \cup {NoInode}]
  /\ lpc \in [Procs -> LockStates]
  /\ polls \in [Procs -> 0 .. MaxPolls - 1]
  /\ orphaned \in BOOLEAN

\* "Concurrent dequeues are serialized with an exclusive dequeue lock"
\* (pdqueue.py:43): two processes are never both between acquire() and
\* release().
MutualExclusion == \A p, q \in Procs : Inside(p) /\ Inside(q) => p = q

\* As long as nobody is killed, the lock file never outlives its users: while
\* the path names a file, some process has that file open and will delete
\* whatever the path names, or is still competing for the file's lock.
NoFileLeftBehind ==
  path # NoInode /\ ~orphaned =>
    \E p \in Procs : fd[p] = path /\ lpc[p] \in {"opened", "in"}

\* Every acquire() returns or times out, also when a holder was killed and
\* when files get deleted under the waiters' feet.
AcquireReturns ==
  \A p \in Procs : lpc[p] \in {"opened", "waiting"} ~> lpc[p] \in {"in", "out"}
=============================================================================
