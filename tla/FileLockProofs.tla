--------------------------- MODULE FileLockProofs ---------------------------
(***************************************************************************)
(* What FileLock guarantees for any number of processes and inodes: the    *)
(* lock file is not left behind.  (Mutual exclusion is refuted by TLC.)    *)
(***************************************************************************)
EXTENDS FileLock, TLAPS

\* Whoever is on the way has a file open, and the file of somebody who has
\* gone through the first unlink() of release() is not the path's any more:
\* the path got another inode since, if it got one at all.
OpenFiles ==
  \A p \in Procs :
    /\ lpc[p] # "out" => fd[p] # NoInode
    /\ lpc[p] \in {"unlinked", "undeleted"} => fd[p] # path

FileInv == LockTypeOK /\ OpenFiles /\ NoFileLeftBehind

\* Nobody has a file open yet.
LEMMA FileInvInit == LockInit => FileInv
  BY FileLockAssumption DEF LockInit, FileInv, LockTypeOK, OpenFiles, NoFileLeftBehind, LockStates

\* One step of one process keeps every variable's type.
LEMMA LockTypeStep ==
  ASSUME LockTypeOK, NEW p \in Procs, AcquireStep(p) \/ ReleaseStep(p) \/ LockCrash(p)
  PROVE  LockTypeOK'
<1> USE FileLockAssumption DEF LockTypeOK, LockStates
<1>1. CASE Open(p)
  BY <1>1 DEF Open, Used
<1>2. CASE Acquire(p)
  BY <1>2 DEF Acquire
<1>3. CASE Busy(p)
  BY <1>3 DEF Busy
<1>4. CASE Timeout(p)
  BY <1>4 DEF Timeout
<1>5. CASE Unlink(p)
  BY <1>5 DEF Unlink
<1>6. CASE Close(p)
  BY <1>6 DEF Close
<1>7. CASE UnlinkMissing(p)
  BY <1>7 DEF UnlinkMissing
<1>8. CASE Finalize(p)
  BY <1>8 DEF Finalize
<1>9. CASE LockCrash(p)
  BY <1>9 DEF LockCrash
<1> QED
  BY <1>1, <1>2, <1>3, <1>4, <1>5, <1>6, <1>7, <1>8, <1>9 DEF AcquireStep, ReleaseStep

\* A new file gets an inode that nobody has open.
LEMMA OpenFilesStep ==
  ASSUME FileInv, NEW p \in Procs, AcquireStep(p) \/ ReleaseStep(p) \/ LockCrash(p)
  PROVE  OpenFiles'
<1> USE FileLockAssumption DEF FileInv, LockTypeOK, LockStates, OpenFiles
<1>1. CASE Open(p)
  BY <1>1 DEF Open, Used
<1>2. CASE Acquire(p) \/ Busy(p) \/ Timeout(p) \/ Close(p) \/ LockCrash(p)
  BY <1>2 DEF Acquire, Busy, Timeout, Close, LockCrash
<1>3. CASE Unlink(p) \/ UnlinkMissing(p) \/ Finalize(p)
  BY <1>3 DEF Unlink, UnlinkMissing, Finalize
<1> QED
  BY <1>1, <1>2, <1>3 DEF AcquireStep, ReleaseStep

\* A process that gives up competing leaves the file to the one that holds its
\* lock, which is inside: behind its unlink() it would hold another file.
LEMMA LeftToHolder ==
  ASSUME FileInv, NEW p \in Procs, LockedByOther(p), fd[p] = path
  PROVE  \E q \in Procs \ {p} : fd[q] = path /\ lpc[q] = "in"
  BY DEF LockedByOther, Locked, FileInv, OpenFiles

\* Whoever gives up the path's file deletes it or leaves it to somebody else.
LEMMA NoFileLeftBehindStep ==
  ASSUME FileInv, NEW p \in Procs, AcquireStep(p) \/ ReleaseStep(p) \/ LockCrash(p)
  PROVE  NoFileLeftBehind'
<1> USE FileLockAssumption DEF FileInv, LockTypeOK, LockStates, NoFileLeftBehind
<1>1. CASE Open(p)
  BY <1>1 DEF Open
<1>2. CASE Acquire(p) \/ Close(p)
  BY <1>2 DEF Acquire, Close
<1>3. CASE Busy(p) \/ Timeout(p)
  <2>1. CASE fd[p] = path
    BY <1>3, <2>1, LeftToHolder DEF Busy, Timeout
  <2>2. CASE fd[p] # path
    BY <1>3, <2>2 DEF Busy, Timeout
  <2> QED
    BY <2>1, <2>2
<1>4. CASE Unlink(p) \/ UnlinkMissing(p) \/ Finalize(p) \/ LockCrash(p)
  BY <1>4 DEF Unlink, UnlinkMissing, Finalize, LockCrash
<1> QED
  BY <1>1, <1>2, <1>3, <1>4 DEF AcquireStep, ReleaseStep

\* Every step of acquire(), release() and __del__() keeps the invariant.
LEMMA FileInvStep == FileInv /\ [LockNext]_lockVars => FileInv'
<1> SUFFICES ASSUME FileInv, [LockNext]_lockVars
             PROVE  FileInv'
  OBVIOUS
<1>1. CASE LockNext
  BY <1>1, LockTypeStep, OpenFilesStep, NoFileLeftBehindStep DEF LockNext, FileInv
<1>2. CASE UNCHANGED lockVars
  BY <1>2 DEF lockVars, FileInv, LockTypeOK, OpenFiles, NoFileLeftBehind
<1> QED
  BY <1>1, <1>2

\* The strengthened invariant holds of every behaviour of the lock.
THEOREM FileInvariance == LockSpec => []FileInv
  BY FileInvInit, FileInvStep, PTL DEF LockSpec

\* The variables of filelock.py's model keep their types.
THEOREM LockTypeCorrect == LockSpec => []LockTypeOK
<1>1. FileInv => LockTypeOK
  BY DEF FileInv
<1> QED
  BY <1>1, FileInvariance, PTL

\* Unless a process is killed, FileLock.acquire() and release() leave no lock
\* file behind, whatever files are deleted under whose feet.
THEOREM LockFileRemoved == LockSpec => []NoFileLeftBehind
<1>1. FileInv => NoFileLeftBehind
  BY DEF FileInv
<1> QED
  BY <1>1, FileInvariance, PTL
=============================================================================
