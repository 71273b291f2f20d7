------------------------------ MODULE Enqueue -------------------------------
(***************************************************************************)
(* PDQEnqueuer of pdagent/pdqueue.py: the enqueue() that a pd-send process *)
(* or a monitoring-tool wrapper calls, one process per event, all of them  *)
(* concurrent with each other and with the agent.                          *)
(*                                                                         *)
(* Each process writes its event to a file created exclusively in tmp,     *)
(* links that file into pdq under an exclusive name, and unlinks the tmp   *)
(* file.  Both names come from a time that is read once, before the first  *)
(* attempt (the model reads it in the step before); a collision adds one   *)
(* to it and tries again.                                                  *)
(*                                                                         *)
(* The file is created once and written through its descriptor, but linked *)
(* and unlinked by its path, tmp_fname_abs.  If cleanup() has deleted it   *)
(* meanwhile the path names nothing, or a file that another enqueue() has  *)
(* made under the same name.                                               *)
(***************************************************************************)
EXTENDS QueueDir

CONSTANTS
  MaxTries,     \* names tried before "Too many retries!" (100 in the code)
  ShortWrites,  \* whether os.write() may write less than it was given
  Kills         \* number of pd-send processes that may be killed

ASSUME EnqueueAssumption ==
  /\ MaxTries \in Nat \ {0}
  /\ ShortWrites \in BOOLEAN
  /\ Kills \in Nat

VARIABLES
  spc,      \* spc[e]: where e's enqueue() is
  stamp,    \* stamp[e]: t_microsecs
  tries,    \* tries[e]: n
  tmp,      \* tmp[e]: the name of e's file in tmp, NoName if there is none
  tmp_fname,   \* tmp_fname[e]: the path that e's enqueue() opened
  killed    \* number of processes killed so far

senderVars == <<spc, stamp, tries, tmp, tmp_fname, killed>>

SenderStates == {"idle", "open", "write", "link", "unlink", "sent", "failed"}
Running(e) == spc[e] \in {"open", "write", "link", "unlink"}
Strays == {e \in Events : KeyOf[e] = NoKey}
TmpFiles == {tmp[e] : e \in Events} \ {NoName}

SenderInit ==
  /\ spc = [e \in Events |-> IF Queued(e) THEN "sent" ELSE "idle"]
  /\ stamp = [e \in Events |-> 0]
  /\ tries = [e \in Events |-> 0]
  /\ tmp = [e \in Events |-> NoName]
  /\ tmp_fname = [e \in Events |-> NoName]
  /\ killed = 0

\* A file that enqueue() did not name appears in pdq.
DropStray(e) ==
  /\ spc[e] = "idle"
  /\ e \in Strays
  /\ FileName(clock, NoKey) \notin QueuedFiles("pdq")
  /\ spc' = [spc EXCEPT ![e] = "sent"]
  /\ dir' = [dir EXCEPT ![e] = "pdq"]
  /\ name' = [name EXCEPT ![e] = FileName(clock, NoKey)]
  /\ data' = [data EXCEPT ![e] = "full"]
  /\ UNCHANGED <<stamp, tries, tmp, tmp_fname, killed>>

StartEnqueue(e) ==
  /\ spc[e] = "idle"
  /\ e \notin Strays
  /\ spc' = [spc EXCEPT ![e] = "open"]
  /\ stamp' = [stamp EXCEPT ![e] = clock]
  /\ UNCHANGED <<tries, tmp, tmp_fname, killed, queueVars>>

\* (mutants) the same name over and over; one try too few
TrySame(e) == UNCHANGED <<spc, stamp, tries, tmp, tmp_fname, killed, queueVars>>
TryOneLess(e) ==
  /\ tries' = [tries EXCEPT ![e] = @ + 1]
  /\ spc' = IF tries[e] + 2 >= MaxTries THEN [spc EXCEPT ![e] = "failed"] ELSE spc
  /\ UNCHANGED <<stamp, tmp, tmp_fname, killed, queueVars>>

\* the name was taken: n += 1, and an exception once n has reached the limit
TryNext(e) ==
  /\ tries' = [tries EXCEPT ![e] = @ + 1]
  /\ spc' = IF tries[e] + 1 >= MaxTries THEN [spc EXCEPT ![e] = "failed"] ELSE spc
  /\ UNCHANGED <<stamp, tmp, tmp_fname, killed, queueVars>>

NextName(e) == FileName(stamp[e] + tries[e], KeyOf[e])

\* (mutant) the file is linked as soon as it is open
OpenTmpAndLink(e) ==
  /\ spc[e] = "open"
  /\ tmp' = [tmp EXCEPT ![e] = NextName(e)]
  /\ tmp_fname' = [tmp_fname EXCEPT ![e] = NextName(e)]
  /\ data' = [data EXCEPT ![e] = "empty"]
  /\ spc' = [spc EXCEPT ![e] = "link"]
  /\ UNCHANGED <<stamp, tries, killed, dir, name>>

\* (mutant) without O_EXCL: a file that is there is emptied and shared
OpenTmpShared(e) ==
  /\ spc[e] = "open"
  /\ tmp' = [x \in Events |-> IF x = e THEN NextName(e)
                             ELSE IF tmp[x] = NextName(e) THEN NoName ELSE tmp[x]]
  /\ tmp_fname' = [tmp_fname EXCEPT ![e] = NextName(e)]
  /\ data' = [data EXCEPT ![e] = "empty"]
  /\ spc' = [spc EXCEPT ![e] = "write"]
  /\ UNCHANGED <<stamp, tries, killed, dir, name>>

\* _open_creat_excl("tmp", ..)
OpenTmp(e) ==
  /\ spc[e] = "open"
  /\ IF NextName(e) \in TmpFiles
     THEN TryNext(e)
     ELSE /\ tmp' = [tmp EXCEPT ![e] = NextName(e)]
          /\ tmp_fname' = [tmp_fname EXCEPT ![e] = NextName(e)]
          /\ data' = [data EXCEPT ![e] = "empty"]
          /\ spc' = [spc EXCEPT ![e] = "write"]
          /\ UNCHANGED <<stamp, tries, killed, dir, name>>

\* os.write(), whose result is ignored, and os.close(); _link_with_retry()
\* then reads the time anew
WriteTmp(e) ==
  /\ spc[e] = "write"
  /\ \E written \in IF ShortWrites THEN {"full", "short"} ELSE {"full"} :
       data' = [data EXCEPT ![e] = written]
  /\ stamp' = [stamp EXCEPT ![e] = clock]
  /\ tries' = [tries EXCEPT ![e] = 0]
  /\ spc' = [spc EXCEPT ![e] = "link"]
  /\ UNCHANGED <<tmp, tmp_fname, killed, dir, name>>

\* _link(): only names in pdq collide.  The file linked is the one that has the
\* path by now; if there is none, ENOENT is raised.
LinkPdq(e) ==
  /\ spc[e] = "link"
  /\ \/ /\ tmp_fname[e] \notin TmpFiles
        /\ spc' = [spc EXCEPT ![e] = "failed"]
        /\ UNCHANGED <<stamp, tries, tmp, tmp_fname, killed, queueVars>>
     \/ /\ tmp_fname[e] \in TmpFiles
        /\ NextName(e) \in QueuedFiles("pdq")
        /\ TryNext(e)
     \/ /\ tmp_fname[e] \in TmpFiles
        /\ NextName(e) \notin QueuedFiles("pdq")
        /\ dir' = [dir EXCEPT ![e] = "pdq"]
        /\ name' = [name EXCEPT ![e] = NextName(e)]
        /\ data' = [data EXCEPT ![e] = IF tmp[e] = tmp_fname[e] THEN @ ELSE "other"]
        /\ spc' = [spc EXCEPT ![e] = "unlink"]
        /\ UNCHANGED <<stamp, tries, tmp, tmp_fname, killed>>

\* os.unlink(tmp_fname_abs), whoever made the file that has the path by now
UnlinkTmp(e) ==
  /\ spc[e] = "unlink"
  /\ tmp' = [x \in Events |-> IF tmp[x] = tmp_fname[e] THEN NoName ELSE tmp[x]]
  /\ tmp_fname' = [tmp_fname EXCEPT ![e] = NoName]
  /\ spc' = [spc EXCEPT ![e] = IF tmp_fname[e] \in TmpFiles THEN "sent" ELSE "failed"]
  /\ UNCHANGED <<stamp, tries, killed, queueVars>>

\* The process is killed, or one of its system calls raises.
KillSender(e) ==
  /\ killed < Kills
  /\ Running(e)
  /\ spc' = [spc EXCEPT ![e] = "failed"]
  /\ killed' = killed + 1
  /\ UNCHANGED <<stamp, tries, tmp, tmp_fname, queueVars>>

EnqueueStep(e) ==
  OpenTmp(e) \/ WriteTmp(e) \/ LinkPdq(e) \/ UnlinkTmp(e)
SenderStep(e) ==
  DropStray(e) \/ StartEnqueue(e) \/ EnqueueStep(e) \/ KillSender(e)

SenderTypeOK ==
  /\ spc \in [Events -> SenderStates]
  /\ stamp \in [Events -> 0 .. MaxTime]
  /\ tries \in [Events -> 0 .. MaxTries]
  /\ tmp \in [Events -> Names]
  /\ tmp_fname \in [Events -> Names]
  /\ killed \in 0 .. Kills

Published(e) == dir[e] # "none"

\* What enqueue() links into pdq is the whole event: no reader of pdq, suc or
\* err ever finds a file that is still being written, one whose content was
\* cut short, or another event's under this one's name (test_pdqueue.py:201
\* reads back what was enqueued).
PublishedWhole == \A e \in Events : Published(e) => data[e] = "full"

\* "Concurrent enqueues use exclusive file create and retries to avoid using
\* the same file name" (pdqueue.py:41-42), for the files of the queue.
OneFilePerName ==
  \A e, x \in Events :
    /\ dir[e] = "pdq"
    /\ dir[x] \in {"pdq", "suc", "err"}
    /\ name[e] = name[x]
    => e = x

\* Taken names do not make an enqueue() fail while fewer of them can be taken
\* than are tried: without a cleanup(), only killed processes fail.
OnlyKillsFail == Cardinality({e \in Events : spc[e] = "failed"}) <= killed
=============================================================================
