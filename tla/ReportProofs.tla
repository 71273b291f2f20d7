----------------------------- MODULE ReportProofs -----------------------------
(***************************************************************************)
(* What "pd-queue status" reports for any number of events, keys, agents,  *)
(* enqueuers and retry commands, which go on while it lists the queue      *)
(* without the lock: it overlooks nobody who only moves on                 *)
(* (ReportOverlooksNobody), and gives every event one outcome              *)
(* (ReportHasOneOutcome).                                                  *)
(***************************************************************************)
EXTENDS QueueStatus, PDQueueProofs

-----------------------------------------------------------------------------
(* The queue under the eyes of "pd-queue status" *)

\* What the status process keeps, and that it counts only when it lists.
ReportTypes ==
  /\ StatusTypeOK
  /\ upc = "off" => \A place \in Listed : counted[place] = {}

\* The status process writes the counters and nothing else of the queue.
LEMMA QueueAtRest ==
  ASSUME NamesInv, cntdb' \in CountRecords, UNCHANGED restOfQueue
  PROVE  NamesInv'
<1>1. UNCHANGED <<clock, dir, name, data, spc, stamp, tries, tmp, tmp_fname, killed, apc, stopping, bo, cnt, pass,
                  cleaned, sweep, bodb, budget, path, fd, lpc, polls, orphaned, rpc, rcnt, rleft,
                  accepted, errors, setbacks, notBefore>>
  BY DEF restOfQueue, queueVars, senderVars, taskVars, lockVars, retryVars, historyVars
<1>2. TypeInv'
  <2>1. DirTypes'
    BY <1>1 DEF NamesInv, LossInv, TypeInv, DirTypes, QueueDirTypeOK, SenderTypeOK, TryingNames
  <2>2. TaskTypes'
    BY <1>1 DEF NamesInv, LossInv, TypeInv, TaskTypes, TaskTypeOK, StoreTypeOK, RetryTypeOK, HistoryTypeOK
  <2>3. Processed'
    BY <1>1 DEF NamesInv, LossInv, TypeInv, Processed, Current
  <2> QED
    BY <1>1, <2>1, <2>2, <2>3 DEF NamesInv, LossInv, TypeInv
<1>3. NamedWhenLinked' /\ InHand' /\ TooOld' /\ NothingLost'
  BY <1>1 DEF NamesInv, LossInv, NamedWhenLinked, InHand, TooOld, NothingLost, Current, Code, Published, Reused
<1>4. NameHasKey' /\ OnePerPlace'
  BY <1>1 DEF NamesInv, NameHasKey, OnePerPlace, Published
<1> QED
  BY <1>2, <1>3, <1>4 DEF NamesInv, LossInv

\* Every step of the two keeps the invariant of the queue, and types.
LEMMA ReportTypesStep ==
  ASSUME NamesInv, ReportTypes, [StatusNext]_<<vars, statusVars>>
  PROVE  NamesInv' /\ ReportTypes'
<1> USE DEF ReportTypes, StatusTypeOK, Stages, Listed
<1>1. CASE UNCHANGED <<vars, statusVars>> \/ (Next /\ UNCHANGED statusVars)
  <2>1. NamesInv'
    BY <1>1, NamesStep
  <2> QED
    BY <1>1, <2>1 DEF statusVars
<1>2. CASE StatusStart
  <2>1. ucnt' \in CountRecords /\ cntdb' \in CountRecords /\ begun' \in [Events -> Places]
    BY <1>2 DEF StatusStart, NamesInv, LossInv, TypeInv, TaskTypes, StoreTypeOK, DirTypes, QueueDirTypeOK
  <2>2. NamesInv'
    BY <1>2, <2>1, QueueAtRest DEF StatusStart
  <2>3. asked' \subseteq Keys /\ counted' \in [Listed -> SUBSET (Nat \X asked')]
    BY <1>2 DEF StatusStart
  <2> QED
    BY <1>2, <2>1, <2>2, <2>3 DEF StatusStart
<1>3. CASE StatusStore
  <2>1. NamesInv'
    BY <1>3, QueueAtRest DEF StatusStore
  <2> QED
    BY <1>3, <2>1 DEF StatusStore, NextStage
<1>4. CASE StatusList
  <2>1. AddStat(upc) \in SUBSET (Nat \X asked)
    <3>1. QueuedFiles(upc) \subseteq Names
      BY FilesAreNames DEF NamesInv, LossInv, TypeInv
    <3> QED
      BY <3>1 DEF AddStat, Names, SvcKey
  <2>2. cntdb' \in CountRecords
    BY <1>4 DEF StatusList, NamesInv, LossInv, TypeInv, TaskTypes, StoreTypeOK
  <2>3. NamesInv'
    BY <1>4, <2>2, QueueAtRest DEF StatusList
  <2>4. counted' \in [Listed -> SUBSET (Nat \X asked')]
    BY <1>4, <2>1 DEF StatusList
  <2> QED
    BY <1>4, <2>3, <2>4 DEF StatusList, NextStage
<1>5. CASE StatusReport
  <2>1. cntdb' \in CountRecords
    BY <1>5 DEF StatusReport, NamesInv, LossInv, TypeInv, TaskTypes, StoreTypeOK
  <2>2. NamesInv'
    BY <1>5, <2>1, QueueAtRest DEF StatusReport
  <2> QED
    BY <1>5, <2>2 DEF StatusReport
<1> QED
  BY <1>1, <1>2, <1>3, <1>4, <1>5 DEF StatusNext, StatusStep

-----------------------------------------------------------------------------
(* Nobody is overlooked *)

\* Events move on, from pdq to suc or err, and out of them; only a retry
\* command brings one back, from err to pdq.
LEMMA EventsMoveOn ==
  ASSUME NamesInv, [Next]_vars
  PROVE  /\ NoneMovedBack' => NoneMovedBack
         /\ \A e \in Events :
              dir[e] # "none" =>
                \/ dir'[e] = dir[e]
                \/ dir[e] = "pdq" /\ dir'[e] \in {"suc", "err", "clobbered"}
                \/ dir[e] \in {"suc", "err"} /\ dir'[e] \in {"removed", "clobbered"}
                \/ dir[e] = "err" /\ dir'[e] = "pdq" /\ ~NoneMovedBack
<1> DEFINE On(e) == \/ dir'[e] = dir[e]
                    \/ dir[e] = "pdq" /\ dir'[e] \in {"suc", "err", "clobbered"}
                    \/ dir[e] \in {"suc", "err"} /\ dir'[e] \in {"removed", "clobbered"}
                    \/ dir[e] = "err" /\ dir'[e] = "pdq" /\ ~NoneMovedBack
<1>1. ASSUME NEW e \in Events, Sender(e)
      PROVE  UNCHANGED rpc /\ \A x \in Events : dir[x] # "none" => On(x)
  <2>1. \A x \in Events : dir[x] # "none" => dir'[x] = dir[x]
    BY <1>1, SenderNames DEF NamesInv, LossInv, TypeInv, DirTypes, QueueDirTypeOK
  <2> QED
    BY <1>1, <2>1 DEF Sender, retryVars
<1>2. ASSUME NEW a \in Agents, Start(a) \/ ThreadStep(a) \/ Stop(a) \/ Crash(a)
      PROVE  UNCHANGED rpc /\ \A x \in Events : On(x)
  <2>1. UNCHANGED rpc
    BY <1>2 DEF retryVars, Start, Stop, Crash, Forget, ThreadStep, LoadCounters, Boot, Tick, PassStep, CleanupStep, Exit,
           AcquireLock, ListQueue, EndOfLoop, RejectName, SkipEvent, ReadEvent, SendEvent, MoveEvent, BackOff,
           StopAll, StoreBackoff, StoreCounters, ReleaseLock, BeginCleanup, RemoveOld, NextPlace
  <2>2. \A x \in Events : On(x)
    <3>1. CASE UNCHANGED dir
      BY <3>1
    <3>2. ASSUME NEW nm, NEW to \in {"suc", "err"}, Rename(nm, "pdq", to)
          PROVE  \A x \in Events : On(x)
      BY <3>2 DEF Rename
    <3>3. ASSUME NEW nm, NEW place \in {"suc", "err"}, Remove(nm, place)
          PROVE  \A x \in Events : On(x)
      BY <3>3 DEF Remove
    <3> QED
      BY <1>2, <3>1, <3>2, <3>3, AgentFiles DEF NamesInv
  <2> QED
    BY <2>1, <2>2
<1>3. ASSUME NEW r \in Retriers, RetryStep(r)
      PROVE  (NoneMovedBack' => NoneMovedBack) /\ \A x \in Events : On(x)
  <2>1. rpc \in [Retriers -> RetryStates]
    BY DEF NamesInv, LossInv, TypeInv, TaskTypes, RetryTypeOK
  <2>2. NoneMovedBack' => NoneMovedBack
    BY <1>3, <2>1 DEF NoneMovedBack, RetryStates, RetryStep, RetryStart, RetryStore, RetryList, RetryMove, RetryEnd
  <2>3. CASE RetryMove(r)
    <3>1. ~NoneMovedBack
      BY <2>3 DEF NoneMovedBack, RetryMove
    <3>2. UNCHANGED dir \/ \E nm : Rename(nm, "err", "pdq")
      BY <2>3 DEF RetryMove
    <3> QED
      BY <2>2, <3>1, <3>2 DEF Rename
  <2>4. CASE ~RetryMove(r)
    BY <1>3, <2>2, <2>4 DEF RetryStep, RetryStart, RetryStore, RetryList, RetryEnd, queueVars
  <2> QED
    BY <2>3, <2>4
<1>4. ASSUME Clock \/ UNCHANGED vars
      PROVE  UNCHANGED rpc /\ \A x \in Events : On(x)
  BY <1>4 DEF Clock, vars, queueVars, retryVars
<1>5. UNCHANGED rpc => (NoneMovedBack' => NoneMovedBack)
  BY DEF NoneMovedBack
<1> HIDE DEF On
<1>6. (NoneMovedBack' => NoneMovedBack) /\ \A x \in Events : dir[x] # "none" => On(x)
  BY <1>1, <1>2, <1>3, <1>4, <1>5 DEF Next
<1> QED
  BY <1>6 DEF On

\* An event that began in suc stays there as long as it is listed at all; and
\* what has not been counted yet is still ahead of the listings.
Ahead ==
  upc # "off" =>
    \A e \in Events :
      begun[e] \in Listed /\ dir[e] \in Listed =>
        /\ begun[e] = "suc" => dir[e] = "suc"
        /\ KeyOf[e] \in asked /\ (begun[e] # "suc" => NoneMovedBack) =>
             /\ upc = "suc" => dir[e] \in {"suc", "err"} \/ name[e] \in counted["pdq"]
             /\ upc = "err" => dir[e] = "err" \/ \E place \in {"pdq", "suc"} : name[e] \in counted[place]
             /\ Reported => \E place \in Listed : name[e] \in counted[place]

\* What is begun was there, so its name is for good.
BegunWas == \A e \in Events : begun[e] # "none" => Published(e)

AheadInv == NamesInv /\ ReportTypes /\ BegunWas /\ Ahead

\* Every step of the two keeps it.
LEMMA AheadStep ==
  ASSUME AheadInv, [StatusNext]_<<vars, statusVars>>
  PROVE  AheadInv'
<1> USE DEF AheadInv, Listed
<1>1. NamesInv' /\ ReportTypes'
  BY ReportTypesStep
<1>2. CASE UNCHANGED statusVars /\ [Next]_vars
  <2>1. UNCHANGED <<upc, asked, counted, begun>>
    BY <1>2 DEF statusVars
  <2>2. NamesKept
    BY <1>2, NamesStay DEF NamesInv
  <2>3. BegunWas'
    BY <2>1, <2>2 DEF BegunWas, NamesKept
  <2>4. Ahead'
    <3> SUFFICES ASSUME upc # "off",
                        NEW e \in Events, begun[e] \in Listed, dir'[e] \in Listed
                 PROVE  /\ begun[e] = "suc" => dir'[e] = "suc"
                        /\ KeyOf[e] \in asked /\ (begun[e] # "suc" => NoneMovedBack') =>
                             /\ upc = "suc" => dir'[e] \in {"suc", "err"} \/ name'[e] \in counted["pdq"]
                             /\ upc = "err" => dir'[e] = "err" \/ \E place \in {"pdq", "suc"} : name'[e] \in counted[place]
                             /\ Reported => \E place \in Listed : name'[e] \in counted[place]
      BY <2>1 DEF Ahead, Reported
    <3>1. Published(e) /\ name'[e] = name[e]
      BY <2>2 DEF BegunWas, NamesKept
    <3>2. /\ NoneMovedBack' => NoneMovedBack
          /\ \/ dir'[e] = dir[e]
             \/ dir[e] = "pdq" /\ dir'[e] \in {"suc", "err", "clobbered"}
             \/ dir[e] \in {"suc", "err"} /\ dir'[e] \in {"removed", "clobbered"}
             \/ dir[e] = "err" /\ dir'[e] = "pdq" /\ ~NoneMovedBack
      BY <1>2, <3>1, EventsMoveOn DEF Published
    <3>3. dir[e] \in Listed
      BY <3>2
    <3> QED
      BY <3>1, <3>2, <3>3 DEF Ahead
  <2> QED
    BY <1>1, <2>3, <2>4
<1>3. ASSUME StatusStep
      PROVE  AheadInv'
  <2>1. UNCHANGED <<dir, name, rpc>>
    BY <1>3 DEF StatusStep, StatusStart, StatusStore, StatusList, StatusReport, restOfQueue, queueVars, retryVars
  <2>2. BegunWas'
    BY <1>3, <2>1 DEF BegunWas, Published, StatusStep, StatusStart, StatusStore, StatusList, StatusReport
  <2>3. NoneMovedBack' <=> NoneMovedBack
    BY <2>1 DEF NoneMovedBack
  <2>4. CASE StatusStart
    BY <1>1, <2>1, <2>2, <2>4 DEF Ahead, StatusStart, Reported
  <2>5. CASE StatusStore
    BY <1>1, <2>1, <2>2, <2>3, <2>5 DEF Ahead, StatusStore, Reported, NextStage
  <2>6. CASE StatusReport
    BY <1>1, <2>1, <2>2, <2>3, <2>6 DEF Ahead, StatusReport, Reported
  <2>7. CASE StatusList
    <3> SUFFICES ASSUME NEW e \in Events, begun[e] \in Listed, dir[e] \in Listed,
                        KeyOf[e] \in asked, begun[e] # "suc" => NoneMovedBack
                 PROVE  /\ upc' = "suc" => dir[e] \in {"suc", "err"} \/ name[e] \in counted'["pdq"]
                        /\ upc' = "err" => dir[e] = "err" \/ \E place \in {"pdq", "suc"} : name[e] \in counted'[place]
                        /\ Reported' => \E place \in Listed : name[e] \in counted'[place]
      BY <1>1, <2>1, <2>2, <2>3, <2>7 DEF Ahead, StatusList, Reported
    <3>1. SvcKey(name[e]) \in asked
      BY DEF NamesInv, NameHasKey, BegunWas
    <3>2. dir[e] = upc => name[e] \in AddStat(upc)
      BY <3>1 DEF AddStat, QueuedFiles
    <3>3. /\ upc' = NextStage[upc] /\ counted' = [counted EXCEPT ![upc] = AddStat(upc)]
          /\ counted \in [Listed -> SUBSET (Nat \X asked)]
      BY <2>7 DEF StatusList, ReportTypes, StatusTypeOK
    <3> QED
      BY <2>7, <3>2, <3>3 DEF Ahead, StatusList, Reported, NextStage
  <2> QED
    BY <1>1, <1>3, <2>1, <2>2, <2>3, <2>4, <2>5, <2>6, <2>7 DEF StatusStep
<1> QED
  BY <1>2, <1>3 DEF StatusNext, vars, statusVars

\* "pd-queue status" overlooks nobody who only moves on, for any number of
\* events, keys, agents, enqueuers and retry commands that go on meanwhile.
THEOREM ReportOverlooksNobody == StatusSpec => []NobodyOverlooked
<1>1. StatusInit => AheadInv
  BY NamesInit, RecordTypes
  DEF StatusInit, AheadInv, ReportTypes, StatusTypeOK, Stages, Listed, Places, BegunWas, Ahead
<1>2. AheadInv /\ [StatusNext]_<<vars, statusVars>> => AheadInv'
  BY AheadStep
<1>3. AheadInv => NobodyOverlooked
  BY DEF AheadInv, Ahead, NobodyOverlooked, Reported, Listed
<1> QED
  BY <1>1, <1>2, <1>3, PTL DEF StatusSpec

\* The status process keeps the kind of what it counts.
THEOREM ReportTypesCorrect == StatusSpec => []StatusTypeOK
<1>1. StatusInit => NamesInv /\ ReportTypes
  BY NamesInit, RecordTypes DEF StatusInit, ReportTypes, StatusTypeOK, Stages, Listed, Places
<1>2. NamesInv /\ ReportTypes /\ [StatusNext]_<<vars, statusVars>> => NamesInv' /\ ReportTypes'
  BY ReportTypesStep
<1>3. ReportTypes => StatusTypeOK
  BY DEF ReportTypes
<1> QED
  BY <1>1, <1>2, <1>3, PTL DEF StatusSpec

-----------------------------------------------------------------------------
(* One outcome *)

\* What was counted in suc was sent, and is in suc or deleted; a file that
\* was counted in err under the same name is that of another event.
SentWas ==
  upc = "err" \/ Reported =>
    \A nm \in counted["suc"] : \E e \in Events : name[e] = nm /\ dir[e] \in {"suc", "removed", "clobbered"}
NamedTwice ==
  Reported =>
    \A nm \in counted["suc"] \cap counted["err"] :
      \E e \in Events : Published(e) /\ name[e] = nm /\ Reused(e)

OutcomeInv == NamesInv /\ ReportTypes /\ SentWas /\ NamedTwice

\* Every step of the two keeps it.
LEMMA OutcomeStep ==
  ASSUME OutcomeInv, [StatusNext]_<<vars, statusVars>>
  PROVE  OutcomeInv'
<1> USE DEF OutcomeInv
<1>1. NamesInv' /\ ReportTypes'
  BY ReportTypesStep
<1>2. CASE UNCHANGED statusVars /\ [Next]_vars
  <2>1. UNCHANGED <<upc, counted>>
    BY <1>2 DEF statusVars
  <2>2. NamesKept
    BY <1>2, NamesStay DEF NamesInv
  <2>3. SentWas'
    <3> SUFFICES ASSUME upc = "err" \/ Reported, NEW nm \in counted["suc"]
                 PROVE  \E e \in Events : name'[e] = nm /\ dir'[e] \in {"suc", "removed", "clobbered"}
      BY <2>1 DEF SentWas, Reported
    <3>1. PICK e \in Events : name[e] = nm /\ dir[e] \in {"suc", "removed", "clobbered"}
      BY DEF SentWas
    <3>2. name'[e] = name[e]
      BY <2>2, <3>1 DEF NamesKept, Published
    <3>3. dir'[e] \in {"suc", "removed", "clobbered"}
      BY <1>2, <3>1, EventsMoveOn
    <3> QED
      BY <3>1, <3>2, <3>3
  <2>4. NamedTwice'
    <3> SUFFICES ASSUME Reported, NEW nm \in counted["suc"] \cap counted["err"]
                 PROVE  \E e \in Events : Published(e)' /\ name'[e] = nm /\ Reused(e)'
      BY <2>1 DEF NamedTwice, Reported
    <3>1. PICK e \in Events : Published(e) /\ name[e] = nm /\ Reused(e)
      BY DEF NamedTwice
    <3>2. Reused(e)'
      BY <2>2, <3>1, ReusedForGood DEF NamesInv, LossInv
    <3> QED
      BY <2>2, <3>1, <3>2 DEF NamesKept
  <2> QED
    BY <1>1, <2>3, <2>4
<1>3. ASSUME StatusStep
      PROVE  OutcomeInv'
  <2>1. UNCHANGED <<dir, name>>
    BY <1>3 DEF StatusStep, StatusStart, StatusStore, StatusList, StatusReport, restOfQueue, queueVars
  <2>2. CASE StatusStart \/ StatusStore
    BY <1>1, <2>2 DEF SentWas, NamedTwice, Reported, StatusStart, StatusStore, NextStage
  <2>3. CASE StatusReport
    BY <1>1, <2>1, <2>3 DEF SentWas, NamedTwice, Reported, StatusReport, Reused, Published
  <2>4. CASE StatusList
    <3>1. /\ upc \in Listed /\ upc' = NextStage[upc] /\ counted' = [counted EXCEPT ![upc] = AddStat(upc)]
          /\ counted \in [Listed -> SUBSET (Nat \X asked)]
      BY <2>4 DEF StatusList, ReportTypes, StatusTypeOK
    <3>2. CASE upc = "pdq"
      BY <1>1, <3>1, <3>2 DEF SentWas, NamedTwice, Reported, NextStage
    <3>3. CASE upc = "suc"
      BY <1>1, <2>1, <3>1, <3>3 DEF SentWas, NamedTwice, Reported, NextStage, AddStat, QueuedFiles, Listed
    <3>4. CASE upc = "err"
      <4>1. counted'["suc"] = counted["suc"] /\ counted'["err"] \subseteq QueuedFiles("err")
        BY <3>1, <3>4 DEF Listed, AddStat
      <4>2. SentWas'
        BY <2>1, <3>4, <4>1 DEF SentWas
      <4>3. ASSUME NEW nm \in counted'["suc"], nm \in counted'["err"]
            PROVE  \E e \in Events : Published(e) /\ name[e] = nm /\ Reused(e)
        <5>1. PICK e \in Events : name[e] = nm /\ dir[e] \in {"suc", "removed", "clobbered"}
          BY <3>4, <4>1 DEF SentWas
        <5>2. PICK x \in Events : name[x] = nm /\ dir[x] = "err"
          BY <4>1, <4>3 DEF QueuedFiles
        <5> QED
          BY <5>1, <5>2 DEF Published, Reused
      <4>4. NamedTwice'
        BY <2>1, <4>3 DEF NamedTwice, Published, Reused
      <4> QED
        BY <1>1, <4>2, <4>4
    <3> QED
      BY <3>1, <3>2, <3>3, <3>4 DEF Listed
  <2> QED
    BY <1>3, <2>2, <2>3, <2>4 DEF StatusStep
<1> QED
  BY <1>2, <1>3 DEF StatusNext, vars, statusVars

\* "pd-queue status" reports no event both as succeeded and as failed, for
\* any number of events, keys, agents, enqueuers and retry commands.
THEOREM ReportHasOneOutcome == StatusSpec => []OneOutcome
<1>1. StatusInit => OutcomeInv
  BY NamesInit, RecordTypes
  DEF StatusInit, OutcomeInv, ReportTypes, StatusTypeOK, Stages, Listed, Places, SentWas, NamedTwice, Reported
<1>2. OutcomeInv /\ [StatusNext]_<<vars, statusVars>> => OutcomeInv'
  BY OutcomeStep
<1>3. OutcomeInv => OneOutcome
  BY DEF OutcomeInv, NamedTwice, OneOutcome
<1> QED
  BY <1>1, <1>2, <1>3, PTL DEF StatusSpec
=============================================================================
