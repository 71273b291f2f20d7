---------------------------- MODULE PDQueueProofs ----------------------------
(***************************************************************************)
(* What the queue guarantees for any number of events, keys, agents and    *)
(* retry commands: no event is lost (NoEventLost), no two files of a       *)
(* subdirectory have the same name (NamesAreApart), what is in the queue   *)
(* is whole (EventsAreWhole), leftovers of killed enqueues fail nobody     *)
(* (TakenNamesFailNobody), and all of it keeps the promise of the abstract *)
(* specification Delivery (QueueKeepsPromise).                             *)
(*                                                                         *)
(* None of these needs the dequeue lock to exclude anybody.                *)
(***************************************************************************)
EXTENDS PDQueueTypes, FiniteSetTheorems

\* An event has a name exactly when it was linked, and it is linked once.
NamedWhenLinked ==
  \A e \in Events :
    /\ spc[e] \in {"idle", "open", "write", "link"} => dir[e] = "none"
    /\ dir[e] = "none" <=> name[e] = NoName

\* The event in an agent's hands is one that was queued under the name the
\* agent has; if the agent takes it for sent, the Events API acknowledged it.
InHand ==
  \A a \in Agents : apc[a] \in {"send", "answered"} =>
    /\ Published(pass[a].event)
    /\ name[pass[a].event] = Current(a)
    /\ apc[a] = "answered" /\ Code(a) = "CONSUMED" => pass[a].event \in accepted

\* cleanup() is about to delete only what is too old, and nothing in pdq.
TooOld ==
  \A a \in Agents : apc[a] = "sweep" =>
    /\ sweep[a].place \in {"err", "tmp", "suc"}
    /\ sweep[a].before + CleanupAge <= clock
    /\ \A nm \in sweep[a].doomed : StampOf(nm) < sweep[a].before

LossInv == TypeInv /\ NamedWhenLinked /\ InHand /\ TooOld /\ NothingLost

-----------------------------------------------------------------------------
(* What a step may do to the queue directory *)

\* Published events keep their names and stay published.
NamesKept ==
  \A e \in Events : Published(e) => Published(e)' /\ name'[e] = name[e]

\* An enqueue() gives a name to an event that has none, and to no other.
LEMMA LinkedOnce ==
  ASSUME TypeInv, NamedWhenLinked, NEW e \in Events, SenderStep(e), UNCHANGED clock
  PROVE  NamedWhenLinked' /\ NamesKept
<1> USE DEF TypeInv, DirTypes, QueueDirTypeOK, SenderTypeOK, NamedWhenLinked, NamesKept, Published
<1>1. CASE DropStray(e)
  <2>1. clock > 0
    BY ConstantTypes
  <2>2. FileName(clock, NoKey) # NoName
    BY <2>1 DEF FileName, NoName
  <2> QED
    BY <1>1, <2>2 DEF DropStray
<1>2. CASE StartEnqueue(e) \/ OpenTmp(e) \/ WriteTmp(e) \/ UnlinkTmp(e) \/ KillSender(e)
  <2>1. UNCHANGED <<dir, name>>
    BY <1>2 DEF StartEnqueue, OpenTmp, TryNext, WriteTmp, UnlinkTmp, KillSender, queueVars
  <2>2. \A x \in Events : spc'[x] \in {"idle", "open", "write", "link"} =>
                           spc[x] \in {"idle", "open", "write", "link"}
    BY <1>2 DEF StartEnqueue, OpenTmp, TryNext, WriteTmp, UnlinkTmp, KillSender
  <2> QED
    BY <2>1, <2>2
<1>3. CASE LinkPdq(e)
  <2>1. CASE UNCHANGED <<dir, name>>
    <3>1. \A x \in Events : spc'[x] \in {"idle", "open", "write", "link"} =>
                             spc[x] \in {"idle", "open", "write", "link"}
      BY <1>3, <2>1 DEF LinkPdq, TryNext
    <3> QED
      BY <2>1, <3>1
  <2>2. CASE /\ dir' = [dir EXCEPT ![e] = "pdq"]
             /\ name' = [name EXCEPT ![e] = NextName(e)]
             /\ spc' = [spc EXCEPT ![e] = "unlink"]
    <3>1. stamp[e] + tries[e] > 0
      BY <1>3, ConstantTypes DEF LinkPdq, TryingNames
    <3>2. NextName(e) # NoName
      BY <3>1 DEF NextName, FileName, NoName
    <3>3. dir[e] = "none"
      BY <1>3 DEF LinkPdq
    <3> QED
      BY <2>2, <3>2, <3>3
  <2> QED
    BY <1>3, <2>1, <2>2 DEF LinkPdq, TryNext, queueVars
<1> QED
  BY <1>1, <1>2, <1>3 DEF SenderStep, EnqueueStep

\* A file name that was used twice stays so.
LEMMA ReusedForGood ==
  ASSUME NamedWhenLinked, NamesKept, NEW e \in Events, Published(e), Reused(e)
  PROVE  Reused(e)'
<1>1. PICK x \in Events \ {e} : name[x] = name[e]
  BY DEF Reused
<1>2. Published(x)
  BY <1>1 DEF NamedWhenLinked, Published
<1> QED
  BY <1>1, <1>2 DEF NamesKept, Reused

\* A rename within the queue loses nothing if the file is there, and if it
\* leads to pdq or err, or the events of that name need not be kept.
LEMMA RenameLosesNothing ==
  ASSUME TypeInv, NamedWhenLinked, NothingLost,
         NEW nm, NEW from \in {"pdq", "err"}, NEW to \in {"pdq", "suc", "err"},
         from # to, nm \in QueuedFiles(from), Rename(nm, from, to),
         to = "suc" => \A e \in Events :
                        dir[e] = from /\ name[e] = nm => e \in accepted \/ Reused(e),
         UNCHANGED <<clock, name, accepted>>
  PROVE  NothingLost'
<1> USE DEF TypeInv, DirTypes, QueueDirTypeOK
<1>1. \A e \in Events :
        dir'[e] = CASE name[e] = nm /\ dir[e] = from -> to
                    [] name[e] = nm /\ dir[e] = to   -> "clobbered"
                    [] OTHER                         -> dir[e]
  BY DEF Rename
<1> SUFFICES ASSUME NEW e \in Events, Published(e)', e \notin accepted
             PROVE  \/ dir'[e] \in {"pdq", "err"}
                    \/ dir'[e] = "removed" /\ StampOf(name[e]) + CleanupAge < clock
                    \/ Reused(e)
  BY DEF NothingLost, Reused
<1>2. CASE name[e] = nm /\ dir[e] = from
  BY <1>1, <1>2
<1>3. CASE name[e] = nm /\ dir[e] = to
  <2>1. PICK x \in Events : dir[x] = from /\ name[x] = nm
    BY DEF QueuedFiles
  <2> QED
    BY <1>3, <2>1 DEF Reused
<1>4. CASE ~(name[e] = nm /\ dir[e] \in {from, to})
  <2>1. dir'[e] = dir[e]
    BY <1>1, <1>4
  <2> QED
    BY <2>1 DEF NothingLost, Published
<1> QED
  BY <1>2, <1>3, <1>4

\* A rename within the queue does not touch names.
LEMMA RenameKeepsNames ==
  ASSUME TypeInv, NamedWhenLinked, NEW nm, NEW from \in Places \ {"none"},
         NEW to \in Places \ {"none"}, Rename(nm, from, to), UNCHANGED <<name, spc>>
  PROVE  NamedWhenLinked' /\ NamesKept
<1>1. \A e \in Events : dir'[e] = "none" <=> dir[e] = "none"
  BY DEF Rename
<1> QED
  BY <1>1 DEF NamedWhenLinked, NamesKept, Published

\* Nor does a removal.
LEMMA RemoveKeepsNames ==
  ASSUME TypeInv, NamedWhenLinked, NEW nm, NEW place \in Places \ {"none"},
         Remove(nm, place), UNCHANGED <<name, spc>>
  PROVE  NamedWhenLinked' /\ NamesKept
<1>1. \A e \in Events : dir'[e] = "none" <=> dir[e] = "none"
  BY DEF Remove
<1> QED
  BY <1>1 DEF NamedWhenLinked, NamesKept, Published

\* Agents never change the name of an event.
LEMMA AgentKeepsNames ==
  ASSUME TypeInv, NamedWhenLinked, TooOld, NEW a \in Agents,
         Start(a) \/ ThreadStep(a) \/ Stop(a) \/ Crash(a)
  PROVE  NamedWhenLinked' /\ NamesKept
<1>1. CASE RejectName(a) \/ MoveEvent(a)
  <2>1. UNCHANGED dir \/ \E nm : \E to \in {"suc", "err"} : Rename(nm, "pdq", to)
    BY <1>1 DEF RejectName, MoveEvent
  <2>2. UNCHANGED <<name, spc>>
    BY <1>1 DEF RejectName, MoveEvent, senderVars
  <2>3. CASE UNCHANGED dir
    BY <2>2, <2>3 DEF NamedWhenLinked, NamesKept, Published
  <2> QED
    BY <2>1, <2>2, <2>3, RenameKeepsNames DEF Places
<1>2. CASE RemoveOld(a)
  <2>1. UNCHANGED dir \/ Remove(First(sweep[a].doomed), sweep[a].place)
    BY <1>2 DEF RemoveOld
  <2>2. UNCHANGED <<name, spc>>
    BY <1>2 DEF RemoveOld
  <2>3. CASE UNCHANGED dir
    BY <2>2, <2>3 DEF NamedWhenLinked, NamesKept, Published
  <2>4. CASE dir' # dir
    <3>1. sweep[a].place \in Places \ {"none"} /\ Remove(First(sweep[a].doomed), sweep[a].place)
      BY <1>2, <2>4 DEF RemoveOld, TooOld, Places
    <3> QED
      BY <2>2, <3>1, RemoveKeepsNames
  <2> QED
    BY <2>3, <2>4
<1>3. CASE UNCHANGED <<queueVars, senderVars>>
  BY <1>3 DEF NamedWhenLinked, NamesKept, Published, queueVars, senderVars
<1> QED
  BY <1>1, <1>2, <1>3
  DEF Start, Stop, Crash, Forget, ThreadStep, LoadCounters, Boot, Tick, PassStep, CleanupStep, Exit, AcquireLock,
         ListQueue, EndOfLoop, SkipEvent, ReadEvent, SendEvent, BackOff, StopAll,
         StoreBackoff, StoreCounters, ReleaseLock, BeginCleanup, NextPlace

\* Nor do retry commands.
LEMMA RetryKeepsNames ==
  ASSUME TypeInv, NamedWhenLinked, NEW r \in Retriers, RetryStep(r)
  PROVE  NamedWhenLinked' /\ NamesKept
<1>1. UNCHANGED dir \/ \E nm : Rename(nm, "err", "pdq")
  BY DEF RetryStep, RetryStart, RetryStore, RetryList, RetryMove, RetryEnd, queueVars
<1>2. UNCHANGED <<name, spc>>
  BY DEF RetryStep, RetryStart, RetryStore, RetryList, RetryMove, RetryEnd, queueVars, senderVars
<1>3. CASE UNCHANGED dir
  BY <1>2, <1>3 DEF NamedWhenLinked, NamesKept, Published
<1> QED
  BY <1>1, <1>2, <1>3, RenameKeepsNames DEF Places

\* Every step keeps the names of events.
LEMMA NamesStay ==
  ASSUME LossInv, [Next]_vars
  PROVE  NamesKept
<1> USE DEF LossInv
<1>1. ASSUME NEW e \in Events, Sender(e) PROVE NamesKept
  BY <1>1, LinkedOnce DEF Sender
<1>2. CASE Clock \/ UNCHANGED vars
  BY <1>2 DEF Clock, vars, queueVars, NamesKept, Published
<1> QED
  BY <1>1, <1>2, AgentKeepsNames, RetryKeepsNames DEF Next

-----------------------------------------------------------------------------
(* The event in an agent's hands *)

\* It stays what it is while others work.
LEMMA InHandForGood ==
  ASSUME TypeInv, InHand, NamesKept, accepted \subseteq accepted',
         NEW a \in Agents, apc'[a] = apc[a], pass'[a] = pass[a],
         apc[a] \in {"send", "answered"}
  PROVE  /\ dir'[pass'[a].event] # "none"
         /\ name'[pass'[a].event] = First(pass'[a].left)
         /\ apc'[a] = "answered" /\ pass'[a].code = "CONSUMED" => pass'[a].event \in accepted'
  BY DEF InHand, NamesKept, TypeInv, Processed, Current, Code, Published

\* Agents know what they have in hands, after their own steps and others'.
LEMMA InHandStep ==
  ASSUME TypeInv, InHand, NamesKept, NEW a \in Agents,
         Start(a) \/ ThreadStep(a) \/ Stop(a) \/ Crash(a)
  PROVE  InHand'
<1> USE DEF TypeInv, TaskTypes, TaskTypeOK
<1>1. ASSUME NEW b \in Agents \ {a}
      PROVE  apc'[b] = apc[b] /\ pass'[b] = pass[b]
  BY DEF RejectName, MoveEvent, RemoveOld, Goto, InPass, Raise,
         Start, Stop, Crash, Forget, ThreadStep, LoadCounters, Boot, Tick, PassStep, CleanupStep, Exit, AcquireLock,
         ListQueue, EndOfLoop, SkipEvent, ReadEvent, SendEvent, BackOff, StopAll,
         StoreBackoff, StoreCounters, ReleaseLock, BeginCleanup, NextPlace
<1>2. accepted \subseteq accepted'
  BY DEF RejectName, MoveEvent, RemoveOld, historyVars,
         Start, Stop, Crash, Forget, ThreadStep, LoadCounters, Boot, Tick, PassStep, CleanupStep, Exit, AcquireLock,
         ListQueue, EndOfLoop, SkipEvent, ReadEvent, SendEvent, BackOff, StopAll,
         StoreBackoff, StoreCounters, ReleaseLock, BeginCleanup, NextPlace
<1>3. apc'[a] \in {"send", "answered"} =>
        /\ dir'[pass'[a].event] # "none"
        /\ name'[pass'[a].event] = First(pass'[a].left)
        /\ apc'[a] = "answered" /\ pass'[a].code = "CONSUMED" => pass'[a].event \in accepted'
  <2>1. CASE ReadEvent(a)
    <3>1. CASE Current(a) \in QueuedFiles("pdq")
      <4> DEFINE e == FileOf("pdq", Current(a))
      <4>1. e \in Events /\ name[e] = Current(a) /\ dir[e] = "pdq"
        BY <3>1, FileOfType
      <4>2. /\ \/ pass'[a] = [pass[a] EXCEPT !.event = e] /\ apc'[a] = "send"
               \/ pass'[a] = [pass[a] EXCEPT !.event = e, !.code = "BAD_ENTRY"]
            /\ UNCHANGED <<name, dir>>
        BY <2>1, <3>1 DEF ReadEvent, InPass, Goto, queueVars
      <4> HIDE DEF e
      <4>3. pass[a] \in PassRecords
        OBVIOUS
      <4>4. /\ pass'[a].event = e
            /\ pass'[a].left = pass[a].left
            /\ apc'[a] = "send" \/ pass'[a].code = "BAD_ENTRY"
        BY <4>2, <4>3 DEF PassRecords
      <4> QED
        BY <4>1, <4>2, <4>4 DEF Published, Current
    <3>2. CASE Current(a) \notin QueuedFiles("pdq")
      BY <2>1, <3>2 DEF ReadEvent, Raise, Goto
    <3> QED
      BY <3>1, <3>2
  <2>2. CASE SendEvent(a)
    <3>1. PICK answer \in PossibleAnswers(SvcKey(Current(a))) :
            /\ \/ Raise(a)
               \/ InPass(a, [pass[a] EXCEPT !.code = ConsumeCode(answer)])
            /\ answer = "ok" => pass[a].event \in accepted'
      BY <2>2 DEF SendEvent
    <3>2. CASE Raise(a)
      BY <3>2 DEF Raise, Goto
    <3>3. CASE InPass(a, [pass[a] EXCEPT !.code = ConsumeCode(answer)])
      <4>1. /\ pass'[a].left = pass[a].left /\ pass'[a].event = pass[a].event
            /\ pass'[a].code = ConsumeCode(answer)
        BY <3>3 DEF InPass, PassRecords
      <4>2. ConsumeCode(answer) = "CONSUMED" => answer = "ok"
        BY <3>1, PDQueueAssumption DEF ConsumeCode, PossibleAnswers, AllAnswers, MayBeBad, ComeAgain
      <4>3. Published(pass[a].event) /\ name[pass[a].event] = Current(a) /\ pass[a].event \in Events
        BY <2>2 DEF SendEvent, InHand, Processed
      <4> QED
        BY <3>1, <4>1, <4>2, <4>3 DEF NamesKept, Current, Published
    <3> QED
      BY <3>1, <3>2, <3>3
  <2>3. CASE apc'[a] = apc[a] /\ pass'[a] = pass[a]
    BY <1>2, <2>3, InHandForGood
  <2>4. CASE apc'[a] \notin {"send", "answered"}
    BY <2>4
  <2> QED
    BY <2>1, <2>2, <2>3, <2>4
    DEF RejectName, MoveEvent, RemoveOld, Goto, InPass, Raise, InLoop,
         Start, Stop, Crash, Forget, ThreadStep, LoadCounters, Boot, Tick, PassStep, CleanupStep, Exit, AcquireLock,
         ListQueue, EndOfLoop, SkipEvent, ReadEvent, SendEvent, BackOff, StopAll,
         StoreBackoff, StoreCounters, ReleaseLock, BeginCleanup, NextPlace
<1> QED
  BY <1>1, <1>2, <1>3, InHandForGood DEF InHand, Current, Code, Published

-----------------------------------------------------------------------------
(* What cleanup() is about to delete *)

\* cleanup() keeps to the limit it computed when it began.
LEMMA TooOldStep ==
  ASSUME TypeInv, TooOld, NEW a \in Agents,
         Start(a) \/ ThreadStep(a) \/ Stop(a) \/ Crash(a)
  PROVE  TooOld'
<1> USE DEF TypeInv, TaskTypes, TaskTypeOK, TooOld
<1>0. CleanupAge \in Nat /\ clock \in Nat /\ UNCHANGED clock
  <2>1. CleanupAge \in Nat /\ clock \in Nat
    BY ConstantTypes, PDQueueAssumption DEF DirTypes, QueueDirTypeOK
  <2> QED
    BY <2>1 DEF RejectName, MoveEvent, RemoveOld,
         Start, Stop, Crash, Forget, ThreadStep, LoadCounters, Boot, Tick, PassStep, CleanupStep, Exit, AcquireLock,
         ListQueue, EndOfLoop, SkipEvent, ReadEvent, SendEvent, BackOff, StopAll,
         StoreBackoff, StoreCounters, ReleaseLock, BeginCleanup, NextPlace
<1>1. ASSUME NEW b \in Agents \ {a}
      PROVE  apc'[b] = apc[b] /\ sweep'[b] = sweep[b]
  BY DEF RejectName, MoveEvent, RemoveOld, Goto, Raise, Sweep,
         Start, Stop, Crash, Forget, ThreadStep, LoadCounters, Boot, Tick, PassStep, CleanupStep, Exit, AcquireLock,
         ListQueue, EndOfLoop, SkipEvent, ReadEvent, SendEvent, BackOff, StopAll,
         StoreBackoff, StoreCounters, ReleaseLock, BeginCleanup, NextPlace
<1>2. ASSUME NEW place \in {"err", "tmp", "suc"}, NEW before \in Nat, Sweep(a, place, before)
      PROVE  /\ sweep'[a].place = place /\ sweep'[a].before = before
             /\ \A nm \in sweep'[a].doomed : StampOf(nm) < before
  BY <1>2 DEF Sweep, OldFiles
<1>3. apc'[a] = "sweep" =>
        /\ sweep'[a].place \in {"err", "tmp", "suc"}
        /\ sweep'[a].before + CleanupAge <= clock
        /\ \A nm \in sweep'[a].doomed : StampOf(nm) < sweep'[a].before
  <2>1. CASE BeginCleanup(a)
    <3>1. CASE clock - cleaned[a] >= CleanupInterval
      <4>1. clock - CleanupAge \in Nat
        BY ConstantTypes, PDQueueAssumption DEF DirTypes, QueueDirTypeOK
      <4>2. Sweep(a, "err", clock - CleanupAge)
        BY <2>1, <3>1 DEF BeginCleanup
      <4> QED
        BY <1>0, <1>2, <4>1, <4>2
    <3>2. CASE ~(clock - cleaned[a] >= CleanupInterval)
      BY <2>1, <3>2 DEF BeginCleanup, Goto
    <3> QED
      BY <3>1, <3>2
  <2>2. CASE RemoveOld(a)
    <3>1. sweep[a] \in SweepRecords /\ apc[a] = "sweep"
      BY <2>2 DEF RemoveOld
    <3>2. sweep'[a] = [sweep[a] EXCEPT !.doomed = @ \ {First(sweep[a].doomed)}]
      BY <2>2 DEF RemoveOld
    <3>3. /\ sweep'[a].place = sweep[a].place /\ sweep'[a].before = sweep[a].before
          /\ sweep'[a].doomed \subseteq sweep[a].doomed
      BY <3>1, <3>2 DEF SweepRecords
    <3> QED
      BY <3>1, <3>3
  <2>3. CASE NextPlace(a)
    <3>1. CASE sweep[a].place = "suc"
      BY <2>3, <3>1 DEF NextPlace, Goto
    <3>2. CASE sweep[a].place # "suc"
      <4>1. sweep[a].before \in Nat /\ apc[a] = "sweep"
        BY <2>3 DEF NextPlace, SweepRecords
      <4>2. \E place \in {"err", "tmp", "suc"} : Sweep(a, place, sweep[a].before)
        BY <2>3, <3>2 DEF NextPlace
      <4> QED
        BY <1>2, <4>1, <4>2
    <3> QED
      BY <3>1, <3>2
  <2>4. CASE apc'[a] = apc[a] /\ sweep'[a] = sweep[a]
    BY <2>4
  <2>5. CASE apc'[a] # "sweep"
    BY <2>5
  <2> QED
    BY <2>1, <2>2, <2>3, <2>4, <2>5
    DEF RejectName, MoveEvent, Goto, Raise, InLoop,
         Start, Stop, Crash, Forget, ThreadStep, LoadCounters, Boot, Tick, PassStep, CleanupStep, Exit, AcquireLock,
         ListQueue, EndOfLoop, SkipEvent, ReadEvent, SendEvent, BackOff, StopAll,
         StoreBackoff, StoreCounters, ReleaseLock, BeginCleanup, NextPlace
<1> QED
  BY <1>0, <1>1, <1>3

-----------------------------------------------------------------------------
(* No event is lost *)

\* Steps that leave files where they are lose nothing.
LEMMA FilesKept ==
  ASSUME NothingLost, accepted \subseteq accepted', UNCHANGED <<clock, dir, name>>
  PROVE  NothingLost'
  BY DEF NothingLost, Published, Reused

\* No step of an agent loses an event.
LEMMA AgentLosesNothing ==
  ASSUME LossInv, NEW a \in Agents,
         Start(a) \/ ThreadStep(a) \/ Stop(a) \/ Crash(a)
  PROVE  NothingLost'
<1> USE DEF LossInv
<1>1. CASE RejectName(a)
  <2>1. CASE Current(a) \in QueuedFiles("pdq")
    BY <1>1, <2>1, RenameLosesNothing DEF RejectName, historyVars
  <2>2. CASE Current(a) \notin QueuedFiles("pdq")
    BY <1>1, <2>2, FilesKept DEF RejectName, historyVars
  <2> QED
    BY <2>1, <2>2
<1>2. CASE MoveEvent(a)
  <2> DEFINE to == IF Code(a) = "CONSUMED" THEN "suc" ELSE "err"
  <2>1. CASE Current(a) \in QueuedFiles("pdq")
    <3>1. ASSUME to = "suc", NEW e \in Events, dir[e] = "pdq", name[e] = Current(a)
          PROVE  e \in accepted \/ Reused(e)
      <4>1. /\ pass[a].event \in accepted /\ pass[a].event \in Events
            /\ name[pass[a].event] = Current(a)
        BY <1>2, <3>1 DEF MoveEvent, InHand, TypeInv, Processed
      <4> QED
        BY <3>1, <4>1 DEF Reused
    <3>2. Rename(Current(a), "pdq", to) /\ UNCHANGED <<clock, name, accepted>>
      BY <1>2, <2>1 DEF MoveEvent, historyVars
    <3> QED
      BY <2>1, <3>1, <3>2, RenameLosesNothing
  <2>2. CASE Current(a) \notin QueuedFiles("pdq")
    BY <1>2, <2>2, FilesKept DEF MoveEvent, historyVars
  <2> QED
    BY <2>1, <2>2
<1>3. CASE RemoveOld(a)
  <2> DEFINE nm == First(sweep[a].doomed)
  <2>1. UNCHANGED <<clock, name, accepted>>
    BY <1>3 DEF RemoveOld, historyVars
  <2>2. CASE UNCHANGED dir
    BY <2>1, <2>2, FilesKept
  <2>3. CASE Remove(nm, sweep[a].place)
    <3>1. nm \in sweep[a].doomed /\ sweep[a].doomed \subseteq Names /\ sweep[a].before \in Nat
      <4>1. sweep[a] \in SweepRecords
        BY DEF TypeInv, TaskTypes, TaskTypeOK
      <4>2. sweep[a].doomed \subseteq Names /\ sweep[a].before \in Nat
        BY <4>1 DEF SweepRecords
      <4> QED
        BY <1>3, <4>2, FirstIsLeast DEF RemoveOld
    <3>2. StampOf(nm) < sweep[a].before /\ sweep[a].before + CleanupAge <= clock
      BY <1>3, <3>1 DEF RemoveOld, TooOld
    <3>3. StampOf(nm) \in Nat /\ CleanupAge \in Nat /\ clock \in Nat
      BY <3>1, ConstantTypes, PDQueueAssumption
      DEF Names, StampOf, TypeInv, DirTypes, QueueDirTypeOK
    <3>4. StampOf(nm) + CleanupAge < clock
      BY <3>1, <3>2, <3>3
    <3> HIDE DEF nm
    <3>5. \A e \in Events : \/ dir'[e] = dir[e]
                            \/ dir'[e] = "removed" /\ name[e] = nm /\ dir[e] # "none"
      <4>1. sweep[a].place # "none"
        BY <1>3 DEF RemoveOld, TooOld
      <4> QED
        BY <2>3, <4>1 DEF Remove
    <3> QED
      BY <2>1, <3>4, <3>5 DEF NothingLost, Published, Reused
  <2> QED
    BY <1>3, <2>2, <2>3 DEF RemoveOld
<1>4. CASE UNCHANGED <<clock, queueVars>> /\ accepted \subseteq accepted'
  BY <1>4, FilesKept DEF queueVars
<1> QED
  BY <1>1, <1>2, <1>3, <1>4
  DEF historyVars, Start, Stop, Crash, Forget, ThreadStep, LoadCounters, Boot, Tick, PassStep, CleanupStep, Exit, AcquireLock,
         ListQueue, EndOfLoop, SkipEvent, ReadEvent, SendEvent, BackOff, StopAll,
         StoreBackoff, StoreCounters, ReleaseLock, BeginCleanup, NextPlace

\* No step of a retry command does.
LEMMA RetryLosesNothing ==
  ASSUME LossInv, NEW r \in Retriers, RetryStep(r)
  PROVE  NothingLost'
<1> USE DEF LossInv
<1>1. UNCHANGED <<clock, name, accepted>>
  BY DEF RetryStep, RetryStart, RetryStore, RetryList, RetryMove, RetryEnd, queueVars, historyVars
<1>2. CASE UNCHANGED dir
  BY <1>1, <1>2, FilesKept
<1>3. CASE \E nm \in QueuedFiles("err") : Rename(nm, "err", "pdq")
  BY <1>1, <1>3, RenameLosesNothing
<1> QED
  BY <1>2, <1>3 DEF RetryStep, RetryStart, RetryStore, RetryList, RetryMove, RetryEnd, queueVars

\* No step of an enqueue() does.
LEMMA SenderLosesNothing ==
  ASSUME LossInv, NEW e \in Events, Sender(e)
  PROVE  NothingLost'
<1> USE DEF LossInv
<1>1. UNCHANGED <<clock, accepted>>
  BY DEF Sender, historyVars
<1>2. NamesKept
  BY LinkedOnce DEF Sender
<1>3. \A x \in Events : dir'[x] = dir[x] \/ dir'[x] = "pdq"
  BY DEF Sender, SenderStep, EnqueueStep, DropStray, StartEnqueue, OpenTmp, TryNext, WriteTmp, LinkPdq,
         UnlinkTmp, KillSender, queueVars, TypeInv, DirTypes, QueueDirTypeOK
<1> SUFFICES ASSUME NEW x \in Events, Published(x)', x \notin accepted, dir'[x] # "pdq"
             PROVE  \/ dir'[x] \in {"pdq", "err"}
                    \/ dir'[x] = "removed" /\ StampOf(name'[x]) + CleanupAge < clock
                    \/ Reused(x)'
  BY <1>1 DEF NothingLost
<1>4. dir'[x] = dir[x] /\ Published(x) /\ name'[x] = name[x]
  BY <1>2, <1>3 DEF Published, NamesKept
<1> QED
  BY <1>2, <1>4, ReusedForGood DEF NothingLost

\* The invariant holds initially.
LEMMA LossInit == PDQueueInit => LossInv
<1> SUFFICES ASSUME PDQueueInit PROVE LossInv
  OBVIOUS
<1>1. TypeInv
  BY TypeInit
<1>2. NamedWhenLinked
  <2>1. ASSUME NEW e \in DOMAIN Backlog
        PROVE  FileName(Backlog[e], KeyOf[e]) # NoName
    <3>1. Backlog[e] > 0
      BY QueueDirAssumption
    <3> QED
      BY <3>1 DEF FileName, NoName
  <2> QED
    BY <2>1 DEF PDQueueInit, QueueDirInit, SenderInit, Queued, NamedWhenLinked
<1>3. InHand /\ TooOld
  BY DEF PDQueueInit, InHand, TooOld
<1>4. NothingLost
  BY DEF PDQueueInit, QueueDirInit, NothingLost, Published
<1> QED
  BY <1>1, <1>2, <1>3, <1>4 DEF LossInv

\* Every step keeps the invariant.
LEMMA LossStep ==
  ASSUME LossInv, [Next]_vars
  PROVE  LossInv'
<1> USE DEF LossInv
<1>1. TypeInv'
  BY TypeStep
<1>2. ASSUME NEW a \in Agents, Start(a) \/ ThreadStep(a) \/ Stop(a) \/ Crash(a)
      PROVE  LossInv'
  BY <1>1, <1>2, AgentKeepsNames, InHandStep, TooOldStep, AgentLosesNothing
<1>3. ASSUME NamesKept, NamedWhenLinked', NothingLost',
             UNCHANGED <<clock, taskVars, accepted>>
      PROVE  LossInv'
  <2>1. InHand'
    BY <1>3, InHandForGood DEF InHand, taskVars, Current, Code, Published
  <2>2. TooOld'
    BY <1>3 DEF TooOld, taskVars
  <2> QED
    BY <1>1, <1>3, <2>1, <2>2
<1>4. ASSUME NEW r \in Retriers, RetryStep(r)
      PROVE  LossInv'
  <2>1. UNCHANGED <<clock, taskVars, accepted>>
    BY <1>4 DEF RetryStep, RetryStart, RetryStore, RetryList, RetryMove, RetryEnd, agentVars, historyVars
  <2> QED
    BY <1>3, <1>4, <2>1, RetryKeepsNames, RetryLosesNothing
<1>5. ASSUME NEW e \in Events, Sender(e)
      PROVE  LossInv'
  <2>1. UNCHANGED <<clock, taskVars, accepted>>
    BY <1>5 DEF Sender, agentVars, historyVars
  <2>2. NamedWhenLinked' /\ NamesKept
    BY <1>5, LinkedOnce DEF Sender
  <2> QED
    BY <1>3, <1>5, <2>1, <2>2, SenderLosesNothing
<1>6. CASE Clock
  <2>1. UNCHANGED <<dir, name, spc, apc, pass, sweep, accepted>> /\ clock' = clock + 1
    BY <1>6 DEF Clock, ClockTick, queueVars, senderVars, agentVars, taskVars, historyVars
  <2>2. CleanupAge \in Nat /\ clock \in Nat
    BY ConstantTypes, PDQueueAssumption DEF TypeInv, DirTypes, QueueDirTypeOK
  <2>3. NamedWhenLinked' /\ InHand'
    BY <2>1 DEF NamedWhenLinked, InHand, Current, Code, Published
  <2>4. TooOld'
    <3>1. \A a \in Agents : apc[a] = "sweep" => sweep[a].before \in Nat
      BY DEF TypeInv, TaskTypes, TaskTypeOK, SweepRecords
    <3> QED
      BY <2>1, <2>2, <3>1 DEF TooOld
  <2>5. NothingLost'
    <3>1. \A e \in Events : StampOf(name[e]) \in Nat
      BY DEF TypeInv, DirTypes, QueueDirTypeOK, Names, StampOf
    <3> QED
      BY <2>1, <2>2, <3>1 DEF NothingLost, Published, Reused
  <2> QED
    BY <1>1, <2>3, <2>4, <2>5
<1>7. CASE UNCHANGED vars
  <2>1. UNCHANGED <<clock, dir, name, spc, taskVars, accepted>>
    BY <1>7 DEF vars, queueVars, senderVars, agentVars, historyVars
  <2>2. NamesKept /\ NamedWhenLinked'
    BY <2>1 DEF NamesKept, NamedWhenLinked, Published
  <2>3. NothingLost'
    BY <2>1, FilesKept
  <2> QED
    BY <1>3, <2>1, <2>2, <2>3
<1> QED
  BY <1>2, <1>4, <1>5, <1>6, <1>7 DEF Next

\* No event is lost, whatever the number of agents, enqueuers and retry
\* commands, whatever the lock is worth, and however often they are killed.
THEOREM NoEventLost == Spec => []NothingLost
<1>1. PDQueueInit => LossInv
  BY LossInit
<1>2. LossInv /\ [Next]_vars => LossInv'
  BY LossStep
<1>3. LossInv => NothingLost
  BY DEF LossInv
<1> QED
  BY <1>1, <1>2, <1>3, PTL DEF Spec

-----------------------------------------------------------------------------
(* The names of files *)

\* The name of an event's file ends with the service key of the event.
NameHasKey == \A e \in Events : Published(e) => SvcKey(name[e]) = KeyOf[e]

\* No two files of a subdirectory have the same name.
OnePerPlace ==
  \A e, x \in Events :
    dir[e] = dir[x] /\ dir[e] \in {"pdq", "suc", "err"} /\ name[e] = name[x] => e = x

NamesInv == LossInv /\ NameHasKey /\ OnePerPlace

\* A rename replaces the file that has the name at the destination.
LEMMA RenameKeepsApart ==
  ASSUME TypeInv, OnePerPlace, NEW nm, NEW from \in {"pdq", "err"},
         NEW to \in {"pdq", "suc", "err"}, from # to, Rename(nm, from, to), UNCHANGED name
  PROVE  OnePerPlace'
<1>1. \A e \in Events :
        dir'[e] = CASE name[e] = nm /\ dir[e] = from -> to
                    [] name[e] = nm /\ dir[e] = to   -> "clobbered"
                    [] OTHER                         -> dir[e]
  BY DEF Rename
<1> SUFFICES ASSUME NEW e \in Events, NEW x \in Events, dir'[e] = dir'[x],
                    dir'[e] \in {"pdq", "suc", "err"}, name[e] = name[x]
             PROVE  e = x
  BY DEF OnePerPlace
<1>2. CASE name[e] = nm
  <2>1. dir[e] = dir[x] /\ dir[e] \in {"pdq", "suc", "err"}
    BY <1>1, <1>2
  <2> QED
    BY <2>1 DEF OnePerPlace
<1>3. CASE name[e] # nm
  <2>1. dir'[e] = dir[e] /\ dir'[x] = dir[x]
    BY <1>1, <1>3
  <2> QED
    BY <2>1 DEF OnePerPlace
<1> QED
  BY <1>2, <1>3

\* An enqueue() gives its file a name with its service key that no file of pdq
\* has, or leaves all files where they are.
LEMMA SenderNames ==
  ASSUME LossInv, NEW e \in Events, Sender(e)
  PROVE  \/ UNCHANGED <<dir, name>>
         \/ /\ dir[e] = "none" /\ dir' = [dir EXCEPT ![e] = "pdq"]
            /\ \E nm \in Names : /\ name' = [name EXCEPT ![e] = nm]
                                 /\ SvcKey(nm) = KeyOf[e]
                                 /\ nm \notin QueuedFiles("pdq")
<1> USE DEF LossInv, TypeInv, DirTypes, QueueDirTypeOK, SenderTypeOK
<1>1. CASE DropStray(e)
  <2>1. FileName(clock, NoKey) \in Names /\ SvcKey(FileName(clock, NoKey)) = KeyOf[e]
    <3>1. clock \in Nat
      BY ConstantTypes
    <3> QED
      BY <1>1, <3>1, NameTypes DEF DropStray, Strays, FileName, SvcKey
  <2> QED
    BY <1>1, <2>1 DEF DropStray, NamedWhenLinked
<1>2. CASE StartEnqueue(e) \/ OpenTmp(e) \/ WriteTmp(e) \/ UnlinkTmp(e) \/ KillSender(e)
  BY <1>2 DEF StartEnqueue, OpenTmp, TryNext, WriteTmp, UnlinkTmp, KillSender, queueVars
<1>3. CASE LinkPdq(e)
  <2>1. NextName(e) \in Names /\ SvcKey(NextName(e)) = KeyOf[e]
    <3>1. stamp[e] + tries[e] \in Nat /\ KeyOf[e] \in Keys \cup {NoKey}
      BY ConstantTypes
    <3> QED
      BY <3>1, NameTypes DEF NextName, FileName, SvcKey
  <2> QED
    BY <1>3, <2>1 DEF LinkPdq, TryNext, NamedWhenLinked, queueVars
<1> QED
  BY <1>1, <1>2, <1>3 DEF Sender, SenderStep, EnqueueStep

\* The names hold initially: those of the backlog are different.
LEMMA NamesInit == PDQueueInit => NamesInv
<1> SUFFICES ASSUME PDQueueInit PROVE NamesInv
  OBVIOUS
<1>1. NameHasKey
  BY DEF PDQueueInit, QueueDirInit, Published, NameHasKey, FileName, SvcKey
<1>2. OnePerPlace
  <2>1. ASSUME NEW e \in Events, NEW x \in Events, dir[e] = dir[x],
               dir[e] \in {"pdq", "suc", "err"}, name[e] = name[x], e # x
        PROVE  FALSE
    <3>1. Queued(e) /\ Queued(x)
      BY <2>1 DEF PDQueueInit, QueueDirInit
    <3>2. FileName(Backlog[e], KeyOf[e]) = FileName(Backlog[x], KeyOf[x])
      BY <2>1, <3>1 DEF PDQueueInit, QueueDirInit
    <3> QED
      BY <2>1, <3>1, <3>2, QueueDirAssumption DEF Queued, FileName
  <2> QED
    BY <2>1 DEF OnePerPlace
<1> QED
  BY <1>1, <1>2, LossInit DEF NamesInv

\* What an agent does to the files: nothing, or it renames one of pdq, or
\* deletes one of err or suc.
LEMMA AgentFiles ==
  ASSUME LossInv, NEW a \in Agents, Start(a) \/ ThreadStep(a) \/ Stop(a) \/ Crash(a)
  PROVE  /\ UNCHANGED name
         /\ \/ UNCHANGED dir
            \/ \E nm \in QueuedFiles("pdq") : \E to \in {"suc", "err"} : Rename(nm, "pdq", to)
            \/ \E nm : \E place \in {"suc", "err"} : Remove(nm, place)
<1>1. CASE RejectName(a) \/ MoveEvent(a)
  BY <1>1 DEF RejectName, MoveEvent
<1>2. CASE RemoveOld(a)
  BY <1>2 DEF RemoveOld, LossInv, TooOld
<1>3. CASE UNCHANGED queueVars
  BY <1>3 DEF queueVars
<1> QED
  BY <1>1, <1>2, <1>3
  DEF Start, Stop, Crash, Forget, ThreadStep, LoadCounters, Boot, Tick, PassStep, CleanupStep, Exit, AcquireLock,
         ListQueue, EndOfLoop, SkipEvent, ReadEvent, SendEvent, BackOff, StopAll,
         StoreBackoff, StoreCounters, ReleaseLock, BeginCleanup, NextPlace

\* What a retry command does to them: nothing, or it renames one of err.
LEMMA RetryFiles ==
  ASSUME NEW r \in Retriers, RetryStep(r)
  PROVE  /\ UNCHANGED name
         /\ UNCHANGED dir \/ \E nm \in QueuedFiles("err") : Rename(nm, "err", "pdq")
  BY DEF RetryStep, RetryStart, RetryStore, RetryList, RetryMove, RetryEnd, queueVars

\* Every step keeps names apart.
LEMMA NamesStep ==
  ASSUME NamesInv, [Next]_vars
  PROVE  NamesInv'
<1> USE DEF NamesInv, LossInv, TypeInv, DirTypes, QueueDirTypeOK
<1>1. LossInv'
  BY LossStep
<1>2. CASE UNCHANGED <<dir, name>>
  BY <1>1, <1>2 DEF NameHasKey, OnePerPlace, Published
<1>3. ASSUME NEW e \in Events, Sender(e)
      PROVE  NamesInv'
  <2>1. CASE /\ dir[e] = "none" /\ dir' = [dir EXCEPT ![e] = "pdq"]
             /\ \E nm \in Names : /\ name' = [name EXCEPT ![e] = nm]
                                  /\ SvcKey(nm) = KeyOf[e]
                                  /\ nm \notin QueuedFiles("pdq")
    BY <1>1, <2>1 DEF NameHasKey, OnePerPlace, Published, QueuedFiles
  <2> QED
    BY <1>2, <1>3, <2>1, SenderNames
<1>4. ASSUME UNCHANGED name,
             \/ \E nm : \E from \in {"pdq", "err"} : \E to \in {"pdq", "suc", "err"} :
                  from # to /\ Rename(nm, from, to)
             \/ \E nm : \E place \in {"suc", "err"} : Remove(nm, place)
      PROVE  NamesInv'
  <2>1. NameHasKey'
    BY <1>4 DEF NameHasKey, Published, Rename, Remove
  <2>2. OnePerPlace'
    <3>1. CASE \E nm : \E place \in {"suc", "err"} : Remove(nm, place)
      BY <1>4, <3>1 DEF OnePerPlace, Remove
    <3> QED
      BY <1>4, <3>1, RenameKeepsApart
  <2> QED
    BY <1>1, <2>1, <2>2
<1>5. ASSUME NEW a \in Agents, Start(a) \/ ThreadStep(a) \/ Stop(a) \/ Crash(a)
      PROVE  NamesInv'
  BY <1>2, <1>4, <1>5, AgentFiles
<1>6. ASSUME NEW r \in Retriers, RetryStep(r)
      PROVE  NamesInv'
  BY <1>2, <1>4, <1>6, RetryFiles
<1>7. CASE Clock \/ UNCHANGED vars
  BY <1>2, <1>7 DEF Clock, vars, queueVars
<1> QED
  BY <1>3, <1>5, <1>6, <1>7 DEF Next

\* No two files of pdq, of suc or of err ever have the same name, and each
\* has the service key of its event, with any number of agents, enqueuers and
\* retry commands.
THEOREM NamesAreApart == Spec => [](OnePerPlace /\ NameHasKey)
<1>1. NamesInv => OnePerPlace /\ NameHasKey
  BY DEF NamesInv
<1> QED
  BY <1>1, NamesInit, NamesStep, PTL DEF Spec

-----------------------------------------------------------------------------
(* Files in tmp *)

\* A running enqueue() has a file of its own in tmp from open() to unlink(),
\* the one that its path names.
TmpInUse ==
  /\ \A e \in Events :
       /\ spc[e] \in {"idle", "open"} => tmp[e] = NoName
       /\ spc[e] \in {"write", "link", "unlink"} => tmp[e] # NoName /\ tmp[e] = tmp_fname[e]
  /\ \A e, x \in Events : tmp[e] = tmp[x] /\ tmp[e] # NoName => e = x

\* Its names are not older than the initial state.
RecentNames ==
  \A e \in Events :
    /\ spc[e] \in {"open", "write", "link"} => stamp[e] >= StartTime
    /\ tmp[e] # NoName => StampOf(tmp[e]) >= StartTime

TmpInv == LossInv /\ TmpInUse /\ RecentNames

\* Nothing grows old enough for cleanup() as long as the clock is watched.
NothingOld == MaxTime <= StartTime + CleanupAge

\* What an enqueue() does leaves the attempts of the others as they are.
LEMMA OthersTry ==
  ASSUME TmpInv, NEW e \in Events, SenderStep(e), NEW x \in Events \ {e}
  PROVE  /\ spc'[x] = spc[x] /\ stamp'[x] = stamp[x] /\ tries'[x] = tries[x]
         /\ tmp'[x] = tmp[x] /\ tmp_fname'[x] = tmp_fname[x]
<1> USE DEF TmpInv, LossInv, TypeInv, DirTypes, SenderTypeOK
<1>1. CASE UnlinkTmp(e)
  BY <1>1 DEF UnlinkTmp, TmpInUse
<1>2. CASE ~UnlinkTmp(e)
  BY <1>2 DEF SenderStep, EnqueueStep, DropStray, StartEnqueue, OpenTmp, TryNext, WriteTmp, LinkPdq, KillSender,
         queueVars
<1> QED
  BY <1>1, <1>2

\* An enqueue() makes and removes no file but its own.
LEMMA SenderTmp ==
  ASSUME TmpInv, NEW e \in Events, SenderStep(e), UNCHANGED clock
  PROVE  TmpInUse' /\ RecentNames'
<1> USE DEF TmpInv, LossInv, TypeInv, DirTypes, SenderTypeOK
<1>1. /\ clock >= StartTime /\ clock \in Nat /\ StartTime \in Nat
      /\ stamp[e] \in Nat /\ tries[e] \in Nat /\ MaxTries \in Nat
  BY ConstantTypes DEF QueueDirTypeOK
<1>2. TmpInUse'
  <2>1. NextName(e) # NoName \/ spc[e] # "open"
    BY <1>1 DEF NextName, FileName, NoName, TryingNames
  <2>2. /\ spc'[e] \in {"idle", "open"} => tmp'[e] = NoName
        /\ spc'[e] \in {"write", "link", "unlink"} => tmp'[e] # NoName /\ tmp'[e] = tmp_fname'[e]
    BY <2>1 DEF TmpInUse, SenderStep, EnqueueStep, DropStray, StartEnqueue, OpenTmp, TryNext, WriteTmp, LinkPdq,
           UnlinkTmp, KillSender, queueVars
  <2>3. \/ tmp'[e] \in {tmp[e], NoName}
        \/ \A x \in Events : tmp[x] # tmp'[e]
    BY DEF SenderStep, EnqueueStep, DropStray, StartEnqueue, OpenTmp, TryNext, WriteTmp, LinkPdq,
           UnlinkTmp, KillSender, queueVars, TmpFiles, TmpInUse
  <2>4. \A x \in Events \ {e} : tmp'[x] = tmp'[e] => tmp'[e] = NoName
    BY <2>3, OthersTry DEF TmpInUse
  <2> QED
    BY <2>2, <2>4, OthersTry DEF TmpInUse
<1>3. RecentNames'
  <2>1. spc[e] = "open" => StampOf(NextName(e)) >= StartTime
    BY <1>1 DEF RecentNames, NextName, StampOf, FileName
  <2>2. /\ spc'[e] \in {"open", "write", "link"} => stamp'[e] >= StartTime
        /\ tmp'[e] # NoName => StampOf(tmp'[e]) >= StartTime
    BY <1>1, <2>1 DEF RecentNames, SenderStep, EnqueueStep, DropStray, StartEnqueue, OpenTmp, TryNext, WriteTmp,
           LinkPdq, UnlinkTmp, KillSender, queueVars
  <2> QED
    BY <2>2, OthersTry DEF RecentNames
<1> QED
  BY <1>2, <1>3

\* As long as nothing is old enough for cleanup() no agent deletes a file that
\* an enqueue() has in tmp.
LEMMA TmpLeftAlone ==
  ASSUME NothingOld, TmpInv, NEW a \in Agents, Start(a) \/ ThreadStep(a) \/ Stop(a) \/ Crash(a)
  PROVE  UNCHANGED senderVars
<1> USE DEF TmpInv, LossInv, TypeInv
<1>1. CASE RemoveOld(a)
  <2> DEFINE nm == First(sweep[a].doomed)
  <2>1. /\ sweep[a].doomed \subseteq Names /\ sweep[a].before \in Nat
        /\ clock \in Nat /\ clock <= MaxTime /\ MaxTime \in Nat /\ StartTime \in Nat /\ CleanupAge \in Nat
    BY ConstantTypes, PDQueueAssumption
    DEF TaskTypes, TaskTypeOK, SweepRecords, DirTypes, QueueDirTypeOK
  <2>2. nm \in sweep[a].doomed
    BY <1>1, <2>1, FirstIsLeast DEF RemoveOld
  <2>3. StampOf(nm) < sweep[a].before /\ sweep[a].before + CleanupAge <= clock
    BY <1>1, <2>2 DEF RemoveOld, TooOld
  <2>4. StampOf(nm) \in Nat
    BY <2>1, <2>2 DEF Names, StampOf
  <2>5. StampOf(nm) < StartTime
    BY <2>1, <2>3, <2>4 DEF NothingOld
  <2> HIDE DEF nm
  <2>6. \A e \in Events : tmp[e] = nm => tmp[e] = NoName
    BY <2>1, <2>4, <2>5 DEF RecentNames
  <2>7. \/ UNCHANGED tmp
        \/ tmp' = [e \in Events |-> IF tmp[e] = nm THEN NoName ELSE tmp[e]]
    BY <1>1 DEF RemoveOld, nm
  <2>8. tmp' = tmp
    BY <2>6, <2>7 DEF DirTypes, SenderTypeOK
  <2> QED
    BY <1>1, <2>8 DEF RemoveOld, senderVars
<1>2. CASE UNCHANGED senderVars
  BY <1>2
<1> QED
  BY <1>1, <1>2
  DEF RejectName, MoveEvent, senderVars, Start, Stop, Crash, Forget, ThreadStep, LoadCounters, Boot, Tick, PassStep, CleanupStep,
         Exit, AcquireLock, ListQueue, EndOfLoop, SkipEvent, ReadEvent, SendEvent, BackOff, StopAll,
         StoreBackoff, StoreCounters, ReleaseLock, BeginCleanup, NextPlace

\* Every step keeps the files in tmp in use.
LEMMA TmpStep ==
  ASSUME NothingOld, TmpInv, [Next]_vars
  PROVE  TmpInv'
<1> USE DEF TmpInv
<1>1. LossInv'
  BY LossStep
<1>2. ASSUME UNCHANGED senderVars
      PROVE  TmpInUse' /\ RecentNames'
  BY <1>2 DEF senderVars, TmpInUse, RecentNames
<1>3. ASSUME NEW e \in Events, Sender(e)
      PROVE  TmpInUse' /\ RecentNames'
  BY <1>3, SenderTmp DEF Sender
<1>4. ASSUME NEW a \in Agents, Start(a) \/ ThreadStep(a) \/ Stop(a) \/ Crash(a)
      PROVE  UNCHANGED senderVars
  BY <1>4, TmpLeftAlone
<1>5. ASSUME NEW r \in Retriers, RetryStep(r)
      PROVE  UNCHANGED senderVars
  BY <1>5 DEF RetryStep, RetryStart, RetryStore, RetryList, RetryMove, RetryEnd
<1>6. ASSUME Clock \/ UNCHANGED vars
      PROVE  UNCHANGED senderVars
  BY <1>6 DEF Clock, vars
<1>7. TmpInUse' /\ RecentNames'
  BY <1>2, <1>3, <1>4, <1>5, <1>6 DEF Next
<1> QED
  BY <1>1, <1>7

LEMMA TmpInit == PDQueueInit => TmpInv
  BY LossInit DEF PDQueueInit, SenderInit, TmpInv, TmpInUse, RecentNames

-----------------------------------------------------------------------------
(* What is published is whole *)

\* What is linked, or about to be, was written.
Written ==
  \A e \in Events : spc[e] = "link" \/ Published(e) => data[e] = "full"

\* Every step keeps what is linked whole: the file that an enqueue() links is
\* the one that it wrote.
LEMMA WrittenStep ==
  ASSUME ~ShortWrites, TmpInv, Written, [Next]_vars
  PROVE  Written'
<1> USE DEF TmpInv, LossInv, Written, Published
<1>1. ASSUME NEW e \in Events, SenderStep(e)
      PROVE  Written'
  <2> USE DEF TypeInv, DirTypes, QueueDirTypeOK, SenderTypeOK
  <2>1. CASE DropStray(e)
    BY <1>1, <2>1 DEF DropStray
  <2>2. CASE StartEnqueue(e) \/ KillSender(e)
    BY <2>2 DEF StartEnqueue, KillSender, queueVars
  <2>3. CASE OpenTmp(e)
    BY <2>3 DEF OpenTmp, TryNext, queueVars, NamedWhenLinked
  <2>4. CASE WriteTmp(e)
    BY <2>4 DEF WriteTmp
  <2>5. CASE LinkPdq(e)
    <3>1. data' = data
      BY <2>5 DEF LinkPdq, TryNext, queueVars, TmpInUse
    <3> QED
      BY <2>5, <3>1 DEF LinkPdq, TryNext, queueVars
  <2>6. CASE UnlinkTmp(e)
    BY <2>6 DEF UnlinkTmp, queueVars
  <2> QED
    BY <1>1, <2>1, <2>2, <2>3, <2>4, <2>5, <2>6 DEF SenderStep, EnqueueStep
<1>2. ASSUME NamedWhenLinked', UNCHANGED <<name, data, spc>>
      PROVE  Written'
  BY <1>2 DEF NamedWhenLinked
<1>3. NamedWhenLinked'
  BY LossStep
<1>4. ASSUME NEW a \in Agents, Start(a) \/ ThreadStep(a) \/ Stop(a) \/ Crash(a)
      PROVE  UNCHANGED <<name, data, spc>>
  BY <1>4 DEF RejectName, MoveEvent, RemoveOld, queueVars, senderVars,
         Start, Stop, Crash, Forget, ThreadStep, LoadCounters, Boot, Tick, PassStep, CleanupStep, Exit, AcquireLock,
         ListQueue, EndOfLoop, SkipEvent, ReadEvent, SendEvent, BackOff, StopAll,
         StoreBackoff, StoreCounters, ReleaseLock, BeginCleanup, NextPlace
<1>5. ASSUME NEW r \in Retriers, RetryStep(r)
      PROVE  UNCHANGED <<name, data, spc>>
  BY <1>5 DEF RetryStep, RetryStart, RetryStore, RetryList, RetryMove, RetryEnd, queueVars, senderVars
<1>6. CASE Clock \/ UNCHANGED vars
  BY <1>2, <1>3, <1>6 DEF Clock, vars, queueVars, senderVars
<1> QED
  BY <1>1, <1>2, <1>3, <1>4, <1>5, <1>6 DEF Next, Sender

\* As long as os.write() writes what it is given, and nothing grows old enough
\* for cleanup(), nobody who reads pdq, suc or err finds an event that is not
\* whole, or that is another one, however many enqueuers there are and
\* whichever of them are killed.
THEOREM EventsAreWhole ==
  ~ShortWrites /\ NothingOld => (Spec => []PublishedWhole)
<1> SUFFICES ASSUME ~ShortWrites, NothingOld
             PROVE  Spec => []PublishedWhole
  OBVIOUS
<1>1. PDQueueInit => TmpInv /\ Written
  BY TmpInit DEF PDQueueInit, QueueDirInit, SenderInit, Queued, Written, Published
<1>2. TmpInv /\ Written /\ [Next]_vars => TmpInv' /\ Written'
  BY TmpStep, WrittenStep
<1>3. Written => PublishedWhole
  BY DEF Written, PublishedWhole
<1> QED
  BY <1>1, <1>2, <1>3, PTL DEF Spec

-----------------------------------------------------------------------------
(* Taken names *)

\* A part of a finite set has at most as many elements; if it lacks one, it
\* has less.
LEMMA PartIsSmaller ==
  ASSUME NEW T, IsFiniteSet(T), NEW S, S \subseteq T
  PROVE  /\ IsFiniteSet(S) /\ Cardinality(S) \in Nat /\ Cardinality(T) \in Nat
         /\ Cardinality(S) <= Cardinality(T)
         /\ \A x \in T \ S : Cardinality(S) + 1 <= Cardinality(T)
<1>1. IsFiniteSet(S) /\ Cardinality(S) <= Cardinality(T)
  BY FS_Subset
<1>2. Cardinality(S) \in Nat /\ Cardinality(T) \in Nat
  BY <1>1, FS_CardinalityType
<1>3. ASSUME NEW x \in T \ S
      PROVE  Cardinality(S) + 1 <= Cardinality(T)
  <2>1. Cardinality(S \cup {x}) = Cardinality(S) + 1
    BY <1>1, <1>3, FS_AddElement
  <2>2. S \cup {x} \in SUBSET T
    BY <1>3
  <2>3. Cardinality(S \cup {x}) <= Cardinality(T)
    BY <2>2, FS_Subset
  <2> QED
    BY <2>1, <2>3
<1> QED
  BY <1>1, <1>2, <1>3

\* the names that the enqueue() of e has found taken
Tried(e) == {FileName(stamp[e] + i, KeyOf[e]) : i \in 0 .. tries[e] - 1}

\* the other events that take, or took, one of these names in tmp, and those
\* that have left tmp
InTheWay(e) ==
  {x \in Events \ {e} :
     IF tmp[x] = NoName THEN spc[x] \notin {"idle", "open"} ELSE tmp[x] \in Tried(e)}

\* the other events that were published under one of them
TookFirst(e) == {x \in Events \ {e} : Published(x) /\ name[x] \in Tried(e)}

\* Each name that an enqueue() found taken was taken by another event.
TakenByOthers ==
  \A e \in Events :
    /\ spc[e] = "idle" => tries[e] = 0
    /\ spc[e] = "open" => tries[e] <= Cardinality(InTheWay(e))
    /\ spc[e] = "link" => tries[e] <= Cardinality(TookFirst(e))

EnoughNames == IsFiniteSet(Events) /\ Cardinality(Events) <= MaxTries

TryInv == TmpInv /\ TakenByOthers /\ OnlyKillsFail

\* An enqueue() that finds its next name taken is not at its last try: each
\* try is taken by another event.
LEMMA TriesLeft ==
  ASSUME EnoughNames, TryInv, NEW e \in Events, TryNext(e),
         \/ spc[e] = "open" /\ NextName(e) \in TmpFiles
         \/ spc[e] = "link" /\ NextName(e) \in QueuedFiles("pdq")
  PROVE  /\ spc' = spc
         /\ spc[e] = "open" => tries'[e] <= Cardinality(InTheWay(e)')
         /\ spc[e] = "link" => tries'[e] <= Cardinality(TookFirst(e)')
<1> USE DEF TryInv, TmpInv, LossInv, TypeInv, DirTypes, SenderTypeOK
<1> DEFINE n == tries[e]
<1>1. /\ n \in Nat /\ stamp[e] \in Nat /\ stamp[e] > 0 /\ MaxTries \in Nat
      /\ tries'[e] = n + 1 /\ UNCHANGED <<stamp, tmp, dir, name>>
      /\ \A x \in Events \ {e} : spc'[x] = spc[x]
      /\ n + 1 < MaxTries => spc' = spc
  BY ConstantTypes DEF TryingNames, TryNext, queueVars
<1>2. /\ \A i \in 0 .. n - 1 : FileName(stamp[e] + i, KeyOf[e]) # NextName(e)
      /\ NextName(e) # NoName
  BY <1>1 DEF NextName, FileName, NoName
<1>3. NextName(e) \notin Tried(e) /\ Tried(e)' = Tried(e) \cup {NextName(e)}
  <2>1. 0 .. (n + 1) - 1 = (0 .. n - 1) \cup {n}
    BY <1>1
  <2> QED
    BY <1>1, <1>2, <2>1 DEF Tried, NextName
<1>4. ASSUME NEW S, NEW T, S \subseteq T, T \subseteq Events \ {e}, NEW x \in T \ S, n <= Cardinality(S)
      PROVE  n + 1 < MaxTries /\ n + 1 <= Cardinality(T)
  <2>1. IsFiniteSet(Events \ {e}) /\ Cardinality(Events \ {e}) = Cardinality(Events) - 1
    BY FS_RemoveElement DEF EnoughNames
  <2>2. /\ Cardinality(T) <= Cardinality(Events \ {e}) /\ Cardinality(T) \in Nat
        /\ Cardinality(Events \ {e}) \in Nat /\ IsFiniteSet(T)
    BY <1>4, <2>1, PartIsSmaller
  <2>3. Cardinality(S) \in Nat /\ Cardinality(S) + 1 <= Cardinality(T)
    BY <1>4, <2>2, PartIsSmaller
  <2>4. Cardinality(Events) \in Nat
    BY FS_CardinalityType DEF EnoughNames
  <2> QED
    BY <1>1, <1>4, <2>1, <2>2, <2>3, <2>4 DEF EnoughNames
<1>5. CASE spc[e] = "open" /\ NextName(e) \in TmpFiles
  <2>1. PICK x \in Events : tmp[x] = NextName(e)
    BY <1>5 DEF TmpFiles
  <2>2. x \in InTheWay(e)' \ InTheWay(e)
    BY <1>1, <1>2, <1>3, <1>5, <2>1 DEF InTheWay, TmpInUse
  <2>3. InTheWay(e) \subseteq InTheWay(e)' /\ InTheWay(e)' \subseteq Events \ {e}
    BY <1>1, <1>3 DEF InTheWay
  <2>4. n <= Cardinality(InTheWay(e))
    BY <1>5 DEF TakenByOthers
  <2>5. n + 1 < MaxTries /\ n + 1 <= Cardinality(InTheWay(e)')
    BY <1>4, <2>2, <2>3, <2>4
  <2> QED
    BY <1>1, <1>5, <2>5
<1>6. CASE spc[e] = "link" /\ NextName(e) \in QueuedFiles("pdq")
  <2>1. PICK x \in Events : name[x] = NextName(e) /\ dir[x] = "pdq"
    BY <1>6 DEF QueuedFiles
  <2>2. x \in TookFirst(e)' \ TookFirst(e)
    BY <1>1, <1>3, <1>6, <2>1 DEF TookFirst, Published, NamedWhenLinked
  <2>3. TookFirst(e) \subseteq TookFirst(e)' /\ TookFirst(e)' \subseteq Events \ {e}
    BY <1>1, <1>3 DEF TookFirst, Published
  <2>4. n <= Cardinality(TookFirst(e))
    BY <1>6 DEF TakenByOthers
  <2>5. n + 1 < MaxTries /\ n + 1 <= Cardinality(TookFirst(e)')
    BY <1>4, <2>2, <2>3, <2>4
  <2> QED
    BY <1>1, <1>6, <2>5
<1> QED
  BY <1>5, <1>6

\* Those in the way are counted by numbers, also in the next state.
LEMMA TakenCounts ==
  ASSUME EnoughNames, NEW e \in Events
  PROVE  /\ Cardinality(InTheWay(e)) \in Nat /\ Cardinality(TookFirst(e)) \in Nat
         /\ Cardinality(InTheWay(e)') \in Nat /\ Cardinality(TookFirst(e)') \in Nat
<1>1. /\ InTheWay(e) \subseteq Events /\ TookFirst(e) \subseteq Events
      /\ InTheWay(e)' \subseteq Events /\ TookFirst(e)' \subseteq Events
  BY DEF InTheWay, TookFirst
<1> QED
  BY <1>1, PartIsSmaller DEF EnoughNames

\* Events that are in the way stay there, whatever the enqueuers do.
LEMMA StillTaken ==
  ASSUME EnoughNames, TryInv, NamesKept, NEW e \in Events,
         UNCHANGED <<tmp, spc>> \/ \E x \in Events : SenderStep(x),
         stamp'[e] = stamp[e], tries'[e] = tries[e]
  PROVE  /\ Cardinality(InTheWay(e)) <= Cardinality(InTheWay(e)')
         /\ Cardinality(TookFirst(e)) <= Cardinality(TookFirst(e)')
<1> USE DEF TryInv, TmpInv, LossInv, TypeInv, DirTypes, SenderTypeOK
<1>1. Tried(e)' = Tried(e)
  BY DEF Tried
<1>2. ASSUME NEW x \in Events
      PROVE  /\ tmp[x] = NoName /\ spc[x] \notin {"idle", "open"} =>
                  tmp'[x] = NoName /\ spc'[x] \notin {"idle", "open"}
             /\ tmp[x] # NoName =>
                  tmp'[x] = tmp[x] \/ (tmp'[x] = NoName /\ spc'[x] \notin {"idle", "open"})
  BY DEF TmpInUse, SenderStep, EnqueueStep, DropStray, StartEnqueue, OpenTmp, TryNext, WriteTmp, LinkPdq,
         UnlinkTmp, KillSender, queueVars
<1>3. InTheWay(e) \subseteq InTheWay(e)'
  BY <1>1, <1>2 DEF InTheWay
<1>4. TookFirst(e) \subseteq TookFirst(e)'
  BY <1>1 DEF TookFirst, NamesKept
<1>5. IsFiniteSet(InTheWay(e)') /\ IsFiniteSet(TookFirst(e)')
  <2>1. InTheWay(e)' \subseteq Events /\ TookFirst(e)' \subseteq Events
    BY DEF InTheWay, TookFirst
  <2> QED
    BY <2>1, PartIsSmaller DEF EnoughNames
<1> QED
  BY <1>3, <1>4, <1>5, PartIsSmaller

\* An enqueue() fails only if it is killed.
LEMMA OneFailure ==
  ASSUME EnoughNames, TryInv, NEW e \in Events, SenderStep(e)
  PROVE  OnlyKillsFail'
<1> USE DEF TryInv, TmpInv, LossInv, TypeInv, DirTypes, SenderTypeOK
<1> DEFINE Failed == {x \in Events : spc[x] = "failed"}
           Failed2 == {x \in Events : spc'[x] = "failed"}
<1>1. IsFiniteSet(Failed) /\ Cardinality(Failed) \in Nat /\ killed \in Nat
  BY PartIsSmaller, ConstantTypes DEF EnoughNames
<1>2. CASE KillSender(e)
  <2>1. Failed2 = Failed \cup {e} /\ killed' = killed + 1
    BY <1>2 DEF KillSender
  <2>2. Cardinality(Failed) <= killed
    BY DEF OnlyKillsFail
  <2> HIDE DEF Failed, Failed2
  <2>3. Cardinality(Failed \cup {e}) \in {Cardinality(Failed), Cardinality(Failed) + 1}
    BY <1>1, FS_AddElement
  <2>4. Cardinality(Failed2) <= killed'
    BY <1>1, <2>1, <2>2, <2>3
  <2> QED
    BY <2>4 DEF Failed2, OnlyKillsFail
<1>3. CASE ~KillSender(e)
  <2>1. Failed2 = Failed /\ killed' = killed
    <3>1. spc'[e] = "failed" => spc[e] = "failed"
      <4>1. CASE OpenTmp(e)
        BY <4>1, TriesLeft DEF OpenTmp, TryNext
      <4>2. CASE LinkPdq(e)
        BY <4>2, TriesLeft DEF LinkPdq, TryNext, TmpInUse, TmpFiles
      <4>3. CASE UnlinkTmp(e)
        BY <4>3 DEF UnlinkTmp, TmpInUse, TmpFiles
      <4> QED
        BY <1>3, <4>1, <4>2, <4>3 DEF SenderStep, EnqueueStep, DropStray, StartEnqueue, WriteTmp
    <3>2. spc[e] # "failed" /\ killed' = killed
      BY <1>3 DEF SenderStep, EnqueueStep, DropStray, StartEnqueue, OpenTmp, TryNext, WriteTmp, LinkPdq,
                  UnlinkTmp
    <3> QED
      BY <3>1, <3>2, OthersTry
  <2> QED
    BY <2>1 DEF OnlyKillsFail
<1> QED
  BY <1>2, <1>3

\* An enqueue() keeps its account of the names it found taken.
LEMMA SenderTries ==
  ASSUME EnoughNames, TryInv, NEW e \in Events, Sender(e), NamesKept
  PROVE  TakenByOthers'
<1> USE DEF TryInv, TmpInv, LossInv, TypeInv, DirTypes, SenderTypeOK
<1>1. SenderStep(e) /\ UNCHANGED clock
  BY DEF Sender
<1>2. /\ clock >= StartTime /\ clock \in Nat /\ StartTime \in Nat
      /\ stamp[e] \in Nat /\ tries[e] \in Nat /\ MaxTries \in Nat
  BY ConstantTypes DEF QueueDirTypeOK
<1> DEFINE Kept(x) ==
      /\ spc[x] = "idle" => tries[x] = 0
      /\ spc[x] = "open" => tries[x] <= Cardinality(InTheWay(x))
      /\ spc[x] = "link" => tries[x] <= Cardinality(TookFirst(x))
<1>3. ASSUME NEW x \in Events \ {e}
      PROVE  Kept(x)'
  <2>1. spc'[x] = spc[x] /\ stamp'[x] = stamp[x] /\ tries'[x] = tries[x] /\ tries[x] \in Nat
    BY <1>1, <1>2, OthersTry
  <2>2. /\ Cardinality(InTheWay(x)) <= Cardinality(InTheWay(x)')
        /\ Cardinality(TookFirst(x)) <= Cardinality(TookFirst(x)')
    BY <1>1, <2>1, StillTaken
  <2> QED
    BY <2>1, <2>2, TakenCounts DEF TakenByOthers
<1>4. Kept(e)'
  <2>1. CASE tries'[e] = 0
    BY <2>1, TakenCounts
  <2>2. CASE \/ spc[e] = "open" /\ NextName(e) \in TmpFiles
             \/ spc[e] = "link" /\ NextName(e) \in QueuedFiles("pdq")
    <3>1. TryNext(e) \/ spc'[e] = "failed"
      BY <1>1, <2>2 DEF TmpInUse, SenderStep, EnqueueStep, DropStray, StartEnqueue, OpenTmp, WriteTmp, LinkPdq,
         UnlinkTmp, KillSender
    <3>2. CASE TryNext(e)
      BY <2>2, <3>2, TriesLeft
    <3> QED
      BY <3>1, <3>2
  <2>3. CASE tries'[e] # 0 /\ ~(\/ spc[e] = "open" /\ NextName(e) \in TmpFiles
                                \/ spc[e] = "link" /\ NextName(e) \in QueuedFiles("pdq"))
    <3>1. spc'[e] \notin {"idle", "open", "link"}
      BY <1>1, <2>3 DEF TakenByOthers, TmpInUse, SenderStep, EnqueueStep, DropStray, StartEnqueue, OpenTmp, WriteTmp,
         LinkPdq, UnlinkTmp, KillSender, Running
    <3> QED
      BY <3>1
  <2> QED
    BY <2>1, <2>2, <2>3
<1>5. \A x \in Events : Kept(x)'
  BY <1>3, <1>4
<1> QED
  BY <1>5 DEF TakenByOthers

\* Every step keeps the account of the names that were found taken.
LEMMA TryStep ==
  ASSUME EnoughNames, NothingOld, TryInv, [Next]_vars
  PROVE  TryInv'
<1> USE DEF TryInv
<1>1. TmpInv'
  BY TmpStep
<1>2. ASSUME UNCHANGED senderVars, NamesKept
      PROVE  TryInv'
  <2>1. OnlyKillsFail'
    BY <1>2 DEF senderVars, OnlyKillsFail
  <2>2. TakenByOthers'
    <3> DEFINE Kept(x) ==
          /\ spc[x] = "idle" => tries[x] = 0
          /\ spc[x] = "open" => tries[x] <= Cardinality(InTheWay(x))
          /\ spc[x] = "link" => tries[x] <= Cardinality(TookFirst(x))
    <3>1. ASSUME NEW x \in Events
          PROVE  Kept(x)'
      <4>1. spc' = spc /\ stamp' = stamp /\ tries' = tries /\ tmp' = tmp /\ tries[x] \in Nat
        BY <1>2, ConstantTypes DEF senderVars, TmpInv, LossInv, TypeInv, DirTypes, SenderTypeOK
      <4>2. /\ Cardinality(InTheWay(x)) <= Cardinality(InTheWay(x)')
            /\ Cardinality(TookFirst(x)) <= Cardinality(TookFirst(x)')
        BY <1>2, <4>1, StillTaken
      <4> QED
        BY <4>1, <4>2, TakenCounts DEF TakenByOthers
    <3>2. \A x \in Events : Kept(x)'
      BY <3>1
    <3> QED
      BY <3>2 DEF TakenByOthers
  <2> QED
    BY <1>1, <2>1, <2>2
<1>3. ASSUME NEW e \in Events, Sender(e)
      PROVE  TryInv'
  <2>1. NamesKept
    BY <1>3, LinkedOnce DEF TmpInv, LossInv, Sender
  <2> QED
    BY <1>1, <1>3, <2>1, OneFailure, SenderTries DEF Sender
<1>4. ASSUME NEW a \in Agents, Start(a) \/ ThreadStep(a) \/ Stop(a) \/ Crash(a)
      PROVE  TryInv'
  BY <1>2, <1>4, TmpLeftAlone, AgentKeepsNames DEF TmpInv, LossInv
<1>5. ASSUME NEW r \in Retriers, RetryStep(r)
      PROVE  TryInv'
  <2>1. UNCHANGED senderVars
    BY <1>5 DEF RetryStep, RetryStart, RetryStore, RetryList, RetryMove, RetryEnd
  <2> QED
    BY <1>2, <1>5, <2>1, RetryKeepsNames DEF TmpInv, LossInv
<1>6. CASE Clock \/ UNCHANGED vars
  <2>1. UNCHANGED senderVars /\ NamesKept
    BY <1>6 DEF Clock, vars, queueVars, NamesKept, Published
  <2> QED
    BY <1>2, <2>1
<1> QED
  BY <1>3, <1>4, <1>5, <1>6 DEF Next

\* A taken name fails nobody: if there are not more events than names are
\* tried, and nothing grows old enough to be cleaned up, then an enqueue()
\* fails only if it is killed, with any number of agents and retry commands.
THEOREM TakenNamesFailNobody ==
  EnoughNames /\ NothingOld => (Spec => []OnlyKillsFail)
<1> SUFFICES ASSUME EnoughNames, NothingOld
             PROVE  Spec => []OnlyKillsFail
  OBVIOUS
<1>1. PDQueueInit => TryInv
  <2> SUFFICES ASSUME PDQueueInit PROVE TryInv
    OBVIOUS
  <2>1. TakenByOthers
    BY DEF PDQueueInit, SenderInit, TakenByOthers
  <2>2. OnlyKillsFail
    <3>1. {e \in Events : spc[e] = "failed"} = {} /\ killed = 0
      BY DEF PDQueueInit, SenderInit
    <3> QED
      BY <3>1, FS_EmptySet DEF OnlyKillsFail
  <2> QED
    BY <2>1, <2>2, TmpInit DEF TryInv
<1>2. TryInv /\ [Next]_vars => TryInv'
  BY TryStep
<1>3. TryInv => OnlyKillsFail
  BY DEF TryInv
<1> QED
  BY <1>1, <1>2, <1>3, PTL DEF Spec

-----------------------------------------------------------------------------
(* The promise of module Delivery: what a change of the queue directory is to
   the status of events *)

\* The status of an event, by cases.
LEMMA StatusCases ==
  ASSUME NEW e \in Events
  PROVE  /\ ~Published(e) => Status[e] = "new"
         /\ Published(e) /\ Reused(e) => Status[e] = "unclear"
         /\ Published(e) /\ ~Reused(e) => Status[e] = StatusOf[dir[e]]
  BY DEF Status

\* and in the next state
LEMMA NextStatusCases ==
  ASSUME NEW e \in Events
  PROVE  /\ ~Published(e)' => Status'[e] = "new"
         /\ Published(e)' /\ Reused(e)' => Status'[e] = "unclear"
         /\ Published(e)' /\ ~Reused(e)' => Status'[e] = StatusOf[dir'[e]]
  BY DEF Status

\* Status is a function; two states of it are compared event by event.
LEMMA StatusIsFunction ==
  /\ Status = [e \in Events |-> Status[e]]
  /\ Status' = [e \in Events |-> Status'[e]]
  BY DEF Status

\* Steps that leave files where they are change no status.
LEMMA SameStatus ==
  ASSUME UNCHANGED <<dir, name>>
  PROVE  Status' = Status
  BY DEF Status, Published, Reused

\* A rename within the queue changes the status of one event, and only if no
\* other event has its name.
LEMMA RenameStatus ==
  ASSUME TypeInv, NamedWhenLinked,
         NEW nm, NEW from \in {"pdq", "err"}, NEW to \in {"pdq", "suc", "err"},
         from # to, nm \in QueuedFiles(from), Rename(nm, from, to), UNCHANGED name
  PROVE  \/ Status' = Status
         \/ \E e \in Events :
              /\ dir[e] = from /\ name[e] = nm /\ ~Reused(e)
              /\ Status[e] = StatusOf[from]
              /\ Status' = [Status EXCEPT ![e] = StatusOf[to]]
<1>1. PICK e \in Events : dir[e] = from /\ name[e] = nm
  BY DEF QueuedFiles
<1>2. \A x \in Events : Reused(x)' <=> Reused(x)
  BY DEF Reused
<1>3. \A x \in Events :
        dir'[x] = CASE name[x] = nm /\ dir[x] = from -> to
                    [] name[x] = nm /\ dir[x] = to   -> "clobbered"
                    [] OTHER                         -> dir[x]
  BY DEF Rename
<1>4. \A x \in Events : Published(x)' <=> Published(x)
  BY <1>3 DEF Published
<1>5. ASSUME NEW x \in Events, x # e \/ Reused(e)
      PROVE  Status'[x] = Status[x]
  <2>1. CASE Reused(x) \/ ~Published(x)
    BY <1>2, <1>4, <2>1, StatusCases, NextStatusCases
  <2>2. CASE ~Reused(x) /\ Published(x)
    <3>1. x # e /\ name[x] # nm
      BY <1>1, <1>5, <2>2 DEF Reused
    <3>2. dir'[x] = dir[x]
      BY <1>3, <3>1
    <3> QED
      BY <1>2, <1>4, <2>2, <3>2, StatusCases, NextStatusCases
  <2> QED
    BY <2>1, <2>2
<1>6. CASE Reused(e)
  BY <1>5, <1>6, StatusIsFunction
<1>7. CASE ~Reused(e)
  <2>1. Published(e) /\ dir'[e] = to
    BY <1>1, <1>3 DEF Published
  <2>2. Status[e] = StatusOf[from] /\ Status'[e] = StatusOf[to]
    BY <1>1, <1>2, <1>4, <1>7, <2>1, StatusCases, NextStatusCases
  <2>3. Status' = [Status EXCEPT ![e] = StatusOf[to]]
    BY <1>5, <2>2, StatusIsFunction
  <2> QED
    BY <1>1, <1>7, <2>2, <2>3
<1> QED
  BY <1>6, <1>7

\* So does a removal by cleanup().
LEMMA RemoveStatus ==
  ASSUME TypeInv, NamedWhenLinked, NEW nm, NEW place \in {"suc", "err"},
         Remove(nm, place), UNCHANGED name
  PROVE  \/ Status' = Status
         \/ \E e \in Events : /\ Status[e] = StatusOf[place]
                              /\ Status' = [Status EXCEPT ![e] = "gone"]
<1>1. \A x \in Events :
        dir'[x] = IF name[x] = nm /\ dir[x] = place THEN "removed" ELSE dir[x]
  BY DEF Remove
<1>2. \A x \in Events : (Reused(x)' <=> Reused(x)) /\ (Published(x)' <=> Published(x))
  BY <1>1 DEF Reused, Published
<1>3. ASSUME NEW x \in Events, Reused(x) \/ ~Published(x) \/ dir[x] # place \/ name[x] # nm
      PROVE  Status'[x] = Status[x]
  <2>1. CASE Reused(x) \/ ~Published(x)
    BY <1>2, <2>1, StatusCases, NextStatusCases
  <2>2. CASE ~Reused(x) /\ Published(x)
    <3>1. dir'[x] = dir[x]
      BY <1>1, <1>3, <2>2
    <3> QED
      BY <1>2, <2>2, <3>1, StatusCases, NextStatusCases
  <2> QED
    BY <2>1, <2>2
<1>4. CASE \E e \in Events : ~Reused(e) /\ dir[e] = place /\ name[e] = nm
  <2>1. PICK e \in Events : ~Reused(e) /\ dir[e] = place /\ name[e] = nm
    BY <1>4
  <2>2. Published(e) /\ dir'[e] = "removed"
    BY <1>1, <2>1 DEF Published
  <2>3. Status[e] = StatusOf[place] /\ Status'[e] = "gone"
    BY <1>2, <2>1, <2>2, StatusCases, NextStatusCases DEF StatusOf
  <2>4. \A x \in Events \ {e} : Status'[x] = Status[x]
    BY <1>3, <2>1 DEF Reused
  <2>5. Status' = [Status EXCEPT ![e] = "gone"]
    BY <2>3, <2>4, StatusIsFunction
  <2> QED
    BY <2>3, <2>5
<1>5. CASE ~\E e \in Events : ~Reused(e) /\ dir[e] = place /\ name[e] = nm
  BY <1>3, <1>5, StatusIsFunction
<1> QED
  BY <1>4, <1>5

\* An event that gets its file is accepted, or confused with those that had
\* the name before.
LEMMA LinkStatus ==
  ASSUME TypeInv, NamedWhenLinked, NEW e \in Events, NEW nm,
         nm # NoName, dir[e] = "none",
         dir' = [dir EXCEPT ![e] = "pdq"], name' = [name EXCEPT ![e] = nm]
  PROVE  \/ Status[e] = "new" /\ Status' = [Status EXCEPT ![e] = "pending"]
         \/ \E others \in SUBSET Events :
              /\ Status[e] = "new"
              /\ others # {}
              /\ \A x \in others : Status[x] # "new"
              /\ Status' = [x \in Events |->
                              IF x \in others \cup {e} THEN "unclear" ELSE Status[x]]
<1> USE DEF TypeInv, DirTypes, QueueDirTypeOK
<1>1. name[e] = NoName /\ ~Published(e) /\ Status[e] = "new"
  BY StatusCases DEF NamedWhenLinked, Published
<1>2. /\ dir'[e] = "pdq" /\ name'[e] = nm /\ Published(e)'
      /\ \A x \in Events \ {e} : dir'[x] = dir[x] /\ name'[x] = name[x]
  BY DEF Published
<1> DEFINE others == {x \in Events : name[x] = nm}
<1>3. e \notin others /\ \A x \in others : Published(x)
  BY <1>1 DEF NamedWhenLinked, Published
<1>4. ASSUME NEW x \in Events \ {e}, x \notin others
      PROVE  Status'[x] = Status[x]
  <2>1. CASE ~Published(x)
    BY <1>2, <2>1, StatusCases, NextStatusCases DEF Published
  <2>2. CASE Published(x)
    <3>1. name[x] # nm /\ name[x] # NoName
      BY <1>4, <2>2 DEF NamedWhenLinked, Published
    <3>2. Reused(x)' <=> Reused(x)
      BY <1>1, <1>2, <3>1 DEF Reused
    <3> QED
      BY <1>2, <2>2, <3>2, StatusCases, NextStatusCases DEF Published
  <2> QED
    BY <2>1, <2>2
<1>5. CASE others = {}
  <2>1. ~Reused(e)'
    BY <1>2, <1>5 DEF Reused
  <2>2. Status'[e] = "pending"
    BY <1>2, <2>1, NextStatusCases DEF StatusOf
  <2>3. Status' = [Status EXCEPT ![e] = "pending"]
    BY <1>4, <1>5, <2>2, StatusIsFunction
  <2> QED
    BY <1>1, <2>3
<1>6. CASE others # {}
  <2>1. \A x \in others \cup {e} : Reused(x)' /\ Published(x)'
    BY <1>2, <1>3, <1>6 DEF Reused, Published
  <2>2. \A x \in others \cup {e} : Status'[x] = "unclear"
    BY <2>1, NextStatusCases
  <2>3. Status' = [x \in Events |->
                     IF x \in others \cup {e} THEN "unclear" ELSE Status[x]]
    BY <1>4, <2>2, StatusIsFunction
  <2>4. \A x \in others : Status[x] # "new"
    <3>1. ASSUME NEW x \in others PROVE Status[x] # "new"
      <4>1. x \in Events /\ Published(x) /\ dir[x] \in Places \ {"none"}
        BY <1>3 DEF Published
      <4> QED
        BY <4>1, StatusCases DEF StatusOf, Places
    <3> QED
      BY <3>1
  <2>5. others \in SUBSET Events
    OBVIOUS
  <2> QED
    BY <1>1, <1>6, <2>3, <2>4, <2>5
<1> QED
  BY <1>5, <1>6

-----------------------------------------------------------------------------
(* The steps of the queue as steps of Delivery *)

DeliveryStep == [Promise!DeliveryNext]_Promise!deliveryVars

\* the abstract actions, spelled out
LEMMA AbstractSteps ==
  ASSUME UNCHANGED accepted, NEW e \in Events, NEW from, NEW to,
         Status[e] = from, Status' = [Status EXCEPT ![e] = to],
         \/ from = "pending" /\ to = "sent" /\ e \in accepted
         \/ <<from, to>> \in {<<"new", "pending">>, <<"pending", "aside">>, <<"aside", "pending">>,
                              <<"aside", "gone">>, <<"sent", "gone">>}
  PROVE  DeliveryStep
<1>1. Promise!Becomes(e, from, to)
  BY DEF Promise!Becomes
<1>2. \/ Promise!Accept(e) \/ Promise!Send(e) \/ Promise!PutAside(e)
      \/ Promise!Retry(e) \/ Promise!Expire(e)
  BY <1>1 DEF Promise!Accept, Promise!Send, Promise!PutAside, Promise!Retry, Promise!Expire
<1> QED
  BY <1>2 DEF DeliveryStep, Promise!DeliveryNext

\* A step of an enqueue() accepts an event or does nothing.
LEMMA SenderKeepsPromise ==
  ASSUME LossInv, NEW e \in Events, Sender(e)
  PROVE  DeliveryStep
<1> USE DEF LossInv
<1>1. UNCHANGED accepted /\ SenderStep(e) /\ UNCHANGED clock
  BY DEF Sender, historyVars
<1>2. CASE UNCHANGED <<dir, name>>
  BY <1>1, <1>2, SameStatus DEF DeliveryStep, Promise!deliveryVars
<1>3. CASE ~UNCHANGED <<dir, name>>
  <2>1. \E nm : /\ dir[e] = "none" /\ nm # NoName
                /\ dir' = [dir EXCEPT ![e] = "pdq"] /\ name' = [name EXCEPT ![e] = nm]
    <3>1. CASE DropStray(e)
      <4>1. clock > 0
        BY ConstantTypes DEF TypeInv, DirTypes, QueueDirTypeOK
      <4>2. FileName(clock, NoKey) # NoName
        BY <4>1 DEF FileName, NoName
      <4> QED
        BY <3>1, <4>2 DEF DropStray, NamedWhenLinked
    <3>2. CASE LinkPdq(e)
      <4>1. stamp[e] + tries[e] > 0
        BY <3>2, ConstantTypes DEF LinkPdq, TypeInv, DirTypes, SenderTypeOK, TryingNames
      <4>2. NextName(e) # NoName
        BY <4>1 DEF NextName, FileName, NoName
      <4>3. dir[e] = "none"
        BY <3>2 DEF LinkPdq, NamedWhenLinked
      <4> QED
        BY <1>3, <3>2, <4>2, <4>3 DEF LinkPdq, TryNext, queueVars
    <3> QED
      BY <1>1, <1>3, <3>1, <3>2
      DEF SenderStep, EnqueueStep, StartEnqueue, OpenTmp, TryNext, WriteTmp, UnlinkTmp, KillSender, queueVars
  <2>2. \/ Status[e] = "new" /\ Status' = [Status EXCEPT ![e] = "pending"]
        \/ \E others \in SUBSET Events : Promise!Confuse(e, others)
    BY <1>1, <2>1, LinkStatus DEF Promise!Confuse
  <2>3. CASE Status[e] = "new" /\ Status' = [Status EXCEPT ![e] = "pending"]
    BY <1>1, <2>3, AbstractSteps
  <2> QED
    BY <2>2, <2>3 DEF DeliveryStep, Promise!DeliveryNext
<1> QED
  BY <1>2, <1>3

\* A step of an agent sends an event, has one acknowledged, puts one aside,
\* lets one expire, or does nothing.
LEMMA AgentKeepsPromise ==
  ASSUME LossInv, NEW a \in Agents, Start(a) \/ ThreadStep(a) \/ Stop(a) \/ Crash(a)
  PROVE  DeliveryStep
<1> USE DEF LossInv
<1>1. CASE RejectName(a)
  <2>1. UNCHANGED <<name, accepted>>
    BY <1>1 DEF RejectName, historyVars
  <2>2. CASE UNCHANGED dir
    BY <2>1, <2>2, SameStatus DEF DeliveryStep, Promise!deliveryVars
  <2>3. CASE Current(a) \in QueuedFiles("pdq") /\ Rename(Current(a), "pdq", "err")
    <3>1. \/ Status' = Status
          \/ \E e \in Events : /\ Status[e] = "pending"
                               /\ Status' = [Status EXCEPT ![e] = "aside"]
      BY <2>1, <2>3, RenameStatus DEF StatusOf
    <3>2. CASE Status' = Status
      BY <2>1, <3>2 DEF DeliveryStep, Promise!deliveryVars
    <3> QED
      BY <2>1, <3>1, <3>2, AbstractSteps
  <2> QED
    BY <1>1, <2>2, <2>3 DEF RejectName
<1>2. CASE MoveEvent(a)
  <2> DEFINE to == IF Code(a) = "CONSUMED" THEN "suc" ELSE "err"
  <2>1. UNCHANGED <<name, accepted>>
    BY <1>2 DEF MoveEvent, historyVars
  <2>2. CASE UNCHANGED dir
    BY <2>1, <2>2, SameStatus DEF DeliveryStep, Promise!deliveryVars
  <2>3. CASE Current(a) \in QueuedFiles("pdq") /\ Rename(Current(a), "pdq", to)
    <3>1. to \in {"suc", "err"} /\ to # "pdq"
      OBVIOUS
    <3>2. \/ Status' = Status
          \/ \E e \in Events : /\ name[e] = Current(a) /\ ~Reused(e)
                               /\ Status[e] = "pending"
                               /\ Status' = [Status EXCEPT ![e] = StatusOf[to]]
      <4> HIDE DEF to
      <4> QED
        BY <2>1, <2>3, <3>1, RenameStatus DEF StatusOf
    <3>3. CASE Status' = Status
      BY <2>1, <3>3 DEF DeliveryStep, Promise!deliveryVars
    <3>4. ASSUME NEW e \in Events, name[e] = Current(a), ~Reused(e), Status[e] = "pending",
                 Status' = [Status EXCEPT ![e] = StatusOf[to]]
          PROVE  DeliveryStep
      <4>1. CASE Code(a) = "CONSUMED"
        <5>1. /\ apc[a] = "answered" /\ pass[a].event \in Events /\ pass[a].event \in accepted
              /\ name[pass[a].event] = Current(a)
          BY <1>2, <4>1 DEF MoveEvent, InHand, TypeInv, Processed
        <5>2. e \in accepted
          BY <3>4, <5>1 DEF Reused
        <5> QED
          BY <2>1, <3>4, <4>1, <5>2, AbstractSteps DEF StatusOf
      <4>2. CASE Code(a) # "CONSUMED"
        BY <2>1, <3>4, <4>2, AbstractSteps DEF StatusOf
      <4> QED
        BY <4>1, <4>2
    <3> QED
      BY <3>2, <3>3, <3>4
  <2> QED
    BY <1>2, <2>2, <2>3 DEF MoveEvent
<1>3. CASE RemoveOld(a)
  <2>1. UNCHANGED <<name, accepted>>
    BY <1>3 DEF RemoveOld, historyVars
  <2>2. CASE UNCHANGED dir
    BY <2>1, <2>2, SameStatus DEF DeliveryStep, Promise!deliveryVars
  <2>3. CASE \E nm : Remove(nm, sweep[a].place) /\ sweep[a].place # "tmp"
    <3>1. sweep[a].place \in {"suc", "err"}
      BY <1>3, <2>3 DEF RemoveOld, TooOld
    <3>2. \/ Status' = Status
          \/ \E e \in Events : /\ Status[e] \in {"sent", "aside"}
                               /\ Status' = [Status EXCEPT ![e] = "gone"]
      BY <2>1, <2>3, <3>1, RemoveStatus DEF StatusOf
    <3>3. CASE Status' = Status
      BY <2>1, <3>3 DEF DeliveryStep, Promise!deliveryVars
    <3> QED
      BY <2>1, <3>2, <3>3, AbstractSteps
  <2> QED
    BY <1>3, <2>2, <2>3 DEF RemoveOld
<1>4. CASE SendEvent(a)
  <2>1. Status' = Status
    BY <1>4, SameStatus DEF SendEvent, queueVars
  <2> DEFINE e == pass[a].event
  <2>2. e \in Events /\ Published(e)
    BY <1>4 DEF SendEvent, InHand, TypeInv, Processed
  <2>3. accepted' = accepted \/ accepted' = accepted \cup {e}
    BY <1>4 DEF SendEvent
  <2>4. Status[e] # "new"
    <3>1. dir[e] \in Places \ {"none"}
      BY <2>2 DEF Published, TypeInv, DirTypes, QueueDirTypeOK
    <3> QED
      BY <2>2, <3>1, StatusCases DEF StatusOf, Places
  <2>5. CASE accepted' = accepted \cup {e}
    <3>1. Promise!Acknowledge(e)
      BY <2>1, <2>4, <2>5 DEF Promise!Acknowledge
    <3> QED
      BY <2>2, <3>1 DEF DeliveryStep, Promise!DeliveryNext
  <2> QED
    BY <2>1, <2>3, <2>5 DEF DeliveryStep, Promise!deliveryVars
<1>5. CASE UNCHANGED <<queueVars, accepted>>
  BY <1>5, SameStatus DEF DeliveryStep, Promise!deliveryVars, queueVars
<1> QED
  BY <1>1, <1>2, <1>3, <1>4, <1>5
  DEF historyVars, Start, Stop, Crash, Forget, ThreadStep, LoadCounters, Boot, Tick, PassStep, CleanupStep, Exit, AcquireLock,
         ListQueue, EndOfLoop, SkipEvent, ReadEvent, BackOff, StopAll,
         StoreBackoff, StoreCounters, ReleaseLock, BeginCleanup, NextPlace

\* A step of a retry command makes an event pending again, or does nothing.
LEMMA RetryKeepsPromise ==
  ASSUME LossInv, NEW r \in Retriers, RetryStep(r)
  PROVE  DeliveryStep
<1> USE DEF LossInv
<1>1. UNCHANGED <<name, accepted>>
  BY DEF RetryStep, RetryStart, RetryStore, RetryList, RetryMove, RetryEnd, queueVars, historyVars
<1>2. CASE UNCHANGED dir
  BY <1>1, <1>2, SameStatus DEF DeliveryStep, Promise!deliveryVars
<1>3. CASE \E nm \in QueuedFiles("err") : Rename(nm, "err", "pdq")
  <2>1. \/ Status' = Status
        \/ \E e \in Events : /\ Status[e] = "aside"
                             /\ Status' = [Status EXCEPT ![e] = "pending"]
    BY <1>1, <1>3, RenameStatus DEF StatusOf
  <2>2. CASE Status' = Status
    BY <1>1, <2>2 DEF DeliveryStep, Promise!deliveryVars
  <2> QED
    BY <1>1, <2>1, <2>2, AbstractSteps
<1> QED
  BY <1>2, <1>3 DEF RetryStep, RetryStart, RetryStore, RetryList, RetryMove, RetryEnd, queueVars

\* What is queued to begin with is pending, under a name of its own.
LEMMA PromiseInit == PDQueueInit => Promise!DeliveryInit
<1> SUFFICES ASSUME PDQueueInit PROVE Promise!DeliveryInit
  OBVIOUS
<1> USE DEF PDQueueInit, QueueDirInit, Queued
<1>1. accepted = {}
  OBVIOUS
<1>2. ASSUME NEW e \in Events, e \notin DOMAIN Backlog
      PROVE  Status[e] = "new"
  BY <1>2, StatusCases DEF Published
<1>3. ASSUME NEW e \in Events, e \in DOMAIN Backlog
      PROVE  Status[e] = "pending"
  <2>1. dir[e] = "pdq" /\ name[e] = FileName(Backlog[e], KeyOf[e])
    BY <1>3
  <2>2. ASSUME NEW x \in Events \ {e} PROVE name[x] # name[e]
    <3>1. CASE x \in DOMAIN Backlog
      <4>1. name[x] = FileName(Backlog[x], KeyOf[x])
        BY <3>1
      <4> QED
        BY <1>3, <2>1, <3>1, <4>1, QueueDirAssumption DEF FileName
    <3>2. CASE x \notin DOMAIN Backlog
      <4>1. name[x] = NoName /\ Backlog[e] > 0
        BY <1>3, <3>2, QueueDirAssumption
      <4> QED
        BY <2>1, <4>1 DEF FileName, NoName
    <3> QED
      BY <3>1, <3>2
  <2>3. Published(e) /\ ~Reused(e)
    BY <2>1, <2>2 DEF Published, Reused
  <2> QED
    BY <2>1, <2>3, StatusCases DEF StatusOf
<1>4. Status = [e \in Events |-> IF e \in DOMAIN Backlog THEN "pending" ELSE "new"]
  BY <1>2, <1>3, StatusIsFunction
<1> QED
  BY <1>1, <1>4 DEF Promise!DeliveryInit

\* The queue implements Delivery: an event that was accepted is pending until
\* it is sent, which takes an acknowledgement by the Events API, or put aside,
\* unless its name is used again; with any number of agents, enqueuers and
\* retry commands, with kills, failing writes and cleanup() at any time.
THEOREM QueueKeepsPromise == Spec => KeepsPromise
<1>1. PDQueueInit => LossInv /\ Promise!DeliveryInit
  BY LossInit, PromiseInit
<1>2. LossInv /\ [Next]_vars => LossInv' /\ DeliveryStep
  <2> SUFFICES ASSUME LossInv, [Next]_vars
               PROVE  LossInv' /\ DeliveryStep
    OBVIOUS
  <2>1. LossInv'
    BY LossStep
  <2>2. CASE Clock \/ UNCHANGED vars
    <3>1. UNCHANGED <<dir, name, accepted>>
      BY <2>2 DEF Clock, vars, queueVars, historyVars
    <3> QED
      BY <2>1, <3>1, SameStatus DEF DeliveryStep, Promise!deliveryVars
  <2> QED
    BY <2>1, <2>2, SenderKeepsPromise, AgentKeepsPromise, RetryKeepsPromise DEF Next
<1>3. DeliveryStep <=> [Promise!DeliveryNext]_(Promise!deliveryVars)
  BY DEF DeliveryStep
<1> QED
  BY <1>1, <1>2, <1>3, PTL DEF Spec, KeepsPromise, Promise!DeliverySpec
=============================================================================
