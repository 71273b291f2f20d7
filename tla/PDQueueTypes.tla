---------------------------- MODULE PDQueueTypes -----------------------------
(***************************************************************************)
(* The types of PDQueue: TypeOK holds for any number of events, keys,      *)
(* agents and retry commands.  The lock's part comes from FileLockProofs:  *)
(* every step of the queue is a step of the lock or leaves it alone.       *)
(***************************************************************************)
EXTENDS PDQueue, WellFoundedInduction, TLAPS

LockP == INSTANCE FileLockProofs WITH Procs <- Agents, MayCrash <- (Crashes > 0)

-----------------------------------------------------------------------------
(* The order of file names is an order with a first element *)

\* A nonempty set of natural numbers has a least element.
LEMMA LeastNumber ==
  ASSUME NEW T, T \subseteq Nat, T # {}
  PROVE  \E x \in T : \A y \in T : x <= y
<1>1. PICK x \in T : \A y \in T : <<y, x>> \notin OpToRel(<, Nat)
  BY NatLessThanWellFounded, WFMin
<1>2. ASSUME NEW y \in T
      PROVE  x <= y
  <2>1. ~(y < x)
    BY <1>1 DEF OpToRel
  <2> QED
    BY <2>1
<1> QED
  BY <1>2

\* sorted(os.listdir(..)) has a first name: First() returns one of the names
\* it is given, and no name comes before it.
LEMMA FirstIsLeast ==
  ASSUME NEW nms, nms \subseteq Names, nms # {}
  PROVE  /\ First(nms) \in nms
         /\ \A b \in nms \ {First(nms)} : Before(First(nms), b)
<1> DEFINE Stamps == {StampOf(nm) : nm \in nms}
<1>0. \A nm \in nms : StampOf(nm) \in Nat /\ SvcKey(nm) \in Nat /\ nm = <<StampOf(nm), SvcKey(nm)>>
  <2>1. Keys \cup {NoKey} \subseteq Nat
    BY QueueDirAssumption DEF NoKey
  <2>2. ASSUME NEW nm \in nms
        PROVE  /\ nm[1] \in Nat /\ nm[2] \in Keys \cup {NoKey}
               /\ nm = <<nm[1], nm[2]>>
    <3>1. nm \in Nat \X (Keys \cup {NoKey})
      BY DEF Names
    <3> QED
      BY <3>1
  <2> QED
    BY <2>1, <2>2 DEF StampOf, SvcKey
<1>1. PICK s \in Stamps : \A t \in Stamps : s <= t
  BY <1>0, LeastNumber
<1> DEFINE Ks == {SvcKey(nm) : nm \in {x \in nms : StampOf(x) = s}}
<1>2. PICK k \in Ks : \A l \in Ks : k <= l
  <2>1. Ks \subseteq Nat /\ Ks # {}
    BY <1>0, <1>1
  <2> QED
    BY <2>1, LeastNumber
<1>3. PICK a \in nms : StampOf(a) = s /\ SvcKey(a) = k
  BY <1>2
<1>4. ASSUME NEW b \in nms \ {a}
      PROVE  Before(a, b)
  <2>1. s <= StampOf(b) /\ s \in Nat /\ k \in Nat
    BY <1>0, <1>1, <1>3
  <2>2. CASE s = StampOf(b)
    <3>1. k <= SvcKey(b)
      BY <1>2, <2>2
    <3>2. k # SvcKey(b)
      BY <1>0, <1>3, <2>2
    <3> QED
      BY <1>0, <1>3, <2>1, <2>2, <3>1, <3>2 DEF Before
  <2>3. CASE s # StampOf(b)
    BY <1>0, <1>3, <2>1, <2>3 DEF Before
  <2> QED
    BY <2>2, <2>3
<1> QED
  BY <1>4 DEF First

-----------------------------------------------------------------------------
(* Types *)

\* The bounds and keys are numbers, in the order the code needs them.
LEMMA ConstantTypes ==
  /\ StartTime \in Nat \ {0} /\ MaxTime \in Nat /\ StartTime <= MaxTime
  /\ MaxTries \in Nat \ {0} /\ Kills \in Nat
  /\ Keys \subseteq Nat \ {0} /\ KeyOf \in [Events -> Keys \cup {NoKey}]
  BY QueueDirAssumption, EnqueueAssumption DEF NoKey

\* Every name that is made of a time and a service key is a name.
LEMMA NameTypes ==
  /\ NoName \in Names
  /\ \A t \in Nat, k \in Keys \cup {NoKey} : FileName(t, k) \in Names
  BY DEF Names, NoName, FileName

\* A name that _get_event_metadata() accepts has a service key.
LEMMA SvcKeyType ==
  ASSUME NEW nm \in Names, ~BadFileName(nm)
  PROVE  SvcKey(nm) \in Keys
  BY DEF Names, BadFileName, SvcKey

\* os.rename() leaves every file in one of the subdirectories, or gone.
LEMMA RenameType ==
  ASSUME dir \in [Events -> Places], NEW nm, NEW from \in Places, NEW to \in Places,
         Rename(nm, from, to)
  PROVE  dir' \in [Events -> Places]
  BY DEF Rename, Places

\* So does os.remove().
LEMMA RemoveType ==
  ASSUME dir \in [Events -> Places], NEW nm, NEW place \in Places, Remove(nm, place)
  PROVE  dir' \in [Events -> Places]
  BY DEF Remove, Places

\* The operations of _BackoffInfo return back-off states.
LEMMA BackoffTypes ==
  /\ Bo!NoInfo \in Bo!BackoffInfos /\ Bo!EmptyDb \in Bo!BackoffDbs
  /\ \A b \in Bo!BackoffInfos, t \in Nat : Bo!Update(b, t) \in Bo!BackoffInfos
  /\ \A db \in Bo!BackoffDbs, t \in Nat : Bo!Load(db, t) \in Bo!BackoffInfos
  /\ \A b \in Bo!BackoffInfos : Bo!ToDb(b) \in Bo!BackoffDbs
  /\ \A b \in Bo!BackoffInfos, k \in Keys, t \in Nat :
       Bo!Increment(b, k, t) \in Bo!BackoffInfos
<1> USE DEF Bo!BackoffInfos, Bo!BackoffDbs, Bo!NoInfo, Bo!EmptyDb, Bo!NoEntries, Bo!Update
<1>1. BackoffInterval \in Nat
  BY PDQueueAssumption
<1>2. \A b \in Bo!BackoffInfos, t \in Nat : Bo!Update(b, t) \in Bo!BackoffInfos
  OBVIOUS
<1>3. \A db \in Bo!BackoffDbs, t \in Nat : Bo!Load(db, t) \in Bo!BackoffInfos
  BY DEF Bo!Load
<1>4. \A b \in Bo!BackoffInfos : Bo!ToDb(b) \in Bo!BackoffDbs
  BY DEF Bo!ToDb
<1>5. ASSUME NEW b \in Bo!BackoffInfos, NEW k \in Keys, NEW t \in Nat
      PROVE  Bo!Increment(b, k, t) \in Bo!BackoffInfos
  BY <1>1 DEF Bo!Increment
<1> QED
  BY <1>2, <1>3, <1>4, <1>5

\* A running enqueue() has names left to try, and has read the time.
TryingNames ==
  \A e \in Events :
    /\ spc[e] \in {"idle", "open", "link"} => tries[e] < MaxTries
    /\ spc[e] \in {"open", "write", "link"} => stamp[e] > 0

\* The event that is being processed has a parsable name.
Processed ==
  \A a \in Agents : apc[a] \in {"send", "answered"} =>
    /\ pass[a].event \in Events
    /\ Current(a) \in Names
    /\ ~BadFileName(Current(a))

DirTypes == QueueDirTypeOK /\ SenderTypeOK /\ TryingNames

\* A step of an enqueue() keeps the types of the queue directory.
LEMMA SenderTypes ==
  ASSUME DirTypes, NEW e \in Events, SenderStep(e), UNCHANGED clock
  PROVE  DirTypes'
<1>8. FileName(clock, NoKey) \in Names
  <2>1. clock \in Nat
    BY ConstantTypes DEF DirTypes, QueueDirTypeOK
  <2> QED
    BY <2>1, NameTypes
<1> USE ConstantTypes, NameTypes
    DEF DirTypes, QueueDirTypeOK, SenderTypeOK, SenderStates, Places, Contents, TryingNames
<1>1. CASE DropStray(e)
  BY <1>1, <1>8 DEF DropStray
<1>2. CASE StartEnqueue(e)
  BY <1>2 DEF StartEnqueue, queueVars
<1>0. NextName(e) \in Names
  <2>1. stamp[e] + tries[e] \in Nat /\ KeyOf[e] \in Keys \cup {NoKey}
    OBVIOUS
  <2> QED
    BY <2>1 DEF NextName
<1>3. CASE OpenTmp(e)
  <2>1. CASE NextName(e) \in TmpFiles
    BY <1>3, <2>1 DEF OpenTmp, TryNext, queueVars
  <2>2. CASE NextName(e) \notin TmpFiles
    BY <1>0, <1>3, <2>2 DEF OpenTmp
  <2> QED BY <2>1, <2>2
<1>4. CASE WriteTmp(e)
  BY <1>4 DEF WriteTmp
<1>5. CASE LinkPdq(e)
  BY <1>0, <1>5 DEF LinkPdq, TryNext, queueVars
<1>6. CASE UnlinkTmp(e)
  BY <1>6 DEF UnlinkTmp, queueVars
<1>7. CASE KillSender(e)
  BY <1>7 DEF KillSender, Running, queueVars
<1> QED
  BY <1>1, <1>2, <1>3, <1>4, <1>5, <1>6, <1>7 DEF SenderStep, EnqueueStep

TaskTypes == TaskTypeOK /\ StoreTypeOK /\ RetryTypeOK /\ HistoryTypeOK

\* Updates of the counters and of the budget keep their types.
LEMMA RecordTypes ==
  /\ NoPass \in PassRecords /\ NoSweep \in SweepRecords /\ NoCount \in CountRecords
  /\ \A c \in CountRecords :
       [c EXCEPT !.suc = @ + 1] \in CountRecords /\ [c EXCEPT !.err = @ + 1] \in CountRecords
  /\ \A b \in Budgets :
       /\ b.crash > 0 => [b EXCEPT !.crash = @ - 1] \in Budgets
       /\ b.stop > 0 => [b EXCEPT !.stop = @ - 1] \in Budgets
       /\ b.fault > 0 => [b EXCEPT !.fault = @ - 1] \in Budgets
  BY DEF PassRecords, SweepRecords, CountRecords, Budgets, NoPass, NoSweep, NoCount

\* So do the start, the stop and the end of an agent.
LEMMA LifeTypes ==
  ASSUME DirTypes, TaskTypes, NEW a \in Agents,
         Start(a) \/ LoadCounters(a) \/ Boot(a) \/ Stop(a) \/ Exit(a) \/ Crash(a)
  PROVE  TaskTypes'
<1> USE ConstantTypes, BackoffTypes, RecordTypes
    DEF TaskTypes, TaskTypeOK, StoreTypeOK, RetryTypeOK, HistoryTypeOK,
        AgentStates, Goto, InPass, taskVars, dbVars, retryVars, historyVars
<1>0. clock \in Nat
  BY DEF DirTypes, QueueDirTypeOK
<1>1. CASE Start(a)
  <2>1. Bo!Load(bodb, clock) \in Bo!BackoffInfos
    BY <1>0
  <2> QED
    BY <1>1, <2>1 DEF Start
<1>2. CASE Boot(a)
  <2>1. CASE cntdb' = cnt[a] /\ UNCHANGED <<cnt, budget>>
    BY <1>2, <2>1 DEF Boot
  <2>2. CASE Fault /\ cnt' = [cnt EXCEPT ![a] = NoCount] /\ UNCHANGED cntdb
    BY <1>2, <2>2 DEF LoadCounters, Boot, Fault
  <2> QED
    BY <1>2, <2>1, <2>2 DEF Boot
<1>3. CASE Stop(a)
  BY <1>3 DEF Stop
<1>4. CASE Exit(a)
  BY <1>4 DEF Exit, Forget
<1>5. CASE Crash(a)
  BY <1>5 DEF Crash, Forget
<1>6. CASE LoadCounters(a)
  BY <1>6 DEF LoadCounters
<1> QED
  BY <1>1, <1>2, <1>3, <1>4, <1>5, <1>6

\* The fields of the locals of _process_queue(), and updates of them.
LEMMA PassTypes ==
  ASSUME NEW p \in PassRecords
  PROVE  /\ p.listing \subseteq Names /\ p.left \subseteq Names /\ p.now \in Nat
         /\ p.errKeys \subseteq Keys
         /\ \A nms \in SUBSET p.left : [p EXCEPT !.left = nms] \in PassRecords
         /\ \A e \in Events : [p EXCEPT !.event = e] \in PassRecords
         /\ \A c \in ConsumeCodes : [p EXCEPT !.code = c] \in PassRecords
         /\ [p EXCEPT !.event = NoEvent, !.code = "none"] \in PassRecords
         /\ \A e \in Events : [p EXCEPT !.event = e, !.code = "BAD_ENTRY"] \in PassRecords
         /\ \A k \in Keys : [p EXCEPT !.errKeys = @ \cup {k}] \in PassRecords
  BY DEF PassRecords, ConsumeCodes

\* The steps of a flush outside its loop keep the agents' types.
LEMMA StoreTypes ==
  ASSUME DirTypes, TaskTypes, NEW a \in Agents,
         Tick(a) \/ AcquireLock(a) \/ EndOfLoop(a) \/ StopAll(a) \/ StoreBackoff(a) \/ StoreCounters(a) \/ ReleaseLock(a)
  PROVE  TaskTypes'
<1> USE ConstantTypes, BackoffTypes, RecordTypes
    DEF TaskTypes, TaskTypeOK, StoreTypeOK, RetryTypeOK, HistoryTypeOK,
        AgentStates, Goto, InPass, taskVars, dbVars, retryVars, historyVars
<1>0. clock \in Nat
  BY DEF DirTypes, QueueDirTypeOK
<1>1. CASE Tick(a)
  BY <1>1 DEF Tick
<1>2. CASE AcquireLock(a)
  BY <1>2 DEF AcquireLock
<1>3. CASE EndOfLoop(a)
  BY <1>3 DEF EndOfLoop
<1>4. CASE StopAll(a)
  BY <1>4 DEF StopAll
<1>5. CASE StoreBackoff(a)
  <2>1. CASE bodb' = Bo!ToDb(bo[a]) /\ UNCHANGED budget
    BY <1>5, <2>1 DEF StoreBackoff
  <2>2. CASE Fault /\ UNCHANGED bodb
    BY <1>5, <2>2 DEF StoreBackoff, Fault
  <2> QED
    BY <1>5, <2>1, <2>2 DEF StoreBackoff
<1>6. CASE StoreCounters(a)
  <2>1. CASE cntdb' = cnt[a] /\ UNCHANGED budget
    BY <1>6, <2>1 DEF StoreCounters
  <2>2. CASE Fault /\ UNCHANGED cntdb
    BY <1>6, <2>2 DEF StoreCounters, Fault
  <2> QED
    BY <1>6, <2>1, <2>2 DEF StoreCounters
<1>7. CASE ReleaseLock(a)
  BY <1>7 DEF ReleaseLock
<1> QED
  BY <1>1, <1>2, <1>3, <1>4, <1>5, <1>6, <1>7

\* A listing holds names.
LEMMA FilesAreNames ==
  ASSUME DirTypes
  PROVE  /\ \A place : QueuedFiles(place) \subseteq Names
         /\ TmpFiles \subseteq Names
  BY DEF DirTypes, QueueDirTypeOK, SenderTypeOK, QueuedFiles, TmpFiles

\* A listed name is the name of some event's file in that subdirectory.
LEMMA FileOfType ==
  ASSUME NEW place, NEW nm \in QueuedFiles(place)
  PROVE  /\ FileOf(place, nm) \in Events
         /\ name[FileOf(place, nm)] = nm
         /\ dir[FileOf(place, nm)] = place
  BY DEF FileOf, QueuedFiles

\* The part of the types that an iteration of _process_queue() touches.
LoopTypeOK ==
  /\ apc \in [Agents -> AgentStates]
  /\ bo \in [Agents -> Bo!BackoffInfos]
  /\ cnt \in [Agents -> CountRecords]
  /\ pass \in [Agents -> PassRecords]

\* A step that keeps the types of the loop's state and leaves the rest alone
\* keeps the types.
LEMMA LoopFrame ==
  ASSUME TaskTypes, LoopTypeOK',
         UNCHANGED <<stopping, cleaned, sweep, dbVars, budget, retryVars>>, HistoryTypeOK'
  PROVE  TaskTypes'
  BY DEF LoopTypeOK, TaskTypes, TaskTypeOK, StoreTypeOK, RetryTypeOK, dbVars, retryVars

\* The next iteration's locals have their type.
LEMMA Iterations ==
  ASSUME TaskTypes, NEW a \in Agents
  PROVE  NextIteration(a) \in PassRecords /\ Done(a) \in PassRecords
<1>1. pass[a] \in PassRecords
  BY DEF TaskTypes, TaskTypeOK
<1>2. NextIteration(a) \in PassRecords
  BY <1>1, PassTypes DEF NextIteration
<1> QED
  BY <1>2, PassTypes DEF Done

\* An exception leaves the locals typed.
LEMMA RaiseTypes ==
  ASSUME TaskTypes, NEW a \in Agents, Raise(a)
  PROVE  apc' \in [Agents -> AgentStates] /\ pass' \in [Agents -> PassRecords]
  BY RecordTypes DEF Raise, Goto, InPass, TaskTypes, TaskTypeOK, AgentStates

\* Skipping an event.
LEMMA SkipEventTypes ==
  ASSUME DirTypes, TaskTypes, NEW a \in Agents, SkipEvent(a)
  PROVE  TaskTypes'
<1> USE DEF TaskTypes, TaskTypeOK
<1>1. apc' \in [Agents -> AgentStates]
  BY DEF SkipEvent
<1>2. bo' \in [Agents -> Bo!BackoffInfos]
  BY DEF SkipEvent
<1>3. cnt' \in [Agents -> CountRecords]
  BY DEF SkipEvent
<1>4. pass' \in [Agents -> PassRecords]
  BY Iterations DEF SkipEvent, InPass
<1>8. LoopTypeOK'
  BY <1>1, <1>2, <1>3, <1>4 DEF LoopTypeOK
<1>9. UNCHANGED <<stopping, cleaned, sweep, dbVars, budget, retryVars>>
  BY DEF SkipEvent
<1>10. HistoryTypeOK'
  BY DEF SkipEvent, historyVars, HistoryTypeOK
<1> QED
  BY <1>8, <1>9, <1>10, LoopFrame

\* Rejecting a bad name.
LEMMA RejectNameTypes ==
  ASSUME DirTypes, TaskTypes, NEW a \in Agents, RejectName(a)
  PROVE  TaskTypes'
<1> USE DEF TaskTypes, TaskTypeOK
<1>1. apc' \in [Agents -> AgentStates]
  BY RaiseTypes DEF RejectName
<1>2. bo' \in [Agents -> Bo!BackoffInfos]
  BY DEF RejectName
<1>3. cnt' \in [Agents -> CountRecords]
  BY DEF RejectName
<1>4. pass' \in [Agents -> PassRecords]
  BY Iterations, RaiseTypes DEF RejectName, InPass
<1>8. LoopTypeOK'
  BY <1>1, <1>2, <1>3, <1>4 DEF LoopTypeOK
<1>9. UNCHANGED <<stopping, cleaned, sweep, dbVars, budget, retryVars>>
  BY DEF RejectName
<1>10. HistoryTypeOK'
  BY DEF RejectName, historyVars, HistoryTypeOK
<1> QED
  BY <1>8, <1>9, <1>10, LoopFrame

\* Reading an event.
LEMMA ReadEventTypes ==
  ASSUME DirTypes, TaskTypes, NEW a \in Agents, ReadEvent(a)
  PROVE  TaskTypes'
<1> USE DEF TaskTypes, TaskTypeOK
<1>1. apc' \in [Agents -> AgentStates]
  BY RaiseTypes DEF ReadEvent, Goto, AgentStates
<1>2. bo' \in [Agents -> Bo!BackoffInfos]
  BY DEF ReadEvent
<1>3. cnt' \in [Agents -> CountRecords]
  BY DEF ReadEvent
<1>4. pass' \in [Agents -> PassRecords]
  <2>1. CASE Current(a) \in QueuedFiles("pdq")
    <3> DEFINE e == FileOf("pdq", Current(a))
    <3>1. e \in Events
      BY <2>1, FileOfType
    <3>2. /\ [pass[a] EXCEPT !.event = e, !.code = "BAD_ENTRY"] \in PassRecords
          /\ [pass[a] EXCEPT !.event = e] \in PassRecords
      BY <3>1, PassTypes
    <3> QED
      BY <2>1, <3>2 DEF ReadEvent, InPass
  <2>2. CASE Current(a) \notin QueuedFiles("pdq")
    BY <2>2, RaiseTypes DEF ReadEvent
  <2> QED
    BY <2>1, <2>2
<1>8. LoopTypeOK'
  BY <1>1, <1>2, <1>3, <1>4 DEF LoopTypeOK
<1>9. UNCHANGED <<stopping, cleaned, sweep, dbVars, budget, retryVars>>
  BY DEF ReadEvent
<1>10. HistoryTypeOK'
  BY DEF ReadEvent, historyVars, HistoryTypeOK
<1> QED
  BY <1>8, <1>9, <1>10, LoopFrame

\* Putting an event away.
LEMMA MoveEventTypes ==
  ASSUME DirTypes, TaskTypes, NEW a \in Agents, MoveEvent(a)
  PROVE  TaskTypes'
<1> USE DEF TaskTypes, TaskTypeOK
<1>1. apc' \in [Agents -> AgentStates]
  BY RaiseTypes DEF MoveEvent, Goto, AgentStates
<1>2. bo' \in [Agents -> Bo!BackoffInfos]
  BY DEF MoveEvent
<1>3. cnt' \in [Agents -> CountRecords]
  <2>1. /\ [cnt[a] EXCEPT !.suc = @ + 1] \in CountRecords
        /\ [cnt[a] EXCEPT !.err = @ + 1] \in CountRecords
    BY RecordTypes
  <2>2. \/ UNCHANGED cnt
        \/ cnt' = [cnt EXCEPT ![a] = [cnt[a] EXCEPT !.suc = @ + 1]]
        \/ cnt' = [cnt EXCEPT ![a] = [cnt[a] EXCEPT !.err = @ + 1]]
    BY DEF MoveEvent
  <2> QED
    BY <2>1, <2>2
<1>4. pass' \in [Agents -> PassRecords]
  BY Iterations, RaiseTypes DEF MoveEvent, InPass
<1>8. LoopTypeOK'
  BY <1>1, <1>2, <1>3, <1>4 DEF LoopTypeOK
<1>9. UNCHANGED <<stopping, cleaned, sweep, dbVars, budget, retryVars>>
  BY DEF MoveEvent
<1>10. HistoryTypeOK'
  BY DEF MoveEvent, historyVars, HistoryTypeOK
<1> QED
  BY <1>8, <1>9, <1>10, LoopFrame

\* Listing the queue.
LEMMA ListQueueTypes ==
  ASSUME DirTypes, TaskTypes, NEW a \in Agents, ListQueue(a)
  PROVE  TaskTypes'
<1> USE DEF TaskTypes, TaskTypeOK
<1>0. clock \in Nat
  BY ConstantTypes DEF DirTypes, QueueDirTypeOK
<1>1. apc' \in [Agents -> AgentStates]
  BY RaiseTypes DEF ListQueue, Goto, AgentStates
<1>2. bo' \in [Agents -> Bo!BackoffInfos]
  <2>1. Bo!Update(bo[a], clock) \in Bo!BackoffInfos
    BY <1>0, BackoffTypes
  <2>2. UNCHANGED bo \/ bo' = [bo EXCEPT ![a] = Bo!Update(bo[a], clock)]
    BY DEF ListQueue
  <2> QED
    BY <2>1, <2>2
<1>3. cnt' \in [Agents -> CountRecords]
  BY DEF ListQueue
<1>4. pass' \in [Agents -> PassRecords]
  <2> DEFINE queued == QueuedFiles("pdq")
  <2>1. CASE queued = {}
    BY <2>1, RaiseTypes DEF ListQueue
  <2>2. CASE queued # {}
    <3>1. queued \subseteq Names /\ First(queued) \in Names
      BY <2>2, FilesAreNames, FirstIsLeast
    <3>2. PICK p \in Passes :
            LET nms == IF p = "flush" THEN queued ELSE {First(queued)} IN
            InPass(a, [listing |-> nms, left |-> nms, now |-> clock,
                       errKeys |-> {}, event |-> NoEvent, code |-> "none"])
      BY <2>2 DEF ListQueue
    <3> DEFINE nms == IF p = "flush" THEN queued ELSE {First(queued)}
    <3>3. nms \subseteq Names
      BY <3>1
    <3> HIDE DEF nms
    <3>4. [listing |-> nms, left |-> nms, now |-> clock,
           errKeys |-> {}, event |-> NoEvent, code |-> "none"] \in PassRecords
      BY <1>0, <3>3 DEF PassRecords
    <3> QED
      BY <3>2, <3>4 DEF InPass, nms
  <2> QED
    BY <2>1, <2>2
<1>8. LoopTypeOK'
  BY <1>1, <1>2, <1>3, <1>4 DEF LoopTypeOK
<1>9. UNCHANGED <<stopping, cleaned, sweep, dbVars, budget, retryVars>>
  BY DEF ListQueue
<1>10. HistoryTypeOK'
  BY DEF ListQueue, historyVars, HistoryTypeOK
<1> QED
  BY <1>8, <1>9, <1>10, LoopFrame

\* Sending an event: the answer is counted.
LEMMA SendEventTypes ==
  ASSUME DirTypes, TaskTypes, Processed, NEW a \in Agents, SendEvent(a)
  PROVE  TaskTypes'
<1> USE DEF TaskTypes, TaskTypeOK
<1>0. PICK answer : /\ ConsumeCode(answer) # "RAISES" =>
                      /\ Goto(a, "answered")
                      /\ InPass(a, [pass[a] EXCEPT !.code = ConsumeCode(answer)])
                    /\ ConsumeCode(answer) = "RAISES" => Raise(a)
  BY DEF SendEvent
<1>5. ConsumeCode(answer) # "RAISES" => ConsumeCode(answer) \in ConsumeCodes
  BY DEF ConsumeCode, ConsumeCodes
<1>1. apc' \in [Agents -> AgentStates]
  BY <1>0, RaiseTypes DEF Goto, AgentStates
<1>2. bo' \in [Agents -> Bo!BackoffInfos]
  BY DEF SendEvent
<1>3. cnt' \in [Agents -> CountRecords]
  BY DEF SendEvent
<1>4. pass' \in [Agents -> PassRecords]
  <2>1. CASE ConsumeCode(answer) = "RAISES"
    BY <1>0, <2>1, RaiseTypes
  <2>2. CASE ConsumeCode(answer) # "RAISES"
    <3>1. [pass[a] EXCEPT !.code = ConsumeCode(answer)] \in PassRecords
      BY <1>5, <2>2, PassTypes
    <3> QED
      BY <1>0, <2>2, <3>1 DEF InPass
  <2> QED
    BY <2>1, <2>2
<1>8. LoopTypeOK'
  BY <1>1, <1>2, <1>3, <1>4 DEF LoopTypeOK
<1>9. UNCHANGED <<stopping, cleaned, sweep, dbVars, budget, retryVars>>
  BY DEF SendEvent
<1>10. HistoryTypeOK'
  <2>1. pass[a].event \in Events
    BY DEF SendEvent, Processed
  <2>2. accepted' \subseteq Events
    BY <2>1 DEF SendEvent, HistoryTypeOK
  <2>3. errors' \in [Events -> Nat]
    BY <2>1 DEF SendEvent, HistoryTypeOK
  <2>4. setbacks' \in [Keys -> Nat]
    <3>1. \/ UNCHANGED setbacks
          \/ setbacks' = [setbacks EXCEPT ![SvcKey(Current(a))] = @ + 1]
      BY DEF SendEvent
    <3>2. SvcKey(Current(a)) \in Keys
      BY SvcKeyType DEF SendEvent, Processed
    <3> QED
      BY <3>1, <3>2 DEF HistoryTypeOK
  <2>5. notBefore' \in [Keys -> Nat]
    BY DEF SendEvent, HistoryTypeOK
  <2> QED
    BY <2>2, <2>3, <2>4, <2>5 DEF HistoryTypeOK
<1> QED
  BY <1>8, <1>9, <1>10, LoopFrame

\* Backing off.
LEMMA BackOffTypes ==
  ASSUME DirTypes, TaskTypes, Processed, NEW a \in Agents, BackOff(a)
  PROVE  TaskTypes'
<1> USE DEF TaskTypes, TaskTypeOK
<1>0. clock \in Nat /\ SvcKey(Current(a)) \in Keys
  BY ConstantTypes, SvcKeyType DEF DirTypes, QueueDirTypeOK, Processed, BackOff
<1>1. apc' \in [Agents -> AgentStates]
  BY DEF BackOff, Goto, AgentStates
<1>2. bo' \in [Agents -> Bo!BackoffInfos]
  <2>1. Bo!Increment(bo[a], SvcKey(Current(a)), clock) \in Bo!BackoffInfos
    BY <1>0, BackoffTypes
  <2> QED
    BY <2>1 DEF BackOff
<1>3. cnt' \in [Agents -> CountRecords]
  BY DEF BackOff
<1>4. pass' \in [Agents -> PassRecords]
  <2>1. Done(a) \in PassRecords
    BY Iterations
  <2>2. [Done(a) EXCEPT !.errKeys = @ \cup {SvcKey(Current(a))}] \in PassRecords
    BY <1>0, <2>1, PassTypes
  <2> QED
    BY <2>2 DEF BackOff, InPass
<1>8. LoopTypeOK'
  BY <1>1, <1>2, <1>3, <1>4 DEF LoopTypeOK
<1>9. UNCHANGED <<stopping, cleaned, sweep, dbVars, budget, retryVars>>
  BY DEF BackOff
<1>10. HistoryTypeOK'
  <2>1. BackoffInterval \in Nat
    BY PDQueueAssumption
  <2> QED
    BY <1>0, <2>1 DEF BackOff, HistoryTypeOK
<1> QED
  BY <1>8, <1>9, <1>10, LoopFrame

\* cleanup() turns to the next directory.
LEMMA SweepTypes ==
  ASSUME DirTypes, TaskTypes, NEW a \in Agents, NEW place \in {"err", "tmp", "suc"},
         NEW before \in Nat, Sweep(a, place, before)
  PROVE  sweep' \in [Agents -> SweepRecords]
<1>1. OldFiles(place, before) \subseteq Names
  BY FilesAreNames DEF OldFiles
<1>2. [place |-> place, before |-> before, doomed |-> OldFiles(place, before)] \in SweepRecords
  BY <1>1 DEF SweepRecords
<1> QED
  BY <1>2 DEF Sweep, TaskTypes, TaskTypeOK

\* The steps of cleanup() keep the agents' types.
LEMMA CleanupTypes ==
  ASSUME DirTypes, TaskTypes, NEW a \in Agents, CleanupStep(a)
  PROVE  TaskTypes'
<1> USE DEF TaskTypes, TaskTypeOK
<1>1. clock \in Nat /\ clock - CleanupAge \in Nat
  BY ConstantTypes, PDQueueAssumption DEF DirTypes, QueueDirTypeOK
<1>2. sweep[a] \in SweepRecords
  OBVIOUS
<1>3. apc' \in [Agents -> AgentStates]
  BY DEF CleanupStep, BeginCleanup, RemoveOld, NextPlace, Goto, AgentStates
<1>4. cleaned' \in [Agents -> Nat]
  BY <1>1 DEF CleanupStep, BeginCleanup, RemoveOld, NextPlace
<1>5. sweep' \in [Agents -> SweepRecords]
  <2>1. CASE BeginCleanup(a)
    <3>1. CASE clock - cleaned[a] >= CleanupInterval
      BY <1>1, <2>1, <3>1, SweepTypes DEF BeginCleanup
    <3>2. CASE ~(clock - cleaned[a] >= CleanupInterval)
      BY <2>1, <3>2 DEF BeginCleanup
    <3> QED
      BY <3>1, <3>2
  <2>2. CASE RemoveOld(a)
    <3>1. \A nm : [sweep[a] EXCEPT !.doomed = @ \ {nm}] \in SweepRecords
      BY <1>2 DEF SweepRecords
    <3> QED
      BY <2>2, <3>1 DEF RemoveOld
  <2>3. CASE NextPlace(a)
    <3>1. CASE sweep[a].place = "suc"
      BY <2>3, <3>1, RecordTypes DEF NextPlace
    <3>2. CASE sweep[a].place # "suc"
      <4>1. sweep[a].before \in Nat
        BY <1>2 DEF SweepRecords
      <4> QED
        BY <2>3, <3>2, <4>1, SweepTypes DEF NextPlace
    <3> QED
      BY <3>1, <3>2
  <2> QED
    BY <2>1, <2>2, <2>3 DEF CleanupStep
<1>6. UNCHANGED <<stopping, bo, cnt, pass, dbVars, budget, retryVars, historyVars>>
  BY DEF CleanupStep, BeginCleanup, RemoveOld, NextPlace
<1> QED
  BY <1>3, <1>4, <1>5, <1>6 DEF StoreTypeOK, RetryTypeOK, HistoryTypeOK, dbVars, retryVars, historyVars

\* The steps of a retry command keep every type but the directory's.
LEMMA RetryTypes ==
  ASSUME DirTypes, TaskTypes, NEW r \in Retriers, RetryStep(r)
  PROVE  TaskTypes'
<1> USE DEF TaskTypes, TaskTypeOK, StoreTypeOK, RetryTypeOK
<1>1. rpc' \in [Retriers -> RetryStates]
  BY DEF RetryStep, RetryStart, RetryStore, RetryList, RetryMove, RetryEnd, RetryStates
<1>2. rcnt' \in [Retriers -> CountRecords] /\ cntdb' \in CountRecords
  BY DEF RetryStep, RetryStart, RetryStore, RetryList, RetryMove, RetryEnd, agentVars, dbVars
<1>3. rleft' \in [Retriers -> SUBSET Names]
  <2>1. CASE RetryList(r)
    BY <2>1, FilesAreNames DEF RetryList
  <2>2. CASE ~RetryList(r)
    BY <2>2 DEF RetryStep, RetryStart, RetryStore, RetryMove, RetryEnd
  <2> QED
    BY <2>1, <2>2
<1>4. UNCHANGED <<taskVars, bodb, budget, historyVars>>
  BY DEF RetryStep, RetryStart, RetryStore, RetryList, RetryMove, RetryEnd, agentVars, dbVars
<1> QED
  BY <1>1, <1>2, <1>3, <1>4 DEF HistoryTypeOK, taskVars, historyVars

\* Agents and retry commands touch the queue by renames and removals only.
LEMMA AgentDirTypes ==
  ASSUME DirTypes, TaskTypes,
         NEW a \in Agents, Start(a) \/ ThreadStep(a) \/ Stop(a) \/ Crash(a)
  PROVE  DirTypes'
<1> USE DEF DirTypes, QueueDirTypeOK, SenderTypeOK, TryingNames, queueVars, senderVars
<1>1. CASE RejectName(a) \/ MoveEvent(a)
  <2>1. dir' \in [Events -> Places]
    <3>1. UNCHANGED dir \/ \E nm : \E to \in {"suc", "err"} : Rename(nm, "pdq", to)
      BY <1>1 DEF RejectName, MoveEvent
    <3> QED
      BY <3>1, RenameType DEF Places
  <2>2. UNCHANGED <<clock, name, data, senderVars>>
    BY <1>1 DEF RejectName, MoveEvent
  <2> QED
    BY <2>1, <2>2
<1>2. CASE RemoveOld(a)
  <2>1. sweep[a].place \in {"none", "err", "tmp", "suc"}
    BY DEF TaskTypes, TaskTypeOK, SweepRecords
  <2>2. dir' \in [Events -> Places]
    BY <1>2, <2>1, RemoveType DEF RemoveOld, Places
  <2>3. tmp' \in [Events -> Names]
    BY <1>2, NameTypes DEF RemoveOld
  <2>4. UNCHANGED <<clock, name, data, spc, stamp, tries, tmp_fname, killed>>
    BY <1>2 DEF RemoveOld
  <2> QED
    BY <2>2, <2>3, <2>4
<1>3. CASE UNCHANGED <<clock, queueVars, senderVars>>
  BY <1>3
<1> QED
  BY <1>1, <1>2, <1>3
  DEF Start, Stop, Crash, ThreadStep, LoadCounters, Boot, Tick, PassStep, CleanupStep, Exit, AcquireLock, ListQueue,
      EndOfLoop, SkipEvent, ReadEvent, SendEvent, BackOff, StopAll, StoreBackoff, StoreCounters,
      ReleaseLock, BeginCleanup, NextPlace

\* A retry command touches the queue by renames only.
LEMMA RetryDirTypes ==
  ASSUME DirTypes, NEW r \in Retriers, RetryStep(r)
  PROVE  DirTypes'
<1> USE DEF DirTypes, QueueDirTypeOK, SenderTypeOK, TryingNames, queueVars, senderVars
<1>1. UNCHANGED dir \/ \E nm : Rename(nm, "err", "pdq")
  BY DEF RetryStep, RetryStart, RetryStore, RetryList, RetryMove, RetryEnd
<1>2. UNCHANGED <<clock, name, data, senderVars>>
  BY DEF RetryStep, RetryStart, RetryStore, RetryList, RetryMove, RetryEnd
<1>3. dir' \in [Events -> Places]
  BY <1>1, RenameType DEF Places
<1> QED
  BY <1>2, <1>3

-----------------------------------------------------------------------------
(* Every step *)

\* The event in an agent's hands keeps being an event with a parsable name.
LEMMA ProcessedStep ==
  ASSUME DirTypes, TaskTypes, Processed, NEW a \in Agents,
         Start(a) \/ ThreadStep(a) \/ Stop(a) \/ Crash(a)
  PROVE  Processed'
<1> USE DEF TaskTypes, TaskTypeOK, Processed
<1>1. ASSUME NEW b \in Agents \ {a}
      PROVE  apc'[b] = apc[b] /\ pass'[b] = pass[b]
  BY DEF Start, Stop, Crash, Forget, ThreadStep, LoadCounters, Boot, Tick, PassStep, CleanupStep, Exit, AcquireLock,
         ListQueue, EndOfLoop, RejectName, SkipEvent, ReadEvent, SendEvent, MoveEvent, BackOff, StopAll,
         StoreBackoff, StoreCounters, ReleaseLock, BeginCleanup, RemoveOld, NextPlace,
         Goto, InPass, Raise
<1>2. apc'[a] \in {"send", "answered"} =>
        /\ pass'[a].event \in Events
        /\ First(pass'[a].left) \in Names
        /\ ~BadFileName(First(pass'[a].left))
  <2>1. CASE ReadEvent(a)
    <3>1. CASE Current(a) \in QueuedFiles("pdq")
      <4>1. Current(a) \in Names /\ FileOf("pdq", Current(a)) \in Events
        BY <3>1, FilesAreNames, FileOfType
      <4>2. pass'[a].left = pass[a].left /\ pass'[a].event = FileOf("pdq", Current(a))
        <5> DEFINE e == FileOf("pdq", Current(a))
        <5>1. pass[a] \in PassRecords
          OBVIOUS
        <5>2. \/ pass'[a] = [pass[a] EXCEPT !.event = e]
              \/ pass'[a] = [pass[a] EXCEPT !.event = e, !.code = "BAD_ENTRY"]
          BY <2>1, <3>1 DEF ReadEvent, InPass
        <5> HIDE DEF e
        <5> QED
          BY <5>1, <5>2 DEF PassRecords, e
      <4> QED
        BY <2>1, <4>1, <4>2 DEF ReadEvent, Current
    <3>2. CASE Current(a) \notin QueuedFiles("pdq")
      BY <2>1, <3>2 DEF ReadEvent, Raise, Goto
    <3> QED
      BY <3>1, <3>2
  <2>2. CASE SendEvent(a)
    <3>1. Raise(a) \/ \E c : InPass(a, [pass[a] EXCEPT !.code = c])
      BY <2>2 DEF SendEvent
    <3>2. CASE Raise(a)
      BY <3>2 DEF Raise, Goto
    <3>3. CASE \E c : InPass(a, [pass[a] EXCEPT !.code = c])
      <4>1. pass'[a].left = pass[a].left /\ pass'[a].event = pass[a].event
        BY <3>3 DEF InPass, PassRecords
      <4> QED
        BY <2>2, <4>1 DEF SendEvent, Current
    <3> QED
      BY <3>1, <3>2, <3>3
  <2>3. CASE Stop(a) \/ SkipEvent(a) \/ RejectName(a)
    BY <2>3 DEF Stop, SkipEvent, RejectName, InLoop, Raise, Goto, InPass, Current
  <2>4. CASE UNCHANGED <<apc, pass>>
    BY <2>4 DEF Current
  <2>5. CASE apc'[a] \notin {"send", "answered"}
    BY <2>5
  <2> QED
    BY <2>1, <2>2, <2>3, <2>4, <2>5
    DEF Start, Crash, Forget, ThreadStep, LoadCounters, Boot, Tick, PassStep, CleanupStep, Exit, AcquireLock,
        ListQueue, EndOfLoop, MoveEvent, BackOff, StopAll,
        StoreBackoff, StoreCounters, ReleaseLock, BeginCleanup, RemoveOld, NextPlace,
        Goto, InPass, Raise
<1> QED
  BY <1>1, <1>2 DEF Current

\* Every step is a step of the lock, or leaves it alone.
LEMMA LockSteps ==
  ASSUME [Next]_vars
  PROVE  [LockP!LockNext]_(LockP!lockVars)
<1> USE DEF lockVars, LockP!lockVars
<1>1. ASSUME NEW a \in Agents, Start(a) \/ ThreadStep(a) \/ Stop(a) \/ Crash(a)
      PROVE  LockP!LockNext \/ UNCHANGED lockVars
  <2>1. CASE AcquireLock(a)
    BY <2>1 DEF AcquireLock, LockP!LockNext, LockP!AcquireStep, Lock!Open, LockP!Open,
         Lock!Acquire, LockP!Acquire, Lock!Busy, LockP!Busy, Lock!Timeout, LockP!Timeout,
         Lock!Used, LockP!Used, Lock!LockedByOther, LockP!LockedByOther, Lock!Locked, LockP!Locked
  <2>2. CASE ReleaseLock(a)
    BY <2>2 DEF ReleaseLock, LockP!LockNext, LockP!ReleaseStep, Lock!Unlink, LockP!Unlink,
         Lock!Close, LockP!Close, Lock!UnlinkMissing, LockP!UnlinkMissing, Lock!Finalize, LockP!Finalize
  <2>3. CASE Crash(a)
    BY <2>3 DEF Crash, LockP!LockNext, Lock!LockCrash, LockP!LockCrash
  <2>4. CASE UNCHANGED lockVars
    BY <2>4
  <2> QED
    BY <1>1, <2>1, <2>2, <2>3, <2>4
    DEF Start, ThreadStep, LoadCounters, Boot, Stop, Tick, PassStep, CleanupStep, Exit, ListQueue, EndOfLoop,
        RejectName, SkipEvent, ReadEvent, SendEvent, MoveEvent, BackOff, StopAll, StoreBackoff,
        StoreCounters, BeginCleanup, RemoveOld, NextPlace
<1>2. ASSUME NEW r \in Retriers, RetryStep(r)
      PROVE  UNCHANGED lockVars
  BY <1>2 DEF RetryStep, RetryStart, RetryStore, RetryList, RetryMove, RetryEnd, agentVars
<1>3. ASSUME NEW e \in Events, Sender(e)
      PROVE  UNCHANGED lockVars
  BY <1>3 DEF Sender, agentVars
<1>4. CASE Clock
  BY <1>4 DEF Clock, agentVars
<1>5. CASE UNCHANGED vars
  BY <1>5 DEF vars, agentVars
<1> QED
  BY <1>1, <1>2, <1>3, <1>4, <1>5 DEF Next

\* The queue uses the lock as FileLock describes it, whatever else it does.
THEOREM UsesTheLock == Spec => LockP!LockSpec
<1>1. PDQueueInit => LockP!LockInit
  BY DEF PDQueueInit, Lock!LockInit, LockP!LockInit
<1>2. [Next]_vars => [LockP!LockNext]_(LockP!lockVars)
  BY LockSteps
<1> QED
  BY <1>1, <1>2, PTL DEF Spec, LockP!LockSpec

TypeInv == DirTypes /\ TaskTypes /\ Processed

\* The types hold initially.
LEMMA TypeInit == PDQueueInit => TypeInv
<1> SUFFICES ASSUME PDQueueInit PROVE TypeInv
  OBVIOUS
<1> USE ConstantTypes, NameTypes, PDQueueAssumption DEF PDQueueInit
<1>1. QueueDirTypeOK
  <2>1. name \in [Events -> Names]
    <3>1. ASSUME NEW e \in DOMAIN Backlog
          PROVE  FileName(Backlog[e], KeyOf[e]) \in Names
      <4>1. Backlog[e] \in Nat /\ KeyOf[e] \in Keys \cup {NoKey}
        BY QueueDirAssumption
      <4> QED
        BY <4>1, NameTypes
    <3> QED
      BY <3>1 DEF QueueDirInit, Queued
  <2>2. clock \in StartTime .. MaxTime
    BY DEF QueueDirInit
  <2>3. dir \in [Events -> Places] /\ data \in [Events -> Contents]
    BY DEF QueueDirInit, Places, Contents
  <2> QED
    BY <2>1, <2>2, <2>3 DEF QueueDirTypeOK
<1>2. SenderTypeOK /\ TryingNames
  BY DEF SenderInit, SenderTypeOK, SenderStates, TryingNames
<1>3. TaskTypeOK
  BY BackoffTypes, RecordTypes DEF TaskTypeOK, AgentStates
<1>4. StoreTypeOK
  BY BackoffTypes, RecordTypes DEF StoreTypeOK, Budgets
<1>5. RetryTypeOK /\ HistoryTypeOK
  BY RecordTypes DEF RetryTypeOK, HistoryTypeOK, RetryStates
<1>6. Processed
  BY DEF Processed
<1> QED
  BY <1>1, <1>2, <1>3, <1>4, <1>5, <1>6 DEF TypeInv, DirTypes, TaskTypes

\* A step of an agent keeps the agents' types.
LEMMA AgentTypes ==
  ASSUME DirTypes, TaskTypes, Processed, NEW a \in Agents,
         Start(a) \/ ThreadStep(a) \/ Stop(a) \/ Crash(a)
  PROVE  TaskTypes'
  BY LifeTypes, StoreTypes, CleanupTypes, ListQueueTypes, RejectNameTypes, SkipEventTypes,
     ReadEventTypes, SendEventTypes, MoveEventTypes, BackOffTypes
  DEF ThreadStep, PassStep

\* Every step keeps every type.
LEMMA TypeStep ==
  ASSUME TypeInv, [Next]_vars
  PROVE  TypeInv'
<1> USE DEF TypeInv
<1>1. ASSUME NEW a \in Agents, Start(a) \/ ThreadStep(a) \/ Stop(a) \/ Crash(a)
      PROVE  TypeInv'
  BY <1>1, AgentDirTypes, AgentTypes, ProcessedStep
<1>2. ASSUME NEW r \in Retriers, RetryStep(r)
      PROVE  TypeInv'
  <2>1. UNCHANGED <<apc, pass>>
    BY <1>2 DEF RetryStep, RetryStart, RetryStore, RetryList, RetryMove, RetryEnd, agentVars, taskVars
  <2>2. Processed'
    BY <2>1 DEF Processed, Current
  <2> QED
    BY <1>2, <2>2, RetryDirTypes, RetryTypes
<1>3. CASE UNCHANGED <<agentVars, retryVars, historyVars>> /\ DirTypes'
  <2>1. TaskTypes'
    BY <1>3 DEF agentVars, taskVars, dbVars, retryVars, historyVars, TaskTypes, TaskTypeOK,
         StoreTypeOK, RetryTypeOK, HistoryTypeOK
  <2>2. Processed'
    BY <1>3 DEF agentVars, taskVars, Processed, Current
  <2> QED
    BY <1>3, <2>1, <2>2
<1>4. ASSUME NEW e \in Events, Sender(e)
      PROVE  TypeInv'
  BY <1>3, <1>4, SenderTypes DEF Sender
<1>5. CASE Clock
  <2>1. clock' \in StartTime .. MaxTime
    BY <1>5, ConstantTypes DEF Clock, ClockTick, DirTypes, QueueDirTypeOK
  <2>2. DirTypes'
    BY <1>5, <2>1 DEF Clock, DirTypes, QueueDirTypeOK, SenderTypeOK, TryingNames, queueVars, senderVars
  <2> QED
    BY <1>3, <1>5, <2>2 DEF Clock
<1>6. CASE UNCHANGED vars
  <2>1. DirTypes'
    BY <1>6 DEF vars, DirTypes, QueueDirTypeOK, SenderTypeOK, TryingNames, queueVars, senderVars
  <2> QED
    BY <1>3, <1>6, <2>1 DEF vars
<1> QED
  BY <1>1, <1>2, <1>4, <1>5, <1>6 DEF Next

\* Every variable keeps its kind of value, with any number of events, keys,
\* agents and retry commands, and whatever they do to each other.
THEOREM TypesCorrect == Spec => []TypeOK
<1>1. PDQueueInit => TypeInv
  BY TypeInit
<1>2. TypeInv /\ [Next]_vars => TypeInv'
  BY TypeStep
<1>3. TypeInv /\ LockP!LockTypeOK => TypeOK
  BY DEF TypeInv, DirTypes, TaskTypes, TypeOK, LockTypeOK, Lock!LockTypeOK, LockP!LockTypeOK,
         Lock!LockStates, LockP!LockStates
<1>4. LockP!LockSpec => []LockP!LockTypeOK
  <2>1. LockP!FileLockAssumption
    BY PDQueueAssumption DEF LockP!FileLockAssumption
  <2> QED
    BY <2>1, LockP!LockTypeCorrect
<1> QED
  BY <1>1, <1>2, <1>3, <1>4, UsesTheLock, PTL DEF Spec
=============================================================================
