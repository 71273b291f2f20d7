----------------------------- MODULE FlushProofs -----------------------------
(***************************************************************************)
(* What a flush of the queue guarantees for any number of events, keys and *)
(* answers: no event is given up early (GivenUpLate), the events of a key  *)
(* stay in order (SentInOrder), none is sent twice (SentOnce), back-off is *)
(* honoured (BackoffIsHonoured), and the counters on disk invent nothing   *)
(* (CountersInventNothing) and are exact between two flushes               *)
(* (CountersAreExact).                                                     *)
(*                                                                         *)
(* The theorems name what each of them needs: that nobody retries events,  *)
(* that one agent is at work, that it is not killed, that it can write its *)
(* databases.                                                              *)
(***************************************************************************)
EXTENDS PDQueueProofs

-----------------------------------------------------------------------------
(* Nobody is given up early *)

HasToWait == {"BACKOFF_BAD_ENTRY", "BACKOFF_NOT_CONSUMED"}

\* No attempt is counted that was not a setback, in memory or on disk; an
\* answer that makes a key wait is a setback more than is counted yet.
AttemptsCounted ==
  /\ \A k \in Keys : bodb.attempts[k] <= setbacks[k]
  /\ \A a \in Agents, k \in Keys : bo[a].prev[k] <= setbacks[k] /\ bo[a].cur[k] <= setbacks[k]
AnswersCounted ==
  \A a \in Agents : apc[a] = "answered" /\ Code(a) \in HasToWait =>
    bo[a].prev[SvcKey(Current(a))] < setbacks[SvcKey(Current(a))]

\* A step that leaves the back-off state alone keeps the counts, if no agent
\* gets an answer by it.
LEMMA CountsKept ==
  ASSUME AttemptsCounted, AnswersCounted, UNCHANGED <<bo, bodb, setbacks>>,
         \A a \in Agents : apc'[a] = "answered" /\ Code(a)' \in HasToWait =>
           apc[a] = "answered" /\ Code(a)' = Code(a) /\ Current(a)' = Current(a)
  PROVE  AttemptsCounted' /\ AnswersCounted'
  BY DEF AttemptsCounted, AnswersCounted

\* The types that the counts rest on.
LEMMA CountTypes ==
  ASSUME TypeInv
  PROVE  /\ setbacks \in [Keys -> Nat] /\ clock \in Nat
         /\ bodb \in Bo!BackoffDbs /\ bo \in [Agents -> Bo!BackoffInfos]
         /\ pass \in [Agents -> PassRecords] /\ apc \in [Agents -> AgentStates]
         /\ \A a \in Agents : apc[a] \in {"send", "answered"} => SvcKey(Current(a)) \in Keys
<1>1. \A a \in Agents : apc[a] \in {"send", "answered"} => SvcKey(Current(a)) \in Keys
  BY SvcKeyType DEF TypeInv, Processed
<1> QED
  BY <1>1, ConstantTypes
  DEF TypeInv, DirTypes, QueueDirTypeOK, TaskTypes, TaskTypeOK, StoreTypeOK, HistoryTypeOK

\* A step of an agent that does something to its back-off state.
LEMMA BackoffCounts ==
  ASSUME TypeInv, AttemptsCounted, AnswersCounted, NEW a \in Agents,
         Start(a) \/ Exit(a) \/ Crash(a) \/ ListQueue(a) \/ BackOff(a) \/ StoreBackoff(a)
  PROVE  AttemptsCounted' /\ AnswersCounted'
<1> USE CountTypes DEF AttemptsCounted, Bo!BackoffDbs, Bo!BackoffInfos
<1>1. UNCHANGED setbacks
  BY DEF Start, Exit, Crash, ListQueue, BackOff, StoreBackoff, historyVars
<1>2. ASSUME NEW b \in Agents \ {a}
      PROVE  bo'[b] = bo[b] /\ apc'[b] = apc[b] /\ pass'[b] = pass[b]
  BY DEF Start, Exit, Crash, Forget, ListQueue, Raise, BackOff, StoreBackoff, Goto, InPass
<1>3. apc'[a] # "answered"
  BY DEF Start, Exit, Crash, Forget, ListQueue, Raise, BackOff, StoreBackoff, Goto,
         TypeInv, TaskTypes, TaskTypeOK
<1>4. AnswersCounted'
  BY <1>1, <1>2, <1>3 DEF AnswersCounted, Code, Current
<1>10. ASSUME \A k \in Keys : /\ bodb'.attempts[k] <= setbacks[k]
                             /\ bo'[a].prev[k] <= setbacks[k] /\ bo'[a].cur[k] <= setbacks[k]
       PROVE  AttemptsCounted' /\ AnswersCounted'
  BY <1>1, <1>2, <1>4, <1>10
<1> HIDE DEF AttemptsCounted
<1>11. \A k \in Keys : /\ bodb.attempts[k] <= setbacks[k] /\ 0 <= setbacks[k]
                       /\ bo[a].prev[k] <= setbacks[k] /\ bo[a].cur[k] <= setbacks[k]
  BY DEF AttemptsCounted
<1>5. CASE Start(a)
  <2>1. bo'[a] = Bo!Load(bodb, clock) /\ UNCHANGED bodb
    BY <1>5 DEF Start, dbVars
  <2>2. \A k \in Keys : bo'[a].prev[k] = bodb.attempts[k] /\ bo'[a].cur[k] \in {bodb.attempts[k], 0}
    BY <2>1 DEF Bo!Load, Bo!Update
  <2> QED
    BY <1>10, <1>11, <2>1, <2>2
<1>6. CASE Exit(a) \/ Crash(a)
  <2>1. bo'[a] = Bo!NoInfo /\ UNCHANGED bodb
    BY <1>6 DEF Exit, Crash, Forget, dbVars
  <2>2. \A k \in Keys : bo'[a].prev[k] = 0 /\ bo'[a].cur[k] = 0
    BY <2>1 DEF Bo!NoInfo, Bo!NoEntries
  <2> QED
    BY <1>10, <1>11, <2>1, <2>2
<1>7. CASE ListQueue(a)
  <2>1. UNCHANGED bodb /\ bo'[a] \in {bo[a], Bo!Update(bo[a], clock)}
    BY <1>7 DEF ListQueue, dbVars
  <2>2. \A k \in Keys : /\ bo'[a].prev[k] \in {bo[a].prev[k], bo[a].cur[k]}
                        /\ bo'[a].cur[k] \in {bo[a].cur[k], 0}
    BY <2>1 DEF Bo!Update
  <2> QED
    BY <1>10, <1>11, <2>1, <2>2
<1>8. CASE BackOff(a)
  <2> DEFINE j == SvcKey(Current(a))
  <2>1. UNCHANGED bodb /\ bo'[a] = Bo!Increment(bo[a], j, clock)
    BY <1>8 DEF BackOff, dbVars
  <2>2. bo[a].prev[j] < setbacks[j] /\ j \in Keys
    BY <1>8 DEF BackOff, AnswersCounted, HasToWait
  <2> HIDE DEF j
  <2>3. \A k \in Keys : /\ bo'[a].prev[k] = bo[a].prev[k]
                        /\ bo'[a].cur[k] = IF k = j THEN bo[a].prev[k] + 1 ELSE bo[a].cur[k]
    BY <2>1 DEF Bo!Increment
  <2>4. \A k \in Keys : bo[a].prev[k] \in Nat /\ setbacks[k] \in Nat
    OBVIOUS
  <2> QED
    BY <1>10, <1>11, <2>1, <2>2, <2>3, <2>4
<1>9. CASE StoreBackoff(a)
  <2>1. UNCHANGED bo /\ bodb' \in {bodb, Bo!ToDb(bo[a])}
    BY <1>9 DEF StoreBackoff
  <2> QED
    BY <1>10, <1>11, <2>1 DEF Bo!ToDb
<1> QED
  BY <1>5, <1>6, <1>7, <1>8, <1>9

\* An answer is counted as a setback if it makes its key wait.
LEMMA AnswerCounts ==
  ASSUME TypeInv, AttemptsCounted, AnswersCounted, NEW a \in Agents, SendEvent(a)
  PROVE  AttemptsCounted' /\ AnswersCounted'
<1> USE CountTypes DEF Bo!BackoffDbs, Bo!BackoffInfos
<1> DEFINE j == SvcKey(Current(a))
<1>1. UNCHANGED <<bo, bodb>> /\ j \in Keys
  BY DEF SendEvent, dbVars
<1>2. ASSUME NEW b \in Agents \ {a}
      PROVE  apc'[b] = apc[b] /\ pass'[b] = pass[b]
  BY DEF SendEvent, Raise, Goto, InPass
<1>3. PICK answer \in PossibleAnswers(j) :
        /\ IF ConsumeCode(answer) = "RAISES"
           THEN Raise(a)
           ELSE /\ Goto(a, "answered")
                /\ InPass(a, [pass[a] EXCEPT !.code = ConsumeCode(answer)])
        /\ setbacks' = IF answer \in MayBeBad \cup ComeAgain
                       THEN [setbacks EXCEPT ![j] = @ + 1] ELSE setbacks
  BY DEF SendEvent
<1>4. \A k \in Keys : setbacks[k] <= setbacks'[k] /\ setbacks'[k] \in Nat
  BY <1>1, <1>3
<1>5. AttemptsCounted'
  BY <1>1, <1>4 DEF AttemptsCounted
<1>6. ASSUME apc'[a] = "answered", Code(a)' \in HasToWait
      PROVE  Current(a)' = Current(a) /\ bo[a].prev[j] < setbacks'[j]
  <2>1. ~Raise(a)
    BY <1>6 DEF Raise, Goto, TypeInv, TaskTypes, TaskTypeOK
  <2>2. /\ pass'[a].left = pass[a].left
        /\ Code(a)' = ConsumeCode(answer)
    BY <1>3, <2>1 DEF InPass, Code, PassRecords
  <2>3. answer \in MayBeBad \cup ComeAgain
    BY <1>6, <2>2 DEF ConsumeCode, HasToWait
  <2>4. setbacks'[j] = setbacks[j] + 1 /\ bo[a].prev[j] <= setbacks[j]
    BY <1>1, <1>3, <2>3 DEF AttemptsCounted
  <2>5. bo[a].prev[j] \in Nat /\ setbacks[j] \in Nat
    BY <1>1
  <2> QED
    BY <2>2, <2>4, <2>5 DEF Current
<1>7. AnswersCounted'
  <2>1. ASSUME NEW b \in Agents \ {a}, apc'[b] = "answered", Code(b)' \in HasToWait
        PROVE  bo'[b].prev[SvcKey(Current(b)')] < setbacks'[SvcKey(Current(b)')]
    <3> DEFINE i == SvcKey(Current(b))
    <3>1. apc[b] = "answered" /\ Current(b)' = Current(b) /\ bo[b].prev[i] < setbacks[i]
      BY <1>2, <2>1 DEF AnswersCounted, Code, Current
    <3>2. i \in Keys /\ bo[b].prev[i] \in Nat /\ setbacks[i] \in Nat
      BY <3>1
    <3> QED
      BY <1>1, <1>4, <3>1, <3>2
  <2>2. ASSUME apc'[a] = "answered", Code(a)' \in HasToWait
        PROVE  bo'[a].prev[SvcKey(Current(a)')] < setbacks'[SvcKey(Current(a)')]
    BY <1>1, <1>6, <2>2
  <2> QED
    BY <2>1, <2>2 DEF AnswersCounted
<1> QED
  BY <1>5, <1>7

\* Every step keeps the counts.
LEMMA CountsStep ==
  ASSUME TypeInv, AttemptsCounted, AnswersCounted, [Next]_vars
  PROVE  AttemptsCounted' /\ AnswersCounted'
<1>1. ASSUME NEW a \in Agents, ReadEvent(a)
      PROVE  AttemptsCounted' /\ AnswersCounted'
  <2>1. UNCHANGED <<bo, bodb, setbacks>>
    BY <1>1 DEF ReadEvent, dbVars, historyVars
  <2>2. ASSUME NEW b \in Agents \ {a}
        PROVE  apc'[b] = apc[b] /\ pass'[b] = pass[b]
    BY <1>1, CountTypes DEF ReadEvent, Raise, Goto, InPass
  <2>3. ~(apc'[a] = "answered" /\ Code(a)' \in HasToWait)
    <3> DEFINE e == FileOf("pdq", Current(a))
    <3>1. \/ InPass(a, [pass[a] EXCEPT !.event = e, !.code = "BAD_ENTRY"])
          \/ Goto(a, "send")
          \/ Goto(a, "release")
      BY <1>1 DEF ReadEvent, Raise
    <3> QED
      BY <3>1, CountTypes
      DEF InPass, Goto, Code, PassRecords, HasToWait, TypeInv, TaskTypes, TaskTypeOK
  <2> QED
    BY <2>1, <2>2, <2>3, CountsKept DEF Code, Current
<1>2. ASSUME NEW a \in Agents, \/ RejectName(a) \/ SkipEvent(a) \/ MoveEvent(a) \/ StopAll(a) \/ EndOfLoop(a)
                               \/ LoadCounters(a) \/ Boot(a) \/ Tick(a) \/ AcquireLock(a) \/ StoreCounters(a)
                               \/ ReleaseLock(a) \/ CleanupStep(a) \/ Stop(a)
      PROVE  AttemptsCounted' /\ AnswersCounted'
  <2>1. UNCHANGED <<bo, bodb, setbacks>>
    BY <1>2 DEF RejectName, SkipEvent, MoveEvent, StopAll, EndOfLoop, LoadCounters, Boot, Tick, AcquireLock, StoreCounters,
           ReleaseLock, CleanupStep, BeginCleanup, RemoveOld, NextPlace, Stop, dbVars, historyVars
  <2>2. \A b \in Agents : apc'[b] = "answered" => apc[b] = "answered"
    BY <1>2 DEF RejectName, SkipEvent, MoveEvent, StopAll, EndOfLoop, LoadCounters, Boot, Tick, AcquireLock, StoreCounters,
           ReleaseLock, CleanupStep, BeginCleanup, RemoveOld, NextPlace, Stop, Raise, Goto,
           TypeInv, TaskTypes, TaskTypeOK
  <2>3. \A b \in Agents : apc'[b] = "answered" => pass'[b] = pass[b]
    BY <1>2 DEF RejectName, SkipEvent, MoveEvent, StopAll, EndOfLoop, LoadCounters, Boot, Tick, AcquireLock, StoreCounters, InLoop,
           ReleaseLock, CleanupStep, BeginCleanup, RemoveOld, NextPlace, Stop, Raise, Goto, InPass,
           TypeInv, TaskTypes, TaskTypeOK
  <2> QED
    BY <2>1, <2>2, <2>3, CountsKept DEF Code, Current
<1>3. ASSUME UNCHANGED <<bo, bodb, setbacks, apc, pass>>
      PROVE  AttemptsCounted' /\ AnswersCounted'
  BY <1>3, CountsKept DEF Code, Current
<1>4. ASSUME NEW r \in Retriers, RetryStep(r)
      PROVE  UNCHANGED <<bo, bodb, setbacks, apc, pass>>
  BY <1>4 DEF RetryStep, RetryStart, RetryStore, RetryList, RetryMove, RetryEnd, agentVars, taskVars, dbVars, historyVars
<1>5. ASSUME Clock \/ UNCHANGED vars \/ \E e \in Events : Sender(e)
      PROVE  UNCHANGED <<bo, bodb, setbacks, apc, pass>>
  BY <1>5 DEF Clock, vars, Sender, agentVars, taskVars, dbVars, historyVars
<1> QED
  BY <1>1, <1>2, <1>3, <1>4, <1>5, BackoffCounts, AnswerCounts DEF Next, ThreadStep, PassStep

\* With any number of agents, restarts and failed database writes, an event is
\* given up as bad only after more than RetryLimit setbacks of its service key.
THEOREM GivenUpLate == Spec => []NotGivenUpEarly
<1>1. PDQueueInit => TypeInv /\ AttemptsCounted /\ AnswersCounted
  <2>1. PDQueueInit => AttemptsCounted /\ AnswersCounted
    BY DEF PDQueueInit, AttemptsCounted, AnswersCounted, Bo!NoInfo, Bo!EmptyDb, Bo!NoEntries
  <2> QED
    BY <2>1, TypeInit
<1>2. TypeInv /\ AttemptsCounted /\ AnswersCounted /\ [Next]_vars
      => TypeInv' /\ AttemptsCounted' /\ AnswersCounted'
  BY TypeStep, CountsStep
<1>3. TypeInv /\ AttemptsCounted /\ AnswersCounted => NotGivenUpEarly
  <2> SUFFICES ASSUME TypeInv, AttemptsCounted, AnswersCounted, NEW a \in Agents, GivesUp(a)
               PROVE  setbacks[SvcKey(Current(a))] > RetryLimit
    BY DEF NotGivenUpEarly
  <2> DEFINE j == SvcKey(Current(a))
  <2>1. j \in Keys /\ bo[a].prev[j] < setbacks[j] /\ bo[a].cur[j] <= setbacks[j]
    BY CountTypes DEF GivesUp, HasToWait, AttemptsCounted, AnswersCounted
  <2>2. bo[a].prev[j] \in Nat /\ bo[a].cur[j] \in Nat /\ setbacks[j] \in Nat /\ RetryLimit \in Nat
    BY <2>1, CountTypes, PDQueueAssumption DEF Bo!BackoffInfos
  <2>3. Bo!Attempt(bo[a], j) > RetryLimit
    BY DEF GivesUp, TakenOut, Bo!ThresholdBreached
  <2> HIDE DEF j
  <2>4. setbacks[j] > RetryLimit
    BY <2>1, <2>2, <2>3 DEF Bo!Attempt
  <2> QED
    BY <2>4 DEF j
<1> QED
  BY <1>1, <1>2, <1>3, PTL DEF Spec

-----------------------------------------------------------------------------
(* In the order of file names, per service key *)

\* A pass has listed names of events only.
ListedWere ==
  \A a \in Agents : \A nm \in pass[a].listing :
    \E e \in Events : Published(e) /\ name[e] = nm

\* An event that a pass has left behind in the queue is held back with its
\* service key, so that no later event of the key is sent in that pass.
LeftBehind ==
  \A a \in Agents, x \in Events :
    /\ dir[x] = "pdq"
    /\ name[x] \in pass[a].listing \ pass[a].left
    /\ ~BadFileName(name[x])
    => Reused(x) \/ HeldBack(a, SvcKey(name[x]))

\* Outside of its loop a pass has no listing.
Between ==
  \A a \in Agents : apc[a] \notin {"loop", "send", "answered"} => pass[a].listing = {}

\* What is sent is not held back.
SentFreely ==
  \A a \in Agents : apc[a] = "send" => ~HeldBack(a, SvcKey(Current(a)))

OrderInv == LossInv /\ ListedWere /\ LeftBehind /\ Between /\ SentFreely

\* As long as nobody retries events, only new ones come into the queue.
LEMMA NoWayBack ==
  ASSUME Retriers = {}, LossInv, [Next]_vars, NEW x \in Events, dir'[x] = "pdq"
  PROVE  dir[x] = "pdq" \/ ~Published(x)
<1> USE DEF LossInv, TypeInv, DirTypes, QueueDirTypeOK
<1>1. ASSUME NEW e \in Events, SenderStep(e)
      PROVE  dir[x] = "pdq" \/ ~Published(x)
  <2>1. CASE ~Published(e) /\ dir' = [dir EXCEPT ![e] = "pdq"]
    BY <2>1 DEF Published
  <2>2. CASE UNCHANGED dir
    BY <2>2
  <2>3. CASE DropStray(e)
    BY <2>1, <2>3 DEF DropStray, NamedWhenLinked, Published
  <2>4. CASE LinkPdq(e)
    BY <2>1, <2>2, <2>4 DEF LinkPdq, TryNext, queueVars, NamedWhenLinked, Published
  <2> QED
    BY <1>1, <2>2, <2>3, <2>4 DEF SenderStep, EnqueueStep, StartEnqueue, OpenTmp, TryNext, WriteTmp,
           UnlinkTmp, KillSender, queueVars
<1>2. ASSUME NEW a \in Agents, RejectName(a) \/ MoveEvent(a) \/ RemoveOld(a)
      PROVE  dir[x] = "pdq"
  BY <1>2 DEF RejectName, MoveEvent, RemoveOld, Rename, Remove
<1>3. CASE UNCHANGED dir
  BY <1>3
<1>4. ASSUME NEW a \in Agents, Start(a) \/ ThreadStep(a) \/ Stop(a) \/ Crash(a)
      PROVE  UNCHANGED dir \/ RejectName(a) \/ MoveEvent(a) \/ RemoveOld(a)
  BY <1>4
  DEF queueVars, Start, Stop, Crash, Forget, ThreadStep, LoadCounters, Boot, Tick, PassStep,
      CleanupStep, Exit, AcquireLock, ListQueue, EndOfLoop, SkipEvent, ReadEvent, SendEvent, BackOff, StopAll,
      StoreBackoff, StoreCounters, ReleaseLock, BeginCleanup, NextPlace
<1> QED
  BY <1>1, <1>2, <1>3, <1>4 DEF Next, Sender, Clock, vars, queueVars

\* A step of an agent leaves the other agents alone.
LEMMA OthersAlone ==
  ASSUME TypeInv, NEW a \in Agents, Start(a) \/ ThreadStep(a) \/ Stop(a) \/ Crash(a),
         NEW b \in Agents \ {a}
  PROVE  apc'[b] = apc[b] /\ pass'[b] = pass[b] /\ bo'[b] = bo[b]
<1> USE CountTypes
<1>1. CASE Start(a) \/ Stop(a) \/ Crash(a) \/ Exit(a)
  BY <1>1 DEF Start, Stop, Crash, Exit, Forget, Goto, InPass
<1>2. CASE PassStep(a)
  BY <1>2 DEF PassStep, AcquireLock, ListQueue, EndOfLoop, RejectName, SkipEvent, ReadEvent, SendEvent,
         MoveEvent, BackOff, StopAll, StoreBackoff, StoreCounters, ReleaseLock, Goto, InPass, Raise
<1>3. CASE CleanupStep(a) \/ LoadCounters(a) \/ Boot(a) \/ Tick(a)
  BY <1>3 DEF CleanupStep, BeginCleanup, RemoveOld, NextPlace, LoadCounters, Boot, Tick, Goto
<1> QED
  BY <1>1, <1>2, <1>3 DEF ThreadStep

\* What anybody does leaves the promises of a pass as they are, as long as
\* it goes on, holds back what it held back, and takes what is left of it in
\* turn: out of the queue, or to be held back.
LEMMA PassKept ==
  ASSUME Retriers = {}, OrderInv, [Next]_vars, NEW a \in Agents,
         pass'[a].listing = pass[a].listing,
         \A k \in Keys : HeldBack(a, k) => HeldBack(a, k)',
         \A x \in Events : dir'[x] = "pdq" /\ name[x] \in pass[a].left \ pass'[a].left =>
           BadFileName(name[x]) \/ HeldBack(a, SvcKey(name[x]))'
  PROVE  /\ \A nm \in pass'[a].listing : \E e \in Events : Published(e)' /\ name'[e] = nm
         /\ \A x \in Events :
              /\ dir'[x] = "pdq"
              /\ name'[x] \in pass'[a].listing \ pass'[a].left
              /\ ~BadFileName(name'[x])
              => Reused(x)' \/ HeldBack(a, SvcKey(name[x]))'
<1>1. NamesKept
  BY NamesStay DEF OrderInv
<1>2. \A nm \in pass[a].listing : \E e \in Events : Published(e) /\ name[e] = nm
  BY DEF OrderInv, ListedWere
<1>3. ASSUME NEW x \in Events, dir'[x] = "pdq", name'[x] \in pass[a].listing \ pass'[a].left,
             ~BadFileName(name'[x])
      PROVE  Reused(x)' \/ HeldBack(a, SvcKey(name[x]))'
  <2>1. CASE ~Published(x)
    <3>1. PICK e \in Events : Published(e) /\ name[e] = name'[x]
      BY <1>2, <1>3
    <3> QED
      BY <1>1, <2>1, <3>1 DEF NamesKept, Reused
  <2>2. CASE Published(x)
    <3>1. dir[x] = "pdq" /\ name'[x] = name[x]
      BY <1>1, <1>3, <2>2, NoWayBack DEF NamesKept, OrderInv
    <3>2. CASE name[x] \in pass[a].left
      BY <1>3, <3>1, <3>2
    <3>3. CASE name[x] \notin pass[a].left
      <4>1. Reused(x) \/ HeldBack(a, SvcKey(name[x]))
        BY <1>3, <3>1, <3>3 DEF OrderInv, LeftBehind
      <4>2. Reused(x) => Reused(x)'
        BY <1>1, <2>2, ReusedForGood DEF OrderInv, LossInv
      <4>3. name[x] \in Names /\ SvcKey(name[x]) \in Keys
        BY <1>3, <3>1, SvcKeyType DEF OrderInv, LossInv, TypeInv, DirTypes, QueueDirTypeOK
      <4>4. HeldBack(a, SvcKey(name[x])) => HeldBack(a, SvcKey(name[x]))'
        BY <3>1, <4>3 DEF HeldBack, Bo!BackedOff
      <4> QED
        BY <4>1, <4>2, <4>4
    <3> QED
      BY <3>2, <3>3
  <2> QED
    BY <2>1, <2>2
<1> QED
  BY <1>1, <1>2, <1>3 DEF NamesKept

\* A step of an agent keeps the promises of its own pass.
LEMMA OwnPassKept ==
  ASSUME Retriers = {}, OrderInv, [Next]_vars, NEW a \in Agents,
         Start(a) \/ ThreadStep(a) \/ Stop(a) \/ Crash(a)
  PROVE  /\ \A nm \in pass'[a].listing : \E e \in Events : Published(e)' /\ name'[e] = nm
         /\ \A x \in Events :
              /\ dir'[x] = "pdq"
              /\ name'[x] \in pass'[a].listing \ pass'[a].left
              /\ ~BadFileName(name'[x])
              => Reused(x)' \/ HeldBack(a, SvcKey(name[x]))'
         /\ apc'[a] \notin {"loop", "send", "answered"} => pass'[a].listing = {}
<1> USE CountTypes DEF OrderInv, LossInv, HeldBack, Bo!BackedOff, InPass, Goto, PassRecords
<1> DEFINE nm == Current(a)
<1>0. pass[a] \in PassRecords
  OBVIOUS
<1>1. CASE pass'[a].listing = {}
  BY <1>1
<1>2. CASE UNCHANGED <<pass, bo>> /\ (apc'[a] \in {"loop", "send", "answered"} <=> apc[a] \in {"loop", "send", "answered"})
  BY <1>2, PassKept DEF Between
<1>3. CASE ListQueue(a) /\ pass'[a].listing # {}
  <2>1. pass'[a].listing = pass'[a].left /\ pass'[a].listing \subseteq QueuedFiles("pdq") /\ apc'[a] = "loop"
    <3>1. QueuedFiles("pdq") # {}
      BY <1>3 DEF ListQueue, Raise, NoPass
    <3>2. First(QueuedFiles("pdq")) \in QueuedFiles("pdq")
      BY <3>1, FilesAreNames, FirstIsLeast DEF TypeInv
    <3>3. PICK p \in Passes :
            LET nms == IF p = "flush" THEN QueuedFiles("pdq") ELSE {First(QueuedFiles("pdq"))} IN
            pass' = [pass EXCEPT ![a] = [listing |-> nms, left |-> nms, now |-> clock,
                                         errKeys |-> {}, event |-> NoEvent, code |-> "none"]]
      BY <1>3, <3>1 DEF ListQueue
    <3>4. apc'[a] = "loop"
      BY <1>3, <3>1 DEF ListQueue
    <3> QED
      BY <3>2, <3>3, <3>4
  <2>2. UNCHANGED <<dir, name>>
    BY <1>3 DEF ListQueue, queueVars
  <2> QED
    BY <2>1, <2>2 DEF QueuedFiles, Published
<1>4. CASE (ReadEvent(a) \/ SendEvent(a)) /\ pass'[a].listing # {}
  <2>1. ~Raise(a)
    BY <1>4 DEF Raise, NoPass
  <2>2. apc'[a] \in {"send", "answered"} /\ UNCHANGED bo
    BY <1>4, <2>1 DEF ReadEvent, SendEvent
  <2>3. \/ \E e : pass'[a] = [pass[a] EXCEPT !.event = e, !.code = "BAD_ENTRY"]
        \/ \E e : pass'[a] = [pass[a] EXCEPT !.event = e]
        \/ \E c : pass'[a] = [pass[a] EXCEPT !.code = c]
    <3>1. CASE ReadEvent(a)
      <4>1. PICK e : \/ InPass(a, [pass[a] EXCEPT !.event = e, !.code = "BAD_ENTRY"])
                     \/ InPass(a, [pass[a] EXCEPT !.event = e])
        BY <2>1, <3>1 DEF ReadEvent
      <4> QED
        BY <4>1
    <3>2. CASE SendEvent(a)
      BY <2>1, <3>2 DEF SendEvent
    <3> QED
      BY <1>4, <3>1, <3>2
  <2>4. /\ pass'[a].listing = pass[a].listing /\ pass'[a].left = pass[a].left
        /\ pass'[a].errKeys = pass[a].errKeys /\ pass'[a].now = pass[a].now
    BY <1>0, <2>3
  <2> QED
    BY <2>2, <2>4, PassKept
<1>5. CASE (RejectName(a) \/ SkipEvent(a) \/ MoveEvent(a)) /\ pass'[a].listing # {}
  <2>1. ~Raise(a)
    BY <1>5 DEF Raise, NoPass
  <2>2. /\ pass'[a].listing = pass[a].listing /\ pass'[a].left = pass[a].left \ {nm}
        /\ pass'[a].errKeys = pass[a].errKeys /\ pass'[a].now = pass[a].now
    <3>1. pass'[a] = NextIteration(a) \/ pass'[a] = Done(a)
      BY <1>5, <2>1 DEF RejectName, SkipEvent, MoveEvent
    <3>2. NextIteration(a) = [pass[a] EXCEPT !.left = @ \ {nm}] /\ NextIteration(a) \in PassRecords
      BY <1>0 DEF NextIteration
    <3> QED
      BY <1>0, <3>1, <3>2 DEF Done
  <2>3. apc'[a] = "loop" /\ UNCHANGED <<bo, name>>
    BY <1>5, <2>1 DEF RejectName, SkipEvent, MoveEvent, InLoop, queueVars
  <2>4. ASSUME NEW x \in Events, dir'[x] = "pdq", name[x] = nm
        PROVE  BadFileName(nm) \/ HeldBack(a, SvcKey(nm))
    BY <1>5, <2>1, <2>4 DEF RejectName, SkipEvent, MoveEvent, Rename
  <2> HIDE DEF nm
  <2> QED
    BY <2>2, <2>3, <2>4, PassKept
<1>6. CASE BackOff(a)
  <2>1. /\ pass'[a].listing = pass[a].listing /\ pass'[a].left = pass[a].left \ {nm}
        /\ pass'[a].errKeys = pass[a].errKeys \cup {SvcKey(nm)} /\ pass'[a].now = pass[a].now
    BY <1>0, <1>6 DEF BackOff, Done, NextIteration
  <2>2. apc'[a] = "loop" /\ bo'[a] = Bo!Increment(bo[a], SvcKey(nm), clock)
    BY <1>6 DEF BackOff
  <2>3. UNCHANGED name
    BY <1>6 DEF BackOff, queueVars
  <2>4. \A k \in Keys : k # SvcKey(nm) => bo'[a].retry[k] = bo[a].retry[k]
    BY <2>2 DEF Bo!Increment, Bo!BackoffInfos
  <2> HIDE DEF nm
  <2>5. \A k \in Keys : HeldBack(a, k) => HeldBack(a, k)'
    BY <2>1, <2>4
  <2>6. \A x \in Events : name[x] \in pass[a].left \ pass'[a].left => HeldBack(a, SvcKey(name[x]))'
    BY <2>1, <2>3
  <2> QED
    BY <2>1, <2>2, <2>5, <2>6, PassKept
<1> QED
  BY <1>1, <1>2, <1>3, <1>4, <1>5, <1>6
  DEF Start, Stop, Crash, Forget, ThreadStep, LoadCounters, Boot, Tick, PassStep, CleanupStep, Exit, AcquireLock,
      EndOfLoop, StopAll, StoreBackoff, StoreCounters, ReleaseLock, BeginCleanup, RemoveOld, NextPlace,
      NoPass, Between

\* An agent sends what it has just found not to be held back.
LEMMA FreelyStep ==
  ASSUME LossInv, SentFreely, [Next]_vars
  PROVE  SentFreely'
<1>1. ASSUME NEW b \in Agents, apc'[b] = apc[b], pass'[b] = pass[b], bo'[b] = bo[b]
      PROVE  HeldBack(b, SvcKey(Current(b))) <=> HeldBack(b, SvcKey(Current(b)))'
  BY <1>1 DEF HeldBack, Bo!BackedOff, Current
<1>2. ASSUME NEW a \in Agents, Start(a) \/ ThreadStep(a) \/ Stop(a) \/ Crash(a)
      PROVE  SentFreely'
  <2>1. ASSUME NEW b \in Agents \ {a}
        PROVE  apc'[b] = apc[b] /\ pass'[b] = pass[b] /\ bo'[b] = bo[b]
    BY <1>2, OthersAlone DEF LossInv
  <2>2. ASSUME apc'[a] = "send"
        PROVE  ~HeldBack(a, SvcKey(Current(a)))'
    <3>1. pass[a] \in PassRecords /\ apc \in [Agents -> AgentStates]
      BY CountTypes DEF LossInv
    <3>2. \/ ReadEvent(a) /\ ~HeldBack(a, SvcKey(Current(a)))
          \/ apc[a] = "send" /\ UNCHANGED <<pass, bo>>
      BY <1>2, <2>2, <3>1
      DEF Start, Stop, Crash, Forget, ThreadStep, LoadCounters, Boot, Tick, PassStep, CleanupStep, Exit, AcquireLock,
          ListQueue, EndOfLoop, RejectName, SkipEvent, ReadEvent, SendEvent, MoveEvent, BackOff, StopAll,
          StoreBackoff, StoreCounters, ReleaseLock, BeginCleanup, RemoveOld, NextPlace, Goto, Raise, InLoop
    <3>3. CASE ReadEvent(a) /\ ~HeldBack(a, SvcKey(Current(a)))
      <4>1. ~Raise(a)
        BY <2>2, <3>1 DEF Raise, Goto
      <4>2. \/ \E e : pass'[a] = [pass[a] EXCEPT !.event = e, !.code = "BAD_ENTRY"]
            \/ \E e : pass'[a] = [pass[a] EXCEPT !.event = e]
        BY <3>1, <3>3, <4>1, CountTypes DEF ReadEvent, InPass, LossInv
      <4>3. /\ pass'[a].left = pass[a].left /\ pass'[a].errKeys = pass[a].errKeys
            /\ pass'[a].now = pass[a].now
        BY <3>1, <4>2 DEF PassRecords
      <4>4. UNCHANGED bo
        BY <3>3 DEF ReadEvent
      <4> QED
        BY <3>3, <4>3, <4>4 DEF HeldBack, Bo!BackedOff, Current
    <3>4. CASE apc[a] = "send" /\ UNCHANGED <<pass, bo>>
      BY <3>4 DEF SentFreely, HeldBack, Bo!BackedOff, Current
    <3> QED
      BY <3>2, <3>3, <3>4
  <2> QED
    BY <1>1, <2>1, <2>2 DEF SentFreely
<1>3. CASE UNCHANGED <<apc, pass, bo>>
  BY <1>1, <1>3 DEF SentFreely
<1>4. ASSUME NEW r \in Retriers, RetryStep(r)
      PROVE  UNCHANGED <<apc, pass, bo>>
  BY <1>4 DEF RetryStep, RetryStart, RetryStore, RetryList, RetryMove, RetryEnd, agentVars, taskVars
<1>5. ASSUME Clock \/ UNCHANGED vars \/ \E e \in Events : Sender(e)
      PROVE  UNCHANGED <<apc, pass, bo>>
  BY <1>5 DEF Clock, vars, Sender, agentVars, taskVars
<1> QED
  BY <1>2, <1>3, <1>4, <1>5 DEF Next

\* What anybody does keeps the order of every pass.
LEMMA OrderStep ==
  ASSUME Retriers = {}, OrderInv, [Next]_vars
  PROVE  OrderInv'
<1>1. LossInv'
  BY LossStep DEF OrderInv
<1>0. SentFreely'
  BY FreelyStep DEF OrderInv
<1>2. ASSUME NEW a \in Agents, Start(a) \/ ThreadStep(a) \/ Stop(a) \/ Crash(a)
      PROVE  OrderInv'
  <2>1. ASSUME NEW b \in Agents \ {a}
        PROVE  apc'[b] = apc[b] /\ pass'[b] = pass[b] /\ bo'[b] = bo[b]
    BY <1>2, OthersAlone DEF OrderInv, LossInv
  <2>2. ASSUME NEW b \in Agents \ {a}
        PROVE  \A k : HeldBack(b, k) <=> HeldBack(b, k)'
    BY <2>1 DEF HeldBack, Bo!BackedOff
  <2>3. ASSUME NEW b \in Agents
        PROVE  /\ \A nm \in pass'[b].listing : \E e \in Events : Published(e)' /\ name'[e] = nm
               /\ \A x \in Events :
                    /\ dir'[x] = "pdq"
                    /\ name'[x] \in pass'[b].listing \ pass'[b].left
                    /\ ~BadFileName(name'[x])
                    => Reused(x)' \/ HeldBack(b, SvcKey(name[x]))'
               /\ apc'[b] \notin {"loop", "send", "answered"} => pass'[b].listing = {}
    <3>1. CASE b = a
      BY <1>2, <3>1, OwnPassKept
    <3>2. CASE b # a
      BY <2>1, <2>2, <3>2, PassKept DEF OrderInv, Between
    <3> QED
      BY <3>1, <3>2
  <2>4. ListedWere' /\ LeftBehind' /\ Between'
    BY <2>3 DEF ListedWere, LeftBehind, Between
  <2> QED
    BY <1>0, <1>1, <2>4 DEF OrderInv
<1>3. ASSUME UNCHANGED <<apc, pass, bo>>
      PROVE  OrderInv'
  <2>1. ASSUME NEW b \in Agents
        PROVE  \A k : HeldBack(b, k) <=> HeldBack(b, k)'
    BY <1>3 DEF HeldBack, Bo!BackedOff
  <2>2. ASSUME NEW b \in Agents
        PROVE  /\ \A nm \in pass'[b].listing : \E e \in Events : Published(e)' /\ name'[e] = nm
               /\ \A x \in Events :
                    /\ dir'[x] = "pdq"
                    /\ name'[x] \in pass'[b].listing \ pass'[b].left
                    /\ ~BadFileName(name'[x])
                    => Reused(x)' \/ HeldBack(b, SvcKey(name[x]))'
    BY <1>3, <2>1, PassKept
  <2>3. ListedWere' /\ LeftBehind'
    BY <2>2 DEF ListedWere, LeftBehind
  <2>4. Between'
    BY <1>3 DEF OrderInv, Between
  <2> QED
    BY <1>0, <1>1, <2>3, <2>4 DEF OrderInv
<1>4. ASSUME Clock \/ UNCHANGED vars \/ \E e \in Events : Sender(e)
      PROVE  UNCHANGED <<apc, pass, bo>>
  BY <1>4 DEF Clock, vars, Sender, agentVars, taskVars
<1> QED
  BY <1>2, <1>3, <1>4 DEF Next

\* As long as nobody retries events: with any number of agents and events, no
\* event is sent while one of its service key with an earlier name, that the
\* pass has listed, is still in the queue.
THEOREM SentInOrder == Retriers = {} => (Spec => []InOrder)
<1> SUFFICES ASSUME Retriers = {}
             PROVE  Spec => []InOrder
  OBVIOUS
<1>1. PDQueueInit => OrderInv
  BY LossInit DEF PDQueueInit, OrderInv, ListedWere, LeftBehind, Between, SentFreely, NoPass
<1>2. OrderInv /\ [Next]_vars => OrderInv'
  BY OrderStep
<1>3. OrderInv => InOrder
  <2> SUFFICES ASSUME OrderInv, NEW a \in Agents, apc[a] = "send", NEW x \in Events,
                      dir[x] = "pdq", name[x] \in pass[a].listing,
                      SvcKey(name[x]) = SvcKey(Current(a)), Before(name[x], Current(a))
               PROVE  Reused(x)
    BY DEF InOrder
  <2>1. pass[a].left \subseteq Names /\ name[x] \in Names
    BY CountTypes, PassTypes DEF OrderInv, LossInv, TypeInv, DirTypes, QueueDirTypeOK
  <2>2. name[x] \notin pass[a].left
    <3>1. ASSUME name[x] \in pass[a].left
          PROVE  FALSE
      <4>1. Current(a) \in pass[a].left /\ (name[x] = Current(a) \/ Before(Current(a), name[x]))
        BY <2>1, <3>1, FirstIsLeast DEF Current
      <4>2. /\ StampOf(name[x]) \in Nat /\ SvcKey(name[x]) \in Nat
            /\ StampOf(Current(a)) \in Nat /\ SvcKey(Current(a)) \in Nat
        <5>1. name[x] \in Nat \X (Keys \cup {NoKey}) /\ Current(a) \in Nat \X (Keys \cup {NoKey})
          BY <2>1, <4>1 DEF Names
        <5>2. Keys \cup {NoKey} \subseteq Nat
          BY ConstantTypes DEF NoKey
        <5> QED
          BY <5>1, <5>2 DEF StampOf, SvcKey
      <4> QED
        BY <4>1, <4>2 DEF Before
    <3> QED
      BY <3>1
  <2>3. ~BadFileName(name[x])
    BY DEF OrderInv, LossInv, TypeInv, Processed, BadFileName
  <2> QED
    BY <2>2, <2>3 DEF OrderInv, LeftBehind, SentFreely
<1> QED
  BY <1>1, <1>2, <1>3, PTL DEF Spec

-----------------------------------------------------------------------------
(* Not twice *)

OneAgentOnly == \A a, b \in Agents : a = b

\* What an agent has in hand is in the queue, unless a retried event of that
\* name has replaced it.
HandInQueue ==
  \A a \in Agents : apc[a] \in {"send", "answered"} => dir[pass[a].event] \in {"pdq", "clobbered"}

\* What the Events API acknowledged has left the queue, or is about to.
Settled ==
  \A e \in accepted :
    /\ Published(e)
    /\ \/ dir[e] \notin {"pdq", "err"}
       \/ \E a \in Agents : apc[a] = "answered" /\ Code(a) = "CONSUMED" /\ pass[a].event = e

NotKilled == budget.crash = 0

OnceInv == LossInv /\ HandInQueue /\ Settled /\ NoResend /\ NotKilled

\* Steps of others than the agent do not put back what was acknowledged.
LEMMA OthersSettle ==
  ASSUME OnceInv, UNCHANGED <<apc, pass, accepted, budget>>, LossInv', NamesKept,
         \A e \in Events : \/ dir'[e] = dir[e]
                           \/ ~Published(e)
                           \/ dir[e] = "pdq" /\ dir'[e] = "clobbered"
                           \/ dir[e] = "err"
  PROVE  OnceInv'
<1> USE DEF OnceInv
<1>1. NoResend' /\ NotKilled'
  BY DEF NoResend, NotKilled
<1>2. HandInQueue'
  <2>1. \A a \in Agents : apc[a] \in {"send", "answered"} => pass[a].event \in Events
    BY DEF LossInv, TypeInv, Processed
  <2> QED
    BY <2>1 DEF HandInQueue, Published
<1>3. Settled'
  <2> SUFFICES ASSUME NEW e \in accepted
               PROVE  /\ Published(e)'
                      /\ \/ dir'[e] \notin {"pdq", "err"}
                         \/ \E a \in Agents : apc[a] = "answered" /\ Code(a) = "CONSUMED" /\ pass[a].event = e
    BY DEF Settled, Code
  <2>1. e \in Events
    BY CountTypes DEF LossInv, TypeInv, TaskTypes, HistoryTypeOK
  <2> QED
    BY <2>1 DEF Settled, NamesKept, Published, Code
<1> QED
  BY <1>1, <1>2, <1>3

\* A step of the only agent, which nobody kills, sends nothing that was
\* acknowledged, and puts away what is acknowledged now.
LEMMA AgentSettles ==
  ASSUME OneAgentOnly, OnceInv, [Next]_vars, NEW a \in Agents,
         Start(a) \/ ThreadStep(a) \/ Stop(a) \/ Crash(a)
  PROVE  OnceInv'
<1> USE CountTypes DEF OnceInv, LossInv, Code
<1> DEFINE e == pass[a].event
<1>0. LossInv' /\ NamesKept /\ accepted \subseteq Events /\ pass[a] \in PassRecords
  BY LossStep, NamesStay DEF TypeInv, TaskTypes, HistoryTypeOK
<1>1. NotKilled' /\ ~Crash(a)
  BY DEF NotKilled, Start, ThreadStep, Stop, Crash, LoadCounters, Boot, Fault, Tick, PassStep, CleanupStep, Exit, AcquireLock,
      ListQueue, EndOfLoop, RejectName, SkipEvent, ReadEvent, SendEvent, MoveEvent, BackOff, StopAll,
      StoreBackoff, StoreCounters, ReleaseLock, BeginCleanup, RemoveOld, NextPlace, TypeInv, TaskTypes,
      StoreTypeOK, Budgets
<1>2. CASE /\ UNCHANGED <<dir, accepted>>
           /\ apc'[a] \in {"send", "answered"} => apc'[a] = apc[a] /\ pass'[a] = pass[a]
           /\ apc[a] = "answered" /\ Code(a) = "CONSUMED" => apc'[a] = apc[a]
  BY <1>0, <1>1, <1>2 DEF OneAgentOnly, HandInQueue, Settled, NoResend, Published
<1>3. CASE ReadEvent(a)
  <2>1. CASE Raise(a)
    <3>1. UNCHANGED <<dir, accepted>> /\ apc[a] = "loop" /\ apc'[a] = "release"
      BY <1>3, <2>1 DEF ReadEvent, InLoop, Raise, Goto, queueVars, historyVars
    <3> QED
      BY <1>2, <3>1
  <2>2. CASE ~Raise(a)
    <3> DEFINE f == FileOf("pdq", Current(a))
    <3>1. f \in Events /\ dir[f] = "pdq"
      BY <1>3, <2>2, FileOfType DEF ReadEvent
    <3>2. pass'[a] = [pass[a] EXCEPT !.event = f, !.code = "BAD_ENTRY"] \/ pass'[a] = [pass[a] EXCEPT !.event = f]
      BY <1>3, <2>2 DEF ReadEvent, InPass
    <3> HIDE DEF f
    <3>3. pass'[a].event = f
      BY <1>0, <3>2 DEF PassRecords
    <3>4. UNCHANGED <<dir, accepted>> /\ apc[a] = "loop"
      BY <1>3 DEF ReadEvent, InLoop, queueVars, historyVars
    <3>5. f \notin accepted
      BY <3>1, <3>4 DEF Settled, OneAgentOnly
    <3>6. HandInQueue' /\ NoResend'
      BY <3>1, <3>3, <3>4, <3>5 DEF HandInQueue, NoResend, OneAgentOnly
    <3>7. Settled'
      BY <3>4 DEF Settled, OneAgentOnly, Published
    <3> QED
      BY <1>0, <1>1, <3>6, <3>7
  <2> QED
    BY <2>1, <2>2
<1>4. CASE SendEvent(a)
  <2>1. PICK answer \in AllAnswers :
          /\ IF ConsumeCode(answer) = "RAISES"
             THEN Raise(a)
             ELSE Goto(a, "answered") /\ InPass(a, [pass[a] EXCEPT !.code = ConsumeCode(answer)])
          /\ accepted' = IF answer = "ok" THEN accepted \cup {e} ELSE accepted
    BY <1>4, PDQueueAssumption DEF SendEvent, PossibleAnswers
  <2>2. UNCHANGED dir /\ apc[a] = "send" /\ Published(e) /\ dir[e] \in {"pdq", "clobbered"}
    BY <1>4 DEF SendEvent, queueVars, InHand, HandInQueue
  <2>3. apc'[a] # "send"
    BY <2>1 DEF Raise, Goto
  <2>4. apc'[a] = "answered" => pass'[a].event = e /\ pass'[a].code = ConsumeCode(answer)
    BY <1>0, <2>1 DEF Raise, Goto, InPass, PassRecords
  <2>5. answer = "ok" => apc'[a] = "answered" /\ pass'[a].code = "CONSUMED" /\ pass'[a].event = e
    <3>1. ConsumeCode("ok") = "CONSUMED"
      BY DEF ConsumeCode, MayBeBad, ComeAgain
    <3>2. answer = "ok" => apc'[a] = "answered"
      BY <2>1, <3>1 DEF Goto
    <3> QED
      BY <2>4, <3>1, <3>2
  <2>6. HandInQueue' /\ NoResend'
    BY <2>2, <2>3, <2>4 DEF HandInQueue, NoResend, OneAgentOnly
  <2>7. ASSUME NEW x \in accepted'
        PROVE  /\ Published(x)'
               /\ \/ dir'[x] \notin {"pdq", "err"}
                  \/ \E b \in Agents : (apc[b] = "answered" /\ Code(b) = "CONSUMED" /\ pass[b].event = x)'
    <3>1. CASE x \in accepted
      BY <2>2, <3>1 DEF Settled, OneAgentOnly, Published
    <3>2. CASE x \notin accepted
      BY <2>1, <2>2, <2>5, <2>7, <3>2 DEF Published
    <3> QED
      BY <3>1, <3>2
  <2>8. Settled'
    BY <2>7 DEF Settled
  <2> QED
    BY <1>0, <1>1, <2>6, <2>8
<1>5. CASE RejectName(a) \/ MoveEvent(a) \/ RemoveOld(a)
  <2>1. UNCHANGED accepted /\ apc'[a] \notin {"send", "answered"}
    BY <1>5 DEF RejectName, MoveEvent, RemoveOld, InLoop, Raise, Goto, historyVars
  <2>2. ASSUME NEW x \in accepted
        PROVE  dir'[x] \notin {"pdq", "err"}
    <3>1. x \in Events /\ Published(x)
      BY <1>0 DEF Settled
    <3>2. CASE MoveEvent(a) /\ Code(a) = "CONSUMED" /\ x = e
      <4>1. name[x] = Current(a) /\ dir[x] \in {"pdq", "clobbered"}
        BY <3>2 DEF MoveEvent, InHand, HandInQueue
      <4>2. CASE Current(a) \in QueuedFiles("pdq")
        BY <3>1, <3>2, <4>1, <4>2 DEF MoveEvent, Rename
      <4>3. CASE Current(a) \notin QueuedFiles("pdq")
        <5>1. dir[x] # "pdq" /\ UNCHANGED dir
          BY <3>1, <3>2, <4>1, <4>3 DEF MoveEvent, QueuedFiles
        <5> QED
          BY <4>1, <5>1
      <4> QED
        BY <4>2, <4>3
    <3>3. CASE ~(MoveEvent(a) /\ Code(a) = "CONSUMED" /\ x = e)
      <4>1. dir[x] \notin {"pdq", "err"}
        BY <1>5, <3>3 DEF Settled, OneAgentOnly, RejectName, MoveEvent, RemoveOld, InLoop
      <4> QED
        BY <1>5, <3>1, <4>1 DEF RejectName, MoveEvent, RemoveOld, Rename, Remove
    <3> QED
      BY <3>2, <3>3
  <2>3. HandInQueue' /\ NoResend'
    BY <2>1 DEF HandInQueue, NoResend, OneAgentOnly
  <2>4. Settled'
    BY <1>0, <2>1, <2>2 DEF Settled, NamesKept
  <2> QED
    BY <1>0, <1>1, <2>3, <2>4
<1>6. CASE Start(a) \/ Exit(a) \/ LoadCounters(a) \/ Boot(a) \/ Tick(a) \/ AcquireLock(a) \/ ListQueue(a) \/ EndOfLoop(a)
           \/ SkipEvent(a) \/ StoreBackoff(a) \/ StoreCounters(a) \/ ReleaseLock(a)
           \/ BeginCleanup(a) \/ NextPlace(a)
  <2>1. UNCHANGED <<dir, accepted>> /\ apc[a] \notin {"send", "answered"}
    BY <1>6 DEF Start, LoadCounters, Boot, Tick, Exit, AcquireLock, ListQueue, EndOfLoop, SkipEvent, InLoop,
           StoreBackoff, StoreCounters, ReleaseLock, BeginCleanup, NextPlace, queueVars, historyVars
  <2>2. apc'[a] \notin {"send", "answered"}
    BY <1>6, <2>1 DEF Start, LoadCounters, Boot, Tick, Exit, Forget, AcquireLock, ListQueue, EndOfLoop, SkipEvent, InLoop,
           StoreBackoff, StoreCounters, ReleaseLock, BeginCleanup, NextPlace, Goto, Raise
  <2> QED
    BY <1>2, <2>1, <2>2
<1>7. CASE BackOff(a) \/ StopAll(a)
  <2>1. UNCHANGED <<dir, accepted>> /\ Code(a) # "CONSUMED" /\ apc'[a] \notin {"send", "answered"}
    BY <1>7 DEF BackOff, StopAll, Goto, queueVars, historyVars
  <2> QED
    BY <1>2, <2>1
<1>8. CASE Stop(a)
  BY <1>2, <1>8 DEF Stop, queueVars, historyVars
<1> QED
  BY <1>1, <1>3, <1>4, <1>5, <1>6, <1>7, <1>8 DEF ThreadStep, PassStep, CleanupStep

\* The invariant holds initially, if agents are never killed.
LEMMA OnceInit == Crashes = 0 /\ PDQueueInit => OnceInv
  BY LossInit DEF PDQueueInit, OnceInv, HandInQueue, Settled, NoResend, NotKilled

\* Every step keeps it, if there is one agent.
LEMMA OnceStep ==
  ASSUME OneAgentOnly, OnceInv, [Next]_vars
  PROVE  OnceInv'
<1>1. LossInv' /\ NamesKept
  BY LossStep, NamesStay DEF OnceInv
<1>2. ASSUME NEW e \in Events, Sender(e)
      PROVE  OnceInv'
  <2>1. UNCHANGED <<apc, pass, accepted, budget>>
    BY <1>2 DEF Sender, agentVars, taskVars, historyVars
  <2>2. \A x \in Events : dir'[x] = dir[x] \/ ~Published(x)
    BY <1>2 DEF OnceInv, LossInv, TypeInv, DirTypes, QueueDirTypeOK, NamedWhenLinked, Published,
           Sender, SenderStep, EnqueueStep, DropStray, StartEnqueue, OpenTmp, TryNext, WriteTmp, LinkPdq,
           UnlinkTmp, KillSender, queueVars
  <2> QED
    BY <1>1, <2>1, <2>2, OthersSettle
<1>3. ASSUME NEW r \in Retriers, RetryStep(r)
      PROVE  OnceInv'
  <2>1. UNCHANGED <<apc, pass, accepted, budget>>
    BY <1>3 DEF RetryStep, RetryStart, RetryStore, RetryList, RetryMove, RetryEnd, agentVars, taskVars, historyVars
  <2>2. UNCHANGED dir \/ \E nm : Rename(nm, "err", "pdq")
    BY <1>3 DEF RetryStep, RetryStart, RetryStore, RetryList, RetryMove, RetryEnd, queueVars
  <2>3. \A x \in Events : dir'[x] = dir[x] \/ dir[x] = "err" \/ (dir[x] = "pdq" /\ dir'[x] = "clobbered")
    BY <2>2 DEF Rename
  <2> QED
    BY <1>1, <2>1, <2>3, OthersSettle
<1>4. CASE Clock \/ UNCHANGED vars
  <2>1. UNCHANGED <<dir, apc, pass, accepted, budget>>
    BY <1>4 DEF Clock, vars, queueVars, agentVars, taskVars, historyVars
  <2> QED
    BY <1>1, <2>1, OthersSettle
<1> QED
  BY <1>2, <1>3, <1>4, AgentSettles DEF Next

\* With one agent that nobody kills, and any number of events, stops,
\* enqueuers and retry commands: what the Events API acknowledged is not sent
\* again.
THEOREM SentOnce == OneAgentOnly /\ Crashes = 0 => (Spec => []NoResend)
<1> SUFFICES ASSUME OneAgentOnly, Crashes = 0
             PROVE  Spec => []NoResend
  OBVIOUS
<1>1. PDQueueInit => OnceInv
  BY OnceInit
<1>2. OnceInv /\ [Next]_vars => OnceInv'
  BY OnceStep
<1>3. OnceInv => NoResend
  BY DEF OnceInv
<1> QED
  BY <1>1, <1>2, <1>3, PTL DEF Spec

-----------------------------------------------------------------------------
(* Back-off is honoured *)

\* What is left of a pass is in the queue, and what is sent is left.
LeftInQueue ==
  \A a \in Agents :
    /\ apc[a] \in {"loop", "send", "answered"} => pass[a].left \subseteq QueuedFiles("pdq")
    /\ apc[a] \in {"send", "answered"} => pass[a].left # {}

\* The time that a key was told to wait for, as long as it has not come, is in
\* the memory of the agent that runs; and in the database, unless the agent is
\* in a pass at the end of which it will be written.
KeptInMind ==
  \A a \in Agents, k \in Keys : notBefore[k] > clock =>
    /\ apc[a] # "off" => bo[a].retry[k] = notBefore[k]
    /\ apc[a] \notin {"loop", "send", "answered", "store"} => bodb.next_retries[k] = notBefore[k]

NowIsPast == \A a \in Agents : pass[a].now <= clock
NoTrouble == budget.crash = 0 /\ budget.fault = 0
NeverUnreadable == "unreadable" \notin Answers

BackInv == LossInv /\ SentFreely /\ LeftInQueue /\ KeptInMind /\ NowIsPast /\ NoTrouble

\* What enqueuers and retry commands do to the queue takes no name from it.
LEMMA OthersAdd ==
  ASSUME LossInv, (\E e \in Events : Sender(e)) \/ (\E r \in Retriers : RetryStep(r))
  PROVE  QueuedFiles("pdq") \subseteq QueuedFiles("pdq")'
<1> USE DEF LossInv, TypeInv, DirTypes, QueueDirTypeOK
<1>1. ASSUME NEW e \in Events, Sender(e)
      PROVE  QueuedFiles("pdq") \subseteq QueuedFiles("pdq")'
  <2>1. \A x \in Events : dir[x] = "pdq" => dir'[x] = "pdq" /\ name'[x] = name[x]
    BY <1>1 DEF NamedWhenLinked, Sender, SenderStep, EnqueueStep, DropStray, StartEnqueue, OpenTmp, TryNext,
           WriteTmp, LinkPdq, UnlinkTmp, KillSender, queueVars
  <2> QED
    BY <2>1 DEF QueuedFiles
<1>2. ASSUME NEW r \in Retriers, RetryStep(r)
      PROVE  QueuedFiles("pdq") \subseteq QueuedFiles("pdq")'
  <2>1. CASE UNCHANGED dir
    BY <1>2, <2>1 DEF QueuedFiles, RetryStep, RetryStart, RetryStore, RetryList, RetryMove, RetryEnd, queueVars
  <2>2. ASSUME NEW nm \in QueuedFiles("err"), Rename(nm, "err", "pdq"), UNCHANGED name
        PROVE  QueuedFiles("pdq") \subseteq QueuedFiles("pdq")'
    <3>1. PICK y \in Events : dir[y] = "err" /\ name[y] = nm
      BY DEF QueuedFiles
    <3>2. dir'[y] = "pdq" /\ \A x \in Events : dir[x] = "pdq" /\ name[x] # nm => dir'[x] = "pdq"
      BY <2>2, <3>1 DEF Rename
    <3> QED
      BY <2>2, <3>1, <3>2 DEF QueuedFiles
  <2> QED
    BY <1>2, <2>1, <2>2 DEF RetryStep, RetryStart, RetryStore, RetryList, RetryMove, RetryEnd, queueVars
<1> QED
  BY <1>1, <1>2

\* What they do leaves the agents' back-off as it is.
LEMMA OthersHonour ==
  ASSUME BackInv, LossInv', SentFreely', UNCHANGED <<apc, pass, bo, bodb, notBefore, budget>>,
         clock' \in Nat, clock <= clock', QueuedFiles("pdq") \subseteq QueuedFiles("pdq")'
  PROVE  BackInv'
<1> USE CountTypes DEF BackInv, LossInv
<1>1. NowIsPast'
  BY DEF NowIsPast, PassRecords
<1>2. KeptInMind'
  <2>1. \A k \in Keys : notBefore[k] \in Nat
    BY DEF TypeInv, TaskTypes, HistoryTypeOK
  <2> QED
    BY <2>1 DEF KeptInMind
<1>3. LeftInQueue' /\ NoTrouble'
  BY DEF LeftInQueue, NoTrouble
<1> QED
  BY <1>1, <1>2, <1>3

\* The only agent finds what it has listed where it has listed it, and no
\* answer makes it raise: its pass goes on to the end.
LEMMA PassGoesOn ==
  ASSUME OneAgentOnly, NeverUnreadable, BackInv, NEW a \in Agents,
         RejectName(a) \/ ReadEvent(a) \/ SendEvent(a) \/ MoveEvent(a)
  PROVE  ~Raise(a) /\ Current(a) \in pass[a].left /\ Current(a) \in QueuedFiles("pdq")
<1> USE CountTypes DEF BackInv, LossInv
<1>1. pass[a].left # {} /\ pass[a].left \subseteq QueuedFiles("pdq") /\ pass[a].left \subseteq Names
  BY PassTypes DEF RejectName, ReadEvent, SendEvent, MoveEvent, InLoop, LeftInQueue
<1>2. Current(a) \in pass[a].left
  BY <1>1, FirstIsLeast DEF Current
<1>3. CASE RejectName(a) \/ ReadEvent(a) \/ MoveEvent(a)
  <2>1. apc'[a] # "release"
    BY <1>1, <1>2, <1>3 DEF RejectName, ReadEvent, MoveEvent, InLoop, Goto
  <2> QED
    BY <1>1, <1>2, <2>1 DEF Raise, Goto
<1>4. CASE SendEvent(a)
  <2>1. \A answer \in Answers : ConsumeCode(answer) # "RAISES"
    BY PDQueueAssumption DEF NeverUnreadable, ConsumeCode, MayBeBad, ComeAgain, AllAnswers
  <2>2. apc'[a] = "answered"
    BY <1>4, <2>1 DEF SendEvent, PossibleAnswers, Goto
  <2> QED
    BY <1>1, <1>2, <2>2 DEF Raise, Goto
<1> QED
  BY <1>1, <1>2, <1>3, <1>4

\* A step of the agent keeps what is left of its pass in the queue.
LEMMA LeftStays ==
  ASSUME OneAgentOnly, NeverUnreadable, BackInv, NEW a \in Agents,
         Start(a) \/ ThreadStep(a) \/ Stop(a)
  PROVE  LeftInQueue'
<1> USE CountTypes DEF BackInv, LossInv
<1> DEFINE nm == Current(a)
<1> SUFFICES /\ apc'[a] \in {"loop", "send", "answered"} => pass'[a].left \subseteq QueuedFiles("pdq")'
             /\ apc'[a] \in {"send", "answered"} => pass'[a].left # {}
  BY DEF LeftInQueue, OneAgentOnly
<1>1. CASE apc'[a] \notin {"loop", "send", "answered"}
  BY <1>1
<1>2. CASE ListQueue(a)
  <2>1. UNCHANGED <<dir, name>>
    BY <1>2 DEF ListQueue, queueVars
  <2>2. CASE QueuedFiles("pdq") = {}
    BY <1>2, <2>2 DEF ListQueue, Raise, Goto
  <2>3. CASE QueuedFiles("pdq") # {}
    <3>1. First(QueuedFiles("pdq")) \in QueuedFiles("pdq")
      BY <2>3, FilesAreNames, FirstIsLeast DEF TypeInv
    <3>2. pass'[a].left \subseteq QueuedFiles("pdq") /\ apc'[a] = "loop"
      BY <1>2, <2>3, <3>1 DEF ListQueue, InPass, Goto
    <3> QED
      BY <2>1, <3>2 DEF QueuedFiles
  <2> QED
    BY <2>2, <2>3
<1>3. CASE ReadEvent(a) \/ SendEvent(a)
  <2>1. ~Raise(a) /\ nm \in pass[a].left /\ UNCHANGED <<dir, name>>
    BY <1>3, PassGoesOn DEF ReadEvent, SendEvent, queueVars
  <2>2. \/ \E e : pass'[a] = [pass[a] EXCEPT !.event = e, !.code = "BAD_ENTRY"]
        \/ \E e : pass'[a] = [pass[a] EXCEPT !.event = e]
        \/ \E c : pass'[a] = [pass[a] EXCEPT !.code = c]
    <3>1. CASE ReadEvent(a)
      BY <2>1, <3>1 DEF ReadEvent, InPass
    <3>2. CASE SendEvent(a)
      BY <2>1, <3>2 DEF SendEvent, InPass
    <3> QED
      BY <1>3, <3>1, <3>2
  <2>3. pass'[a].left = pass[a].left
    BY <2>2 DEF PassRecords
  <2>4. apc[a] \in {"loop", "send", "answered"}
    BY <1>3 DEF ReadEvent, SendEvent, InLoop
  <2> QED
    BY <2>1, <2>3, <2>4 DEF LeftInQueue, QueuedFiles
<1>4. CASE RejectName(a) \/ MoveEvent(a)
  <2>1. ~Raise(a) /\ nm \in QueuedFiles("pdq")
    BY <1>4, PassGoesOn
  <2>2. pass'[a].left = pass[a].left \ {nm}
    <3>1. pass'[a] = NextIteration(a) \/ pass'[a] = Done(a)
      BY <1>4, <2>1 DEF RejectName, MoveEvent, InPass
    <3> QED
      BY <3>1 DEF Done, NextIteration, PassRecords
  <2>3. apc[a] \in {"loop", "answered"} /\ apc'[a] = "loop" /\ UNCHANGED name
    BY <1>4, <2>1 DEF RejectName, MoveEvent, InLoop, Goto
  <2>4. \E to : Rename(nm, "pdq", to)
    BY <1>4, <2>1 DEF RejectName, MoveEvent
  <2>5. \A x \in Events : dir[x] = "pdq" /\ name[x] # nm => dir'[x] = "pdq"
    BY <2>4 DEF Rename
  <2> QED
    BY <2>2, <2>3, <2>5 DEF LeftInQueue, QueuedFiles
<1>5. CASE SkipEvent(a) \/ BackOff(a)
  <2>1. pass'[a].left = pass[a].left \ {nm}
    <3>1. Done(a) \in PassRecords /\ Done(a).left = NextIteration(a).left
      BY Iterations DEF TypeInv, Done, PassRecords
    <3>2. NextIteration(a).left = pass[a].left \ {nm}
      BY DEF NextIteration, PassRecords
    <3>3. pass'[a].left \in {NextIteration(a).left, Done(a).left}
      BY <1>5, <3>1 DEF SkipEvent, BackOff, InPass, PassRecords
    <3> QED
      BY <3>1, <3>2, <3>3
  <2>2. apc[a] \in {"loop", "answered"} /\ apc'[a] = "loop" /\ UNCHANGED <<dir, name>>
    BY <1>5 DEF SkipEvent, BackOff, InLoop, Goto, queueVars
  <2> QED
    BY <2>1, <2>2 DEF LeftInQueue, QueuedFiles
<1>6. CASE Stop(a)
  BY <1>6 DEF Stop, LeftInQueue, queueVars, QueuedFiles
<1> QED
  BY <1>1, <1>2, <1>3, <1>4, <1>5, <1>6
  DEF Start, ThreadStep, LoadCounters, Boot, Tick, PassStep, CleanupStep, Exit, Forget, AcquireLock,
      EndOfLoop, StopAll, StoreBackoff, StoreCounters, ReleaseLock, BeginCleanup, RemoveOld, NextPlace, Goto

\* A step of the agent keeps in mind what the keys were told.
LEMMA AgentMinds ==
  ASSUME OneAgentOnly, NeverUnreadable, BackInv, NEW a \in Agents,
         Start(a) \/ ThreadStep(a) \/ Stop(a)
  PROVE  KeptInMind' /\ NowIsPast'
<1> USE CountTypes DEF BackInv, LossInv, KeptInMind
<1>0. /\ \A k \in Keys : notBefore[k] \in Nat /\ bo[a].retry[k] \in Nat /\ bodb.next_retries[k] \in Nat
      /\ pass[a].now \in Nat /\ clock \in Nat
  BY DEF TypeInv, TaskTypes, HistoryTypeOK, Bo!BackoffInfos, Bo!BackoffDbs, PassRecords
<1>1. UNCHANGED clock
  BY DEF Start, ThreadStep, Stop, LoadCounters, Boot, Tick, PassStep, CleanupStep, Exit, AcquireLock, ListQueue, EndOfLoop,
         RejectName, SkipEvent, ReadEvent, SendEvent, MoveEvent, BackOff, StopAll, StoreBackoff,
         StoreCounters, ReleaseLock, BeginCleanup, RemoveOld, NextPlace
<1> SUFFICES /\ \A k \in Keys : notBefore'[k] > clock =>
                  /\ apc'[a] # "off" => bo'[a].retry[k] = notBefore'[k]
                  /\ apc'[a] \notin {"loop", "send", "answered", "store"} =>
                       bodb'.next_retries[k] = notBefore'[k]
             /\ pass'[a].now <= clock
  BY <1>1 DEF NowIsPast, OneAgentOnly
<1>2. pass'[a].now <= clock
  <2>1. pass[a].now <= clock
    BY DEF NowIsPast
  <2>2. CASE UNCHANGED pass
    BY <2>1, <2>2
  <2>3. CASE pass'[a] = NoPass
    BY <1>0, <2>3 DEF NoPass
  <2>4. CASE ListQueue(a)
    <3>1. pass'[a].now \in {0, clock}
      BY <2>4 DEF ListQueue, Raise, InPass, NoPass
    <3> QED
      BY <1>0, <3>1
  <2>5. CASE pass'[a] \in {NextIteration(a), Done(a)} \/ BackOff(a)
    <3>1. Done(a) \in PassRecords /\ Done(a).now = NextIteration(a).now
      BY Iterations DEF TypeInv, Done, PassRecords
    <3>2. NextIteration(a).now = pass[a].now
      BY DEF NextIteration, PassRecords
    <3>3. pass'[a].now \in {NextIteration(a).now, Done(a).now}
      BY <2>5, <3>1 DEF BackOff, InPass, PassRecords
    <3> QED
      BY <2>1, <3>1, <3>2, <3>3
  <2>6. CASE ReadEvent(a) \/ SendEvent(a)
    <3>1. \/ \E e : pass'[a] = [pass[a] EXCEPT !.event = e, !.code = "BAD_ENTRY"]
          \/ \E e : pass'[a] = [pass[a] EXCEPT !.event = e]
          \/ \E c : pass'[a] = [pass[a] EXCEPT !.code = c]
      <4>1. ~Raise(a)
        BY <2>6, PassGoesOn
      <4>2. CASE ReadEvent(a)
        BY <4>1, <4>2 DEF ReadEvent, InPass
      <4>3. CASE SendEvent(a)
        BY <4>1, <4>3 DEF SendEvent, InPass
      <4> QED
        BY <2>6, <4>2, <4>3
    <3> QED
      BY <2>1, <3>1 DEF PassRecords
  <2> QED
    BY <2>2, <2>3, <2>4, <2>5, <2>6
    DEF Start, ThreadStep, Stop, LoadCounters, Boot, Tick, PassStep, CleanupStep, Exit, Forget, AcquireLock, EndOfLoop,
        RejectName, SkipEvent, MoveEvent, StopAll, StoreBackoff, StoreCounters, ReleaseLock,
        BeginCleanup, RemoveOld, NextPlace, Raise, InPass
<1>3. CASE /\ UNCHANGED <<bo, bodb, notBefore>>
           /\ apc'[a] # "off" => apc[a] # "off"
           /\ apc'[a] \in {"loop", "send", "answered", "store"} \/ apc[a] \notin {"loop", "send", "answered", "store"}
  BY <1>2, <1>3
<1>4. CASE Start(a)
  <2>1. /\ bo'[a] = Bo!Load(bodb, clock) /\ UNCHANGED <<bodb, notBefore>> /\ apc[a] = "off"
        /\ apc'[a] = "load"
    BY <1>4 DEF Start, Goto, dbVars, historyVars
  <2>2. \A k \in Keys : bo'[a].retry[k] = IF bodb.next_retries[k] > clock THEN bodb.next_retries[k] ELSE 0
    BY <2>1 DEF Bo!Load, Bo!Update
  <2> QED
    BY <1>0, <1>2, <2>1, <2>2
<1>5. CASE Exit(a)
  BY <1>2, <1>5 DEF Exit, Forget, Goto, dbVars, historyVars
<1>6. CASE ListQueue(a)
  <2>1. /\ UNCHANGED <<bodb, notBefore>> /\ apc[a] = "locked" /\ apc'[a] \in {"loop", "release"}
        /\ bo'[a] \in {bo[a], Bo!Update(bo[a], clock)}
    BY <1>6 DEF ListQueue, Raise, Goto, dbVars, historyVars
  <2>2. \A k \in Keys : bo[a].retry[k] > clock => bo'[a].retry[k] = bo[a].retry[k]
    BY <2>1 DEF Bo!Update
  <2> QED
    BY <1>0, <1>2, <2>1, <2>2
<1>7. CASE BackOff(a)
  <2> DEFINE j == SvcKey(Current(a))
  <2>1. /\ bo'[a] = Bo!Increment(bo[a], j, clock)
        /\ notBefore' = [notBefore EXCEPT ![j] = clock + BackoffInterval]
        /\ apc[a] = "answered" /\ apc'[a] = "loop"
    BY <1>7 DEF BackOff, Goto
  <2> HIDE DEF j
  <2>2. \A k \in Keys : /\ bo'[a].retry[k] = IF k = j THEN clock + BackoffInterval ELSE bo[a].retry[k]
                        /\ notBefore'[k] = IF k = j THEN clock + BackoffInterval ELSE notBefore[k]
    BY <2>1 DEF Bo!Increment, Bo!BackoffInfos, TypeInv, TaskTypes, HistoryTypeOK
  <2> QED
    BY <1>2, <2>1, <2>2
<1>8. CASE StoreBackoff(a)
  <2>1. /\ bodb' = Bo!ToDb(bo[a]) /\ UNCHANGED <<bo, notBefore>>
        /\ apc[a] = "store" /\ apc'[a] = "storeCounters"
    BY <1>8 DEF StoreBackoff, Fault, NoTrouble, Goto, historyVars
  <2> QED
    BY <1>2, <2>1 DEF Bo!ToDb
<1>9. CASE RejectName(a) \/ ReadEvent(a) \/ SendEvent(a) \/ MoveEvent(a)
  <2>1. ~Raise(a)
    BY <1>9, PassGoesOn
  <2>2. apc[a] \in {"loop", "send", "answered"} /\ apc'[a] \in {"loop", "send", "answered"}
    BY <1>9, <2>1 DEF RejectName, ReadEvent, SendEvent, MoveEvent, InLoop, Goto
  <2>3. UNCHANGED <<bo, bodb, notBefore>>
    BY <1>9 DEF RejectName, ReadEvent, SendEvent, MoveEvent, dbVars, historyVars
  <2> QED
    BY <1>3, <2>2, <2>3
<1>10. CASE LoadCounters(a) \/ Boot(a) \/ Tick(a) \/ AcquireLock(a) \/ EndOfLoop(a) \/ SkipEvent(a) \/ StopAll(a)
            \/ StoreCounters(a) \/ ReleaseLock(a) \/ CleanupStep(a) \/ Stop(a)
  <2>1. UNCHANGED <<bo, bodb, notBefore>>
    BY <1>10 DEF LoadCounters, Boot, Tick, AcquireLock, EndOfLoop, SkipEvent, StopAll, StoreCounters, ReleaseLock,
           CleanupStep, BeginCleanup, RemoveOld, NextPlace, Stop, dbVars, historyVars
  <2>2. apc'[a] # "off" => apc[a] # "off"
    BY <1>10 DEF LoadCounters, Boot, Tick, AcquireLock, EndOfLoop, SkipEvent, StopAll, StoreCounters, ReleaseLock,
           CleanupStep, BeginCleanup, RemoveOld, NextPlace, Stop, InLoop
  <2>3. apc'[a] \in {"loop", "send", "answered", "store"} \/ apc[a] \notin {"loop", "send", "answered", "store"}
    BY <1>10 DEF LoadCounters, Boot, Tick, AcquireLock, EndOfLoop, SkipEvent, StopAll, StoreCounters, ReleaseLock, Goto,
           CleanupStep, BeginCleanup, RemoveOld, NextPlace, Stop, InLoop
  <2> QED
    BY <1>3, <2>1, <2>2, <2>3
<1> QED
  BY <1>4, <1>5, <1>6, <1>7, <1>8, <1>9, <1>10 DEF ThreadStep, PassStep

\* The invariant holds initially, if nothing goes wrong.
LEMMA BackInit == Crashes = 0 /\ Faults = 0 /\ PDQueueInit => BackInv
<1>1. PDQueueInit => clock \in Nat
  BY ConstantTypes DEF PDQueueInit, QueueDirInit
<1> QED
  BY <1>1, LossInit DEF PDQueueInit, BackInv, SentFreely, LeftInQueue, KeptInMind, NowIsPast, NoTrouble, NoPass

\* Every step keeps it, if there is one agent whose passes go on.
LEMMA BackStep ==
  ASSUME OneAgentOnly, NeverUnreadable, BackInv, [Next]_vars
  PROVE  BackInv'
<1>1. LossInv' /\ SentFreely'
  BY LossStep, FreelyStep DEF BackInv
<1>2. clock \in Nat
  BY CountTypes DEF BackInv, LossInv
<1>3. ASSUME NEW a \in Agents, Start(a) \/ ThreadStep(a) \/ Stop(a) \/ Crash(a)
      PROVE  BackInv'
  <2>1. ~Crash(a)
    BY DEF BackInv, NoTrouble, Crash
  <2>2. NoTrouble'
    BY <1>3, <2>1 DEF BackInv, LossInv, NoTrouble, TypeInv, TaskTypes, StoreTypeOK, Budgets,
           Start, ThreadStep, Stop, LoadCounters, Boot, Fault, Tick, PassStep, CleanupStep, Exit, AcquireLock,
           ListQueue, EndOfLoop, RejectName, SkipEvent, ReadEvent, SendEvent, MoveEvent, BackOff, StopAll,
           StoreBackoff, StoreCounters, ReleaseLock, BeginCleanup, RemoveOld, NextPlace
  <2> QED
    BY <1>1, <1>3, <2>1, <2>2, LeftStays, AgentMinds DEF BackInv
<1>4. ASSUME (\E e \in Events : Sender(e)) \/ (\E r \in Retriers : RetryStep(r))
      PROVE  BackInv'
  <2>1. UNCHANGED <<clock, apc, pass, bo, bodb, notBefore, budget>>
    BY <1>4 DEF Sender, RetryStep, RetryStart, RetryStore, RetryList, RetryMove, RetryEnd,
           agentVars, taskVars, dbVars, historyVars
  <2>2. QueuedFiles("pdq") \subseteq QueuedFiles("pdq")'
    BY <1>4, OthersAdd DEF BackInv
  <2> QED
    BY <1>1, <1>2, <2>1, <2>2, OthersHonour
<1>5. CASE Clock \/ UNCHANGED vars
  <2>1. UNCHANGED <<dir, name, apc, pass, bo, bodb, notBefore, budget>>
    BY <1>5 DEF Clock, vars, queueVars, agentVars, taskVars, dbVars, historyVars
  <2>2. clock' \in Nat /\ clock <= clock'
    BY <1>2, <1>5 DEF Clock, ClockTick, vars
  <2>3. QueuedFiles("pdq") \subseteq QueuedFiles("pdq")'
    BY <2>1 DEF QueuedFiles
  <2> QED
    BY <1>1, <2>1, <2>2, <2>3, OthersHonour
<1> QED
  BY <1>3, <1>4, <1>5 DEF Next

\* With one agent that is neither killed nor kept from writing its databases,
\* and as long as no answer makes send_event() raise, no request is sent for a
\* service key before the time it was told to wait for: also not after a stop
\* and a start.
THEOREM BackoffIsHonoured ==
  OneAgentOnly /\ NeverUnreadable /\ Crashes = 0 /\ Faults = 0 => (Spec => []BackoffHonoured)
<1> SUFFICES ASSUME OneAgentOnly, NeverUnreadable, Crashes = 0, Faults = 0
             PROVE  Spec => []BackoffHonoured
  OBVIOUS
<1>1. PDQueueInit => BackInv
  BY BackInit
<1>2. BackInv /\ [Next]_vars => BackInv'
  BY BackStep
<1>3. BackInv => BackoffHonoured
  <2> SUFFICES ASSUME BackInv, NEW a \in Agents, apc[a] = "send"
               PROVE  notBefore[SvcKey(Current(a))] <= clock
    BY DEF BackoffHonoured
  <2> DEFINE j == SvcKey(Current(a))
  <2>1. /\ j \in Keys /\ clock \in Nat /\ pass[a].now \in Nat /\ pass[a].now <= clock
        /\ bo[a].retry[j] \in Nat /\ notBefore[j] \in Nat
    BY CountTypes, PassTypes DEF BackInv, LossInv, NowIsPast, Bo!BackoffInfos, TypeInv, TaskTypes, HistoryTypeOK
  <2>2. ~(bo[a].retry[j] > pass[a].now)
    BY DEF BackInv, SentFreely, HeldBack, Bo!BackedOff
  <2>3. notBefore[j] > clock => bo[a].retry[j] = notBefore[j]
    BY <2>1 DEF BackInv, KeptInMind
  <2> HIDE DEF j
  <2>4. notBefore[j] <= clock
    BY <2>1, <2>2, <2>3
  <2> QED
    BY <2>4 DEF j
<1> QED
  BY <1>1, <1>2, <1>3, PTL DEF Spec

-----------------------------------------------------------------------------
(* The counters never count too much *)

\* the events that were acknowledged, or that anything was done with, and
\* that have left the queue
SentOff == {e \in accepted : dir[e] # "pdq"}
PutAway == {e \in Events \ Strays : Published(e) /\ dir[e] # "pdq"}

\* what an agent has in hand, which it has not counted yet
Hand(a) == IF apc[a] \in {"send", "answered"} THEN {pass[a].event} ELSE {}

FewSoFar ==
  /\ IsFiniteSet(accepted) /\ IsFiniteSet(PutAway)
  /\ \A e \in accepted : Published(e)

\* A count is covered by what has left the queue.
Covered(c, hand) ==
  c.suc <= Cardinality(SentOff \ hand) /\ c.err <= Cardinality(PutAway \ hand)

NoneInvented ==
  /\ Covered(cntdb, {})
  /\ \A a \in Agents : Covered(cnt[a], Hand(a))

CountInv == NamesInv /\ FewSoFar /\ NoneInvented

\* The Events API acknowledges one event at a time, one that was published.
LEMMA OneAccepted ==
  ASSUME LossInv, [Next]_vars
  PROVE  \/ accepted' = accepted
         \/ \E a \in Agents : /\ SendEvent(a) /\ accepted' = accepted \cup {pass[a].event}
                              /\ Published(pass[a].event) /\ pass[a].event \in Events
<1>1. ASSUME NEW a \in Agents, SendEvent(a)
      PROVE  \/ accepted' = accepted
             \/ /\ accepted' = accepted \cup {pass[a].event}
                /\ Published(pass[a].event) /\ pass[a].event \in Events
  BY <1>1 DEF SendEvent, LossInv, InHand, TypeInv, Processed
<1>2. ASSUME NEW a \in Agents, Start(a) \/ ThreadStep(a) \/ Stop(a) \/ Crash(a), ~SendEvent(a)
      PROVE  accepted' = accepted
  BY <1>2 DEF historyVars, RejectName, MoveEvent, RemoveOld,
         Start, Stop, Crash, Forget, ThreadStep, LoadCounters, Boot, Tick, PassStep, CleanupStep, Exit, AcquireLock,
         ListQueue, EndOfLoop, SkipEvent, ReadEvent, BackOff, StopAll,
         StoreBackoff, StoreCounters, ReleaseLock, BeginCleanup, NextPlace
<1>3. ASSUME NEW r \in Retriers, RetryStep(r)
      PROVE  accepted' = accepted
  BY <1>3 DEF historyVars, RetryStep, RetryStart, RetryStore, RetryList, RetryMove, RetryEnd
<1>4. CASE Clock \/ UNCHANGED vars \/ \E e \in Events : Sender(e)
  BY <1>4 DEF Clock, vars, Sender, historyVars
<1> QED
  BY <1>1, <1>2, <1>3, <1>4 DEF Next

\* At most one event at a time leaves the queue, as long as no two of its
\* files have the same name.
LEMMA OnePutAway ==
  ASSUME Retriers = {}, NamesInv, [Next]_vars
  PROVE  \E x : PutAway' \subseteq PutAway \cup {x}
<1> USE DEF NamesInv, LossInv, TypeInv, DirTypes, QueueDirTypeOK
<1>1. CASE \A e \in Events : dir'[e] = dir[e] \/ dir'[e] = "pdq" \/ dir[e] \notin {"none", "pdq"}
  BY <1>1 DEF PutAway, Published
<1>2. ASSUME NEW nm \in QueuedFiles("pdq"), NEW to \in {"suc", "err"}, Rename(nm, "pdq", to)
      PROVE  \E x : PutAway' \subseteq PutAway \cup {x}
  <2>1. PICK x \in Events : dir[x] = "pdq" /\ name[x] = nm
    BY DEF QueuedFiles
  <2>2. ASSUME NEW e \in Events \ {x}, dir'[e] # "pdq", Published(e)'
        PROVE  dir[e] # "pdq" /\ Published(e)
    <3>1. dir'[e] = CASE name[e] = nm /\ dir[e] = "pdq" -> to
                      [] name[e] = nm /\ dir[e] = to   -> "clobbered"
                      [] OTHER                         -> dir[e]
      BY <1>2 DEF Rename
    <3>2. ~(name[e] = nm /\ dir[e] = "pdq")
      BY <2>1 DEF OnePerPlace
    <3> QED
      BY <2>2, <3>1, <3>2 DEF Published
  <2> QED
    BY <2>1, <2>2 DEF PutAway
<1>3. ASSUME NEW e \in Events, Sender(e)
      PROVE  \E x : PutAway' \subseteq PutAway \cup {x}
  BY <1>1, <1>3, SenderNames
<1>4. ASSUME NEW a \in Agents, Start(a) \/ ThreadStep(a) \/ Stop(a) \/ Crash(a)
      PROVE  \E x : PutAway' \subseteq PutAway \cup {x}
  <2>1. CASE \E nm : \E place \in {"suc", "err"} : Remove(nm, place)
    BY <1>1, <2>1 DEF Remove
  <2> QED
    BY <1>1, <1>2, <1>4, <2>1, AgentFiles
<1>5. CASE Clock \/ UNCHANGED vars
  BY <1>1, <1>5 DEF Clock, vars, queueVars
<1> QED
  BY <1>3, <1>4, <1>5 DEF Next

\* What has left the queue is gone for good, if nobody retries events.
LEMMA GoneForGood ==
  ASSUME Retriers = {}, NamesInv, FewSoFar, [Next]_vars
  PROVE  /\ FewSoFar'
         /\ SentOff \subseteq SentOff' /\ PutAway \subseteq PutAway'
<1> USE DEF FewSoFar
<1>1. NamesKept
  BY NamesStay DEF NamesInv
<1>2. IsFiniteSet(PutAway')
  <2>1. PICK x : PutAway' \subseteq PutAway \cup {x}
    BY OnePutAway
  <2>2. IsFiniteSet(PutAway \cup {x})
    BY FS_AddElement
  <2> QED
    BY <2>1, <2>2, FS_Subset
<1>3. /\ IsFiniteSet(accepted') /\ accepted \subseteq accepted'
      /\ \A e \in accepted' : Published(e)
  <2>1. CASE accepted' = accepted
    BY <2>1
  <2>2. ASSUME NEW e, accepted' = accepted \cup {e}, Published(e)
        PROVE  IsFiniteSet(accepted') /\ accepted \subseteq accepted' /\ \A x \in accepted' : Published(x)
    BY <2>2, FS_AddElement
  <2> QED
    BY <2>1, <2>2, OneAccepted DEF NamesInv
<1>4. accepted' \subseteq Events /\ accepted \subseteq Events
  BY LossStep DEF NamesInv, LossInv, TypeInv, TaskTypes, HistoryTypeOK
<1>5. \A e \in Events : Published(e) /\ dir[e] # "pdq" => Published(e)' /\ dir'[e] # "pdq"
  BY <1>1, NoWayBack DEF NamesInv, NamesKept
<1>6. FewSoFar'
  BY <1>1, <1>2, <1>3, <1>4 DEF NamesKept
<1> QED
  BY <1>3, <1>4, <1>5, <1>6 DEF SentOff, PutAway

\* A count stays covered while more leaves the queue.
LEMMA CoveredMore ==
  ASSUME FewSoFar', SentOff \subseteq SentOff', PutAway \subseteq PutAway',
         NEW c \in CountRecords, NEW hand, NEW hand2, Covered(c, hand),
         \A e \in hand2 \ hand : e \notin SentOff /\ e \notin PutAway
  PROVE  c.suc <= Cardinality(SentOff' \ hand2) /\ c.err <= Cardinality(PutAway' \ hand2)
<1>1. SentOff \ hand \subseteq SentOff' \ hand2 /\ PutAway \ hand \subseteq PutAway' \ hand2
  OBVIOUS
<1>2. IsFiniteSet(SentOff' \ hand2) /\ IsFiniteSet(PutAway' \ hand2)
  <2>1. SentOff' \ hand2 \subseteq accepted' /\ PutAway' \ hand2 \subseteq PutAway'
    BY DEF SentOff
  <2> QED
    BY <2>1, PartIsSmaller DEF FewSoFar
<1>3. /\ Cardinality(SentOff \ hand) <= Cardinality(SentOff' \ hand2)
      /\ Cardinality(PutAway \ hand) <= Cardinality(PutAway' \ hand2)
      /\ Cardinality(SentOff \ hand) \in Nat /\ Cardinality(SentOff' \ hand2) \in Nat
      /\ Cardinality(PutAway \ hand) \in Nat /\ Cardinality(PutAway' \ hand2) \in Nat
  BY <1>1, <1>2, PartIsSmaller
<1>4. c.suc \in Nat /\ c.err \in Nat
  BY DEF CountRecords
<1> QED
  BY <1>3, <1>4 DEF Covered

\* The event in hand counts once it is out of the queue.
LEMMA CoveredOneMore ==
  ASSUME FewSoFar', NEW S, NEW T, IsFiniteSet(T), S \subseteq T, NEW e \in T,
         NEW n \in Nat, n <= Cardinality(S \ {e})
  PROVE  n + 1 <= Cardinality(T)
<1>1. S \ {e} \subseteq T /\ e \in T \ (S \ {e})
  OBVIOUS
<1>2. Cardinality(S \ {e}) + 1 <= Cardinality(T) /\ Cardinality(S \ {e}) \in Nat /\ Cardinality(T) \in Nat
  BY <1>1, PartIsSmaller
<1> QED
  BY <1>2

\* What the agent puts away has left the queue: the name it had in hand was
\* that of one file in pdq.
LEMMA MovedAway ==
  ASSUME CountInv, NEW a \in Agents, MoveEvent(a), [Next]_vars,
         Current(a) \in QueuedFiles("pdq"), NEW e, e = pass[a].event
  PROVE  /\ Hand(a) = {e} /\ Hand(a)' = {}
         /\ e \in PutAway'
         /\ Code(a) = "CONSUMED" => e \in SentOff'
         /\ cnt' = IF Code(a) = "CONSUMED" THEN [cnt EXCEPT ![a].suc = @ + 1]
                                          ELSE [cnt EXCEPT ![a].err = @ + 1]
         /\ cntdb' = cntdb
<1> USE DEF CountInv, NamesInv, LossInv
<1>1. /\ e \in Events /\ Published(e) /\ name[e] = Current(a) /\ ~BadFileName(Current(a))
      /\ Code(a) = "CONSUMED" => e \in accepted
  BY DEF MoveEvent, InHand, TypeInv, Processed
<1>2. e \notin Strays
  BY <1>1 DEF NameHasKey, BadFileName, Strays
<1>3. /\ UNCHANGED <<accepted, name, cntdb>>
      /\ \E to \in {"suc", "err"} : Rename(Current(a), "pdq", to)
      /\ cnt' = IF Code(a) = "CONSUMED" THEN [cnt EXCEPT ![a].suc = @ + 1]
                                       ELSE [cnt EXCEPT ![a].err = @ + 1]
      /\ Goto(a, "loop")
  BY DEF MoveEvent, historyVars, dbVars
<1>4. dir'[e] # "none" /\ dir'[e] # "pdq"
  BY <1>1, <1>3 DEF Published, Rename
<1>5. Hand(a) = {e}
  BY DEF MoveEvent, Hand
<1>6. Hand(a)' = {}
  BY <1>3 DEF Hand, Goto, TypeInv, TaskTypes, TaskTypeOK
<1>7. e \in PutAway'
  BY <1>1, <1>2, <1>4 DEF PutAway, Published
<1>8. Code(a) = "CONSUMED" => e \in SentOff'
  BY <1>1, <1>3, <1>4 DEF SentOff
<1> QED
  BY <1>3, <1>5, <1>6, <1>7, <1>8

\* What an agent does to its count and to the counters' database, if it does
\* not put an event away.
LEMMA CountsTaken ==
  ASSUME LossInv, NEW a \in Agents, Start(a) \/ ThreadStep(a) \/ Stop(a) \/ Crash(a),
         ~(MoveEvent(a) /\ Current(a) \in QueuedFiles("pdq"))
  PROVE  /\ cnt'[a] \in {cnt[a], cntdb, NoCount}
         /\ cntdb' \in {cntdb, cnt[a]}
         /\ cntdb' # cntdb => Hand(a) = {}
         /\ \/ Hand(a)' \subseteq Hand(a)
            \/ cnt'[a] = cnt[a] /\ \A e \in Hand(a)' : dir[e] = "pdq"
         /\ cnt'[a] # cnt[a] => Hand(a)' = {}
<1> USE DEF LossInv, TypeInv, TaskTypes, TaskTypeOK
<1>1. CASE Start(a) \/ LoadCounters(a) \/ Boot(a) \/ Exit(a) \/ Crash(a)
  BY <1>1 DEF Hand, dbVars, Start, LoadCounters, Boot, Exit, Crash, Forget, Goto, InPass, Fault
<1>2. CASE ReadEvent(a)
  <2>1. UNCHANGED <<cnt, cntdb>>
    BY <1>2 DEF ReadEvent, dbVars
  <2>2. CASE Current(a) \in QueuedFiles("pdq")
    <3> DEFINE e == FileOf("pdq", Current(a))
    <3>1. dir[e] = "pdq"
      BY <2>2, FileOfType
    <3>2. \/ pass'[a] = [pass[a] EXCEPT !.event = e]
          \/ pass'[a] = [pass[a] EXCEPT !.event = e, !.code = "BAD_ENTRY"]
      BY <1>2, <2>2 DEF ReadEvent, InPass
    <3> HIDE DEF e
    <3>3. pass'[a].event = e
      BY <3>2 DEF PassRecords
    <3> QED
      BY <2>1, <3>1, <3>3 DEF Hand
  <2>3. CASE Current(a) \notin QueuedFiles("pdq")
    BY <1>2, <2>1, <2>3 DEF ReadEvent, Raise, Goto, Hand
  <2> QED
    BY <2>2, <2>3
<1>3. CASE SendEvent(a)
  <2>1. UNCHANGED <<cnt, cntdb>>
    BY <1>3 DEF SendEvent, dbVars
  <2>2. \/ Raise(a)
        \/ \E c : InPass(a, [pass[a] EXCEPT !.code = c])
    BY <1>3 DEF SendEvent
  <2>3. Hand(a)' \subseteq Hand(a)
    BY <1>3, <2>2 DEF SendEvent, Raise, Goto, InPass, PassRecords, Hand
  <2> QED
    BY <2>1, <2>3
<1>4. CASE MoveEvent(a)
  <2>1. Raise(a) /\ UNCHANGED <<cnt, cntdb>>
    BY <1>4 DEF MoveEvent, dbVars
  <2> QED
    BY <2>1 DEF Raise, Goto, Hand
<1>5. CASE StoreBackoff(a) \/ StoreCounters(a)
  BY <1>5 DEF StoreBackoff, StoreCounters, Goto, Hand
<1>6. ASSUME UNCHANGED <<cnt, dbVars>>, apc'[a] \notin {"send", "answered"} \/ UNCHANGED <<apc, pass>>
      PROVE  UNCHANGED <<cnt, cntdb>> /\ Hand(a)' \subseteq Hand(a)
  BY <1>6 DEF dbVars, Hand
<1>7. CASE RejectName(a) \/ SkipEvent(a)
  BY <1>6, <1>7 DEF InLoop, Goto, Raise, RejectName, SkipEvent
<1>8. CASE Stop(a) \/ Tick(a) \/ AcquireLock(a) \/ ListQueue(a) \/ EndOfLoop(a) \/ BackOff(a) \/ StopAll(a)
           \/ ReleaseLock(a) \/ CleanupStep(a)
  <2>1. UNCHANGED <<cnt, dbVars>>
    BY <1>8 DEF Stop, Tick, AcquireLock, ListQueue, EndOfLoop, BackOff, StopAll, ReleaseLock,
                BeginCleanup, NextPlace, CleanupStep, RemoveOld
  <2>2. apc'[a] \notin {"send", "answered"} \/ UNCHANGED <<apc, pass>>
    BY <1>8 DEF Stop, Tick, AcquireLock, ListQueue, EndOfLoop, BackOff, StopAll, ReleaseLock,
                BeginCleanup, NextPlace, CleanupStep, RemoveOld, Goto, Raise
  <2> QED
    BY <1>6, <2>1, <2>2
<1> QED
  BY <1>1, <1>2, <1>3, <1>4, <1>5, <1>7, <1>8 DEF ThreadStep, PassStep

\* The counters of other agents stay what they are.
LEMMA OthersCounts ==
  ASSUME TypeInv, NEW a \in Agents, Start(a) \/ ThreadStep(a) \/ Stop(a) \/ Crash(a),
         NEW b \in Agents \ {a}
  PROVE  cnt'[b] = cnt[b] /\ Hand(b)' = Hand(b)
<1>1. cnt'[b] = cnt[b]
  BY DEF TypeInv, TaskTypes, TaskTypeOK, RejectName, MoveEvent, RemoveOld,
         Start, Stop, Crash, Forget, ThreadStep, LoadCounters, Boot, Tick, PassStep, CleanupStep, Exit, AcquireLock,
         ListQueue, EndOfLoop, SkipEvent, ReadEvent, SendEvent, BackOff, StopAll,
         StoreBackoff, StoreCounters, ReleaseLock, BeginCleanup, NextPlace
<1> QED
  BY <1>1, OthersAlone DEF Hand

\* Every step keeps the counts covered.
LEMMA CountStep ==
  ASSUME Retriers = {}, CountInv, [Next]_vars
  PROVE  CountInv'
<1> USE DEF CountInv
<1>1. NamesInv' /\ FewSoFar' /\ SentOff \subseteq SentOff' /\ PutAway \subseteq PutAway'
  BY NamesStep, GoneForGood
<1>2. /\ cntdb \in CountRecords /\ cnt \in [Agents -> CountRecords] /\ NoCount \in CountRecords
      /\ \A a \in Agents : cnt[a] \in CountRecords
  BY RecordTypes DEF NamesInv, LossInv, TypeInv, TaskTypes, TaskTypeOK, StoreTypeOK
<1> DEFINE Covers(c, hand) == /\ c.suc <= Cardinality(SentOff' \ hand)
                              /\ c.err <= Cardinality(PutAway' \ hand)
<1>3. /\ Covers(cntdb', {})
      /\ \A a \in Agents : Covers(cnt'[a], Hand(a)')
      => NoneInvented'
  BY DEF NoneInvented, Covered
<1>4. /\ Covers(cntdb, {})
      /\ \A a \in Agents : Covers(cnt[a], Hand(a)) /\ Covers(cnt[a], {})
  <2>1. Covers(cntdb, {})
    BY <1>1, <1>2, CoveredMore DEF NoneInvented
  <2>2. ASSUME NEW a \in Agents
        PROVE  Covers(cnt[a], Hand(a)) /\ Covers(cnt[a], {})
    <3>1. Covered(cnt[a], Hand(a)) /\ cnt[a] \in CountRecords
      BY <1>2 DEF NoneInvented
    <3> QED
      BY <1>1, <3>1, CoveredMore
  <2> QED
    BY <2>1, <2>2
<1>5. \A h : Covers(NoCount, h)
  <2>1. ASSUME NEW h
        PROVE  IsFiniteSet(SentOff' \ h) /\ IsFiniteSet(PutAway' \ h)
    <3>1. SentOff' \ h \subseteq accepted' /\ PutAway' \ h \subseteq PutAway'
      BY DEF SentOff
    <3> QED
      BY <1>1, <3>1, PartIsSmaller DEF FewSoFar
  <2>2. ASSUME NEW h
        PROVE  Cardinality(SentOff' \ h) \in Nat /\ Cardinality(PutAway' \ h) \in Nat
    BY <2>1, FS_CardinalityType
  <2> QED
    BY <2>2 DEF NoCount
<1>6. CASE UNCHANGED <<cnt, cntdb, apc, pass>>
  <2>1. \A a \in Agents : Hand(a)' = Hand(a)
    BY <1>6 DEF Hand
  <2> HIDE DEF Covers
  <2> QED
    BY <1>1, <1>3, <1>4, <1>6, <2>1
<1>7. ASSUME NEW a \in Agents, MoveEvent(a), Current(a) \in QueuedFiles("pdq")
      PROVE  CountInv'
  <2>1. PICK e : e = pass[a].event
    OBVIOUS
  <2>2. /\ Hand(a) = {e} /\ Hand(a)' = {}
        /\ e \in PutAway'
        /\ Code(a) = "CONSUMED" => e \in SentOff'
        /\ cnt' = IF Code(a) = "CONSUMED" THEN [cnt EXCEPT ![a].suc = @ + 1]
                                         ELSE [cnt EXCEPT ![a].err = @ + 1]
        /\ cntdb' = cntdb
    BY <1>7, <2>1, MovedAway
  <2>3. Covered(cnt[a], {e}) /\ cnt[a].suc \in Nat /\ cnt[a].err \in Nat
    BY <1>2, <2>2 DEF NoneInvented, CountRecords
  <2>4. IsFiniteSet(SentOff') /\ IsFiniteSet(PutAway')
    <3>1. SentOff' \subseteq accepted'
      BY DEF SentOff
    <3> QED
      BY <1>1, <3>1, PartIsSmaller DEF FewSoFar
  <2>5. Code(a) = "CONSUMED" => cnt[a].suc + 1 <= Cardinality(SentOff')
    BY <1>1, <2>2, <2>3, <2>4, CoveredOneMore DEF Covered
  <2>6. cnt[a].err + 1 <= Cardinality(PutAway')
    BY <1>1, <2>2, <2>3, <2>4, CoveredOneMore DEF Covered
  <2>7. Covers(cnt'[a], Hand(a)')
    <3>1. SentOff' \ {} = SentOff' /\ PutAway' \ {} = PutAway'
      OBVIOUS
    <3>2. /\ Code(a) = "CONSUMED" => cnt'[a].suc = cnt[a].suc + 1 /\ cnt'[a].err = cnt[a].err
          /\ Code(a) # "CONSUMED" => cnt'[a].suc = cnt[a].suc /\ cnt'[a].err = cnt[a].err + 1
      BY <1>2, <2>2 DEF CountRecords
    <3> QED
      BY <1>4, <2>2, <2>5, <2>6, <3>1, <3>2
  <2>8. ASSUME NEW b \in Agents \ {a}
        PROVE  Covers(cnt'[b], Hand(b)')
    BY <1>4, <1>7, <2>8, OthersCounts DEF NamesInv, LossInv, ThreadStep, PassStep
  <2> HIDE DEF Covers
  <2> QED
    BY <1>1, <1>3, <1>4, <2>2, <2>7, <2>8
<1>8. ASSUME NEW a \in Agents, Start(a) \/ ThreadStep(a) \/ Stop(a) \/ Crash(a),
             ~(MoveEvent(a) /\ Current(a) \in QueuedFiles("pdq"))
      PROVE  CountInv'
  <2>1. /\ cnt'[a] \in {cnt[a], cntdb, NoCount}
        /\ cntdb' \in {cntdb, cnt[a]}
        /\ cntdb' # cntdb => Hand(a) = {}
        /\ \/ Hand(a)' \subseteq Hand(a)
           \/ cnt'[a] = cnt[a] /\ \A e \in Hand(a)' : dir[e] = "pdq"
        /\ cnt'[a] # cnt[a] => Hand(a)' = {}
    BY <1>8, CountsTaken DEF NamesInv
  <2>2. Covers(cntdb', {})
    BY <1>4, <2>1
  <2>3. Covers(cnt'[a], Hand(a)')
    <3>1. CASE cnt'[a] = cnt[a]
      <4>1. \A e \in Hand(a)' \ Hand(a) : e \notin SentOff /\ e \notin PutAway
        BY <2>1 DEF SentOff, PutAway
      <4>2. Covered(cnt[a], Hand(a)) /\ cnt[a] \in CountRecords
        BY <1>2 DEF NoneInvented
      <4>3. Covers(cnt[a], Hand(a)')
        BY <1>1, <4>1, <4>2, CoveredMore
      <4> QED
        BY <3>1, <4>3
    <3>2. CASE cnt'[a] # cnt[a]
      BY <1>4, <1>5, <2>1, <3>2
    <3> QED
      BY <3>1, <3>2
  <2>4. ASSUME NEW b \in Agents \ {a}
        PROVE  Covers(cnt'[b], Hand(b)')
    BY <1>4, <1>8, <2>4, OthersCounts DEF NamesInv, LossInv
  <2> HIDE DEF Covers
  <2> QED
    BY <1>1, <1>3, <2>2, <2>3, <2>4
<1>9. CASE Clock \/ UNCHANGED vars \/ \E e \in Events : Sender(e)
  BY <1>6, <1>9 DEF Clock, vars, Sender, agentVars, taskVars, dbVars
<1> QED
  BY <1>7, <1>8, <1>9 DEF Next, ThreadStep, PassStep

\* The counters that are kept on disk never count an event that was not sent,
\* or not put aside: with any number of agents that write them at the same
\* time, killed at any time, as long as nobody retries events.
THEOREM CountersInventNothing == Retriers = {} => (Spec => []CountersNeverOvercount)
<1> SUFFICES ASSUME Retriers = {}
             PROVE  Spec => []CountersNeverOvercount
  OBVIOUS
<1>1. PDQueueInit => CountInv
  <2> SUFFICES ASSUME PDQueueInit PROVE CountInv
    OBVIOUS
  <2>1. accepted = {} /\ PutAway = {} /\ SentOff = {}
    BY DEF PDQueueInit, QueueDirInit, PutAway, SentOff, Published
  <2>2. FewSoFar
    BY <2>1, FS_EmptySet DEF FewSoFar
  <2>3. \A h : Cardinality(SentOff \ h) = 0 /\ Cardinality(PutAway \ h) = 0
    <3>1. \A h : SentOff \ h = {} /\ PutAway \ h = {}
      BY <2>1
    <3> QED
      BY <3>1, FS_EmptySet
  <2>4. ASSUME NEW h
        PROVE  Covered(NoCount, h)
    <3>1. NoCount.suc = 0 /\ NoCount.err = 0
      BY DEF NoCount
    <3>2. Cardinality(SentOff \ h) = 0 /\ Cardinality(PutAway \ h) = 0
      BY <2>3
    <3> QED
      BY <3>1, <3>2 DEF Covered
  <2>5. cntdb = NoCount /\ \A a \in Agents : cnt[a] = NoCount
    BY DEF PDQueueInit
  <2>6. NoneInvented
    BY <2>4, <2>5 DEF NoneInvented
  <2> QED
    BY <2>2, <2>6, NamesInit DEF CountInv
<1>2. CountInv /\ [Next]_vars => CountInv'
  BY CountStep
<1>3. CountInv => CountersNeverOvercount
  <2> SUFFICES ASSUME CountInv PROVE CountersNeverOvercount
    OBVIOUS
  <2>1. SentOff \ {} = SentOff /\ PutAway \ {} = PutAway /\ SentOff \subseteq accepted
    BY DEF SentOff
  <2>2. /\ Cardinality(SentOff) <= Cardinality(accepted)
        /\ Cardinality(SentOff) \in Nat /\ Cardinality(accepted) \in Nat
    BY <2>1, PartIsSmaller DEF CountInv, FewSoFar
  <2>3. cntdb.suc <= Cardinality(SentOff) /\ cntdb.err <= Cardinality(PutAway) /\ cntdb.suc \in Nat
    BY <2>1 DEF CountInv, NamesInv, LossInv, TypeInv, TaskTypes, StoreTypeOK, CountRecords, NoneInvented, Covered
  <2> QED
    BY <2>2, <2>3 DEF PutAway, CountersNeverOvercount
<1> QED
  BY <1>1, <1>2, <1>3, PTL DEF Spec

-----------------------------------------------------------------------------
(* The counters are exact *)

\* the events that were put aside
Refused == {e \in Events \ (Strays \cup accepted) : Published(e) /\ dir[e] # "pdq"}

\* What an agent has in hand is in the queue.
HandQueued ==
  \A a \in Agents : apc[a] \in {"send", "answered"} => dir[pass[a].event] = "pdq"

\* what was acknowledged and is not counted yet
Counting(a) == IF apc[a] = "answered" /\ Code(a) = "CONSUMED" THEN 1 ELSE 0

CountIs(c, late) ==
  c.suc + late = Cardinality(accepted) /\ c.err = Cardinality(Refused)

\* The agent that runs has counted everything but what it has in hand; so does
\* the database, unless the agent is in a pass at the end of which it will be
\* written.
AllCounted ==
  \A a \in Agents :
    /\ apc[a] \notin {"off", "load"} => CountIs(cnt[a], Counting(a))
    /\ apc[a] \notin {"loop", "send", "answered", "store", "storeCounters"} => CountIs(cntdb, 0)

ExactInv == NamesInv /\ BackInv /\ OnceInv /\ FewSoFar /\ HandQueued /\ AllCounted

\* Refused events are those that are out of the queue.
LEMMA SameRefused ==
  ASSUME accepted' = accepted,
         \A e \in Events \ Strays : dir'[e] \in {"none", "pdq"} <=> dir[e] \in {"none", "pdq"}
  PROVE  Refused' = Refused
  BY DEF Refused, Published

\* Steps of the agent that count nothing put nothing away either.
LEMMA NothingElseCounts ==
  ASSUME OneAgentOnly, NeverUnreadable, ExactInv, NEW a \in Agents,
         Start(a) \/ ThreadStep(a) \/ Stop(a) \/ Crash(a),
         ~MoveEvent(a), ~SendEvent(a)
  PROVE  accepted' = accepted /\ Refused' = Refused
<1> USE DEF ExactInv, NamesInv, LossInv, TypeInv, DirTypes, QueueDirTypeOK
<1>1. CASE RejectName(a)
  <2>1. /\ Rename(Current(a), "pdq", "err") \/ UNCHANGED dir
        /\ accepted' = accepted /\ BadFileName(Current(a))
    BY <1>1 DEF RejectName, historyVars
  <2>2. ASSUME NEW e \in Events \ Strays
        PROVE  dir'[e] \in {"none", "pdq"} <=> dir[e] \in {"none", "pdq"}
    <3>1. dir[e] # "none" => name[e] # Current(a)
      BY <2>1 DEF NameHasKey, Published, BadFileName, Strays
    <3> QED
      BY <2>1, <3>1 DEF Rename
  <2> QED
    BY <2>1, <2>2, SameRefused
<1>2. CASE RemoveOld(a)
  <2>1. /\ accepted' = accepted
        /\ UNCHANGED dir \/ \E nm : \E place \in {"suc", "err"} : Remove(nm, place)
    BY <1>2 DEF RemoveOld, TooOld, historyVars
  <2>2. \A e \in Events : dir'[e] \in {"none", "pdq"} <=> dir[e] \in {"none", "pdq"}
    BY <2>1 DEF Remove
  <2> QED
    BY <2>1, <2>2, SameRefused
<1>3. CASE UNCHANGED <<dir, accepted>>
  BY <1>3, SameRefused
<1> QED
  BY <1>1, <1>2, <1>3
  DEF historyVars, queueVars, Start, Stop, Crash, Forget, ThreadStep, LoadCounters, Boot, Tick, PassStep, CleanupStep, Exit,
         AcquireLock, ListQueue, EndOfLoop, SkipEvent, ReadEvent, BackOff, StopAll,
         StoreBackoff, StoreCounters, ReleaseLock, BeginCleanup, NextPlace

\* What the agent has in hand stays in the queue.
LEMMA HandStays ==
  ASSUME OneAgentOnly, ExactInv, NEW a \in Agents, Start(a) \/ ThreadStep(a) \/ Stop(a) \/ Crash(a)
  PROVE  HandQueued'
<1> USE DEF ExactInv, NamesInv, LossInv, TypeInv, TaskTypes, TaskTypeOK
<1> SUFFICES apc'[a] \in {"send", "answered"} => dir'[pass'[a].event] = "pdq"
  BY DEF HandQueued, OneAgentOnly
<1>1. CASE ReadEvent(a)
  <2>1. CASE Current(a) \in QueuedFiles("pdq")
    <3> DEFINE e == FileOf("pdq", Current(a))
    <3>1. dir'[e] = "pdq"
      BY <1>1, <2>1, FileOfType DEF ReadEvent, queueVars
    <3>2. \/ pass'[a] = [pass[a] EXCEPT !.event = e]
          \/ pass'[a] = [pass[a] EXCEPT !.event = e, !.code = "BAD_ENTRY"]
      BY <1>1, <2>1 DEF ReadEvent, InPass
    <3> HIDE DEF e
    <3>3. pass'[a].event = e
      BY <3>2 DEF PassRecords
    <3> QED
      BY <3>1, <3>3
  <2>2. CASE Current(a) \notin QueuedFiles("pdq")
    BY <1>1, <2>2 DEF ReadEvent, Raise, Goto
  <2> QED
    BY <2>1, <2>2
<1>2. CASE SendEvent(a)
  <2>1. apc[a] = "send" /\ dir' = dir
    BY <1>2 DEF SendEvent, queueVars
  <2>2. Raise(a) \/ \E c : InPass(a, [pass[a] EXCEPT !.code = c])
    BY <1>2 DEF SendEvent
  <2>3. CASE Raise(a)
    BY <2>3 DEF Raise, Goto
  <2>4. CASE \E c : InPass(a, [pass[a] EXCEPT !.code = c])
    <3>1. pass'[a].event = pass[a].event
      BY <2>4 DEF InPass, PassRecords
    <3> QED
      BY <2>1, <3>1 DEF HandQueued
  <2> QED
    BY <2>2, <2>3, <2>4
<1>3. CASE UNCHANGED <<dir, apc, pass>>
  BY <1>3 DEF HandQueued
<1>4. CASE apc'[a] \notin {"send", "answered"}
  BY <1>4
<1> QED
  BY <1>1, <1>2, <1>3, <1>4
  DEF InLoop, Goto, Raise, RejectName, MoveEvent, RemoveOld, queueVars, Start, Stop, Crash, Forget, ThreadStep, LoadCounters, Boot,
         Tick, PassStep, CleanupStep, Exit, AcquireLock, ListQueue, EndOfLoop, SkipEvent, BackOff, StopAll,
         StoreBackoff, StoreCounters, ReleaseLock, BeginCleanup, NextPlace

\* The counts are numbers.
LEMMA CountNumbers ==
  ASSUME TypeInv, FewSoFar
  PROVE  /\ IsFiniteSet(accepted) /\ IsFiniteSet(Refused)
         /\ Cardinality(accepted) \in Nat /\ Cardinality(Refused) \in Nat
         /\ cntdb \in CountRecords /\ \A a \in Agents : cnt[a] \in CountRecords
<1>1. Refused \subseteq PutAway
  BY DEF Refused, PutAway
<1>2. IsFiniteSet(accepted) /\ IsFiniteSet(Refused)
  BY <1>1, PartIsSmaller DEF FewSoFar
<1> QED
  BY <1>2, FS_CardinalityType DEF TypeInv, TaskTypes, TaskTypeOK, StoreTypeOK

\* An answer that acknowledges the event in hand is one more to be counted.
LEMMA AnswerToCount ==
  ASSUME OneAgentOnly, NeverUnreadable, ExactInv, NEW a \in Agents, SendEvent(a), [Next]_vars
  PROVE  AllCounted'
<1> USE DEF ExactInv, NamesInv, LossInv, TypeInv, TaskTypes, TaskTypeOK
<1> DEFINE e == pass[a].event
<1>1. /\ apc[a] = "send" /\ ~Raise(a) /\ UNCHANGED <<dir, name, cnt, cntdb>>
      /\ e \in Events /\ e \notin accepted /\ dir[e] = "pdq"
  BY PassGoesOn DEF SendEvent, queueVars, dbVars, Processed, OnceInv, NoResend, HandQueued
<1>2. PICK answer \in PossibleAnswers(SvcKey(Current(a))) :
        /\ ConsumeCode(answer) # "RAISES" =>
             Goto(a, "answered") /\ InPass(a, [pass[a] EXCEPT !.code = ConsumeCode(answer)])
        /\ ConsumeCode(answer) = "RAISES" => Raise(a)
        /\ accepted' = IF answer = "ok" THEN accepted \cup {e} ELSE accepted
  BY DEF SendEvent
<1>3. ConsumeCode(answer) = "CONSUMED" <=> answer = "ok"
  BY <1>2, PDQueueAssumption DEF ConsumeCode, PossibleAnswers, AllAnswers, MayBeBad, ComeAgain
<1>4. apc'[a] = "answered" /\ pass'[a].code = ConsumeCode(answer)
  BY <1>1, <1>2 DEF Goto, InPass, PassRecords
<1>5. Refused' = Refused
  BY <1>1, <1>2 DEF Refused, Published
<1>6. Cardinality(accepted') = Cardinality(accepted) + Counting(a)' /\ Counting(a) = 0
  <2>1. Counting(a)' = IF answer = "ok" THEN 1 ELSE 0
    BY <1>3, <1>4 DEF Counting, Code
  <2>2. Cardinality(accepted \cup {e}) = Cardinality(accepted) + 1 /\ Cardinality(accepted) \in Nat
    BY <1>1, CountNumbers, FS_AddElement
  <2>3. Counting(a) = 0
    BY <1>1 DEF Counting
  <2> QED
    BY <1>2, <2>1, <2>2, <2>3
<1>7. CountIs(cnt[a], 0)
  BY <1>1, <1>6 DEF AllCounted
<1>8. cnt'[a].suc + Counting(a)' = Cardinality(accepted') /\ cnt'[a].err = Cardinality(Refused')
  <2>1. cnt[a].suc \in Nat
    BY CountNumbers DEF CountRecords
  <2> QED
    BY <1>1, <1>5, <1>6, <1>7, <2>1 DEF CountIs
<1> QED
  BY <1>4, <1>8 DEF AllCounted, CountIs, OneAgentOnly

\* The event that the agent puts away is counted.
LEMMA PutAwayCounted ==
  ASSUME OneAgentOnly, NeverUnreadable, ExactInv, NEW a \in Agents, MoveEvent(a), [Next]_vars
  PROVE  AllCounted'
<1> USE DEF ExactInv, NamesInv, LossInv, TypeInv, DirTypes, QueueDirTypeOK
<1> DEFINE e == pass[a].event
<1>1. /\ apc[a] = "answered" /\ Current(a) \in QueuedFiles("pdq") /\ UNCHANGED <<name, accepted, cntdb>>
      /\ Rename(Current(a), "pdq", IF Code(a) = "CONSUMED" THEN "suc" ELSE "err")
      /\ cnt' = IF Code(a) = "CONSUMED" THEN [cnt EXCEPT ![a].suc = @ + 1]
                                       ELSE [cnt EXCEPT ![a].err = @ + 1]
      /\ apc' = [apc EXCEPT ![a] = "loop"]
  <2>1. Current(a) \in QueuedFiles("pdq")
    BY PassGoesOn
  <2> QED
    BY <2>1 DEF MoveEvent, historyVars, dbVars, Goto
<1>2. /\ e \in Events /\ dir[e] = "pdq" /\ name[e] = Current(a) /\ e \notin Strays
      /\ Code(a) = "CONSUMED" <=> e \in accepted
  <2>1. /\ e \in Events /\ dir[e] = "pdq" /\ name[e] = Current(a) /\ ~BadFileName(Current(a))
        /\ Code(a) = "CONSUMED" => e \in accepted
    BY <1>1 DEF InHand, Processed, HandQueued
  <2>2. e \notin Strays
    BY <2>1 DEF NameHasKey, Published, BadFileName, Strays
  <2>3. e \in accepted => Code(a) = "CONSUMED"
    BY <2>1 DEF OnceInv, Settled, OneAgentOnly
  <2> QED
    BY <2>1, <2>2, <2>3
<1>3. \A x \in Events \ {e} : dir'[x] \in {"none", "pdq"} <=> dir[x] \in {"none", "pdq"}
  BY <1>1, <1>2 DEF Rename, OnePerPlace
<1>4. dir'[e] \notin {"none", "pdq"}
  BY <1>1, <1>2 DEF Rename
<1>5. Refused' = IF Code(a) = "CONSUMED" THEN Refused ELSE Refused \cup {e}
  BY <1>1, <1>2, <1>3, <1>4 DEF Refused, Published
<1>6. e \notin Refused
  BY <1>2 DEF Refused
<1>7. Code(a) # "CONSUMED" => Cardinality(Refused') = Cardinality(Refused) + 1
  BY <1>5, <1>6, CountNumbers, FS_AddElement
<1>8. CountIs(cnt[a], IF Code(a) = "CONSUMED" THEN 1 ELSE 0)
  BY <1>1 DEF AllCounted, Counting
<1>9. cnt[a] \in CountRecords /\ cnt \in [Agents -> CountRecords] /\ apc \in [Agents -> AgentStates]
  BY DEF TaskTypes, TaskTypeOK
<1>10. apc'[a] = "loop" /\ Counting(a)' = 0
  BY <1>1, <1>9 DEF Counting
<1>11. cnt'[a].suc = Cardinality(accepted') /\ cnt'[a].err = Cardinality(Refused')
  <2>1. CASE Code(a) = "CONSUMED"
    BY <1>1, <1>5, <1>8, <1>9, <2>1 DEF CountIs, CountRecords
  <2>2. CASE Code(a) # "CONSUMED"
    BY <1>1, <1>7, <1>8, <1>9, <2>2 DEF CountIs, CountRecords
  <2> QED
    BY <2>1, <2>2
<1>12. CountIs(cnt[a], 0)'
  <2>1. cnt'[a].suc \in Nat
    BY <1>1, <1>9 DEF CountRecords
  <2> QED
    BY <1>11, <2>1 DEF CountIs
<1> QED
  BY <1>10, <1>12 DEF AllCounted, OneAgentOnly

\* Where the counters' database may lag behind the agent's.
InBetween == {"loop", "send", "answered", "store", "storeCounters"}

\* A step of an agent that neither sends nor puts away an event leaves it with
\* the counts it had, and writes them to the database at the end of a pass.
LEMMA CountsGoOn ==
  ASSUME OneAgentOnly, NeverUnreadable, ExactInv, NEW a \in Agents,
         Start(a) \/ ThreadStep(a) \/ Stop(a), ~MoveEvent(a), ~SendEvent(a)
  PROVE  /\ cnt'[a] = cnt[a] \/ (apc[a] = "load" /\ cnt'[a] = cntdb) \/ apc'[a] \in {"off", "load"}
         /\ apc[a] \in {"off", "load"} => apc'[a] \in {"off", "load"} \/ cnt'[a] = cntdb
         /\ cntdb' = cntdb \/ (apc[a] \notin {"off", "load"} /\ cntdb' = cnt[a])
         /\ apc[a] \in InBetween /\ apc'[a] \notin InBetween => cntdb' = cnt[a]
         /\ Counting(a)' = Counting(a)
         /\ apc[a] \notin InBetween => Counting(a) = 0
<1> USE DEF InBetween, ExactInv, NamesInv, LossInv, TypeInv, TaskTypes, TaskTypeOK
<1>1. ASSUME UNCHANGED <<cnt, dbVars>>, apc[a] \notin {"off", "load"},
             apc[a] \in InBetween => apc'[a] \in InBetween,
             apc[a] = "answered" => Code(a) # "CONSUMED",
             apc'[a] = "answered" => Code(a)' # "CONSUMED"
      PROVE  /\ cnt'[a] = cnt[a] /\ cntdb' = cntdb /\ apc[a] \notin {"off", "load"}
             /\ apc[a] \in InBetween => apc'[a] \in InBetween
             /\ Counting(a)' = 0 /\ Counting(a) = 0
  BY <1>1 DEF dbVars, Counting
<1>2. budget.crash = 0 /\ ~Fault
  BY DEF BackInv, NoTrouble, Fault
<1>3. CASE Start(a) \/ LoadCounters(a) \/ Boot(a) \/ StoreCounters(a)
  BY <1>2, <1>3 DEF Start, LoadCounters, Boot, StoreCounters, Goto, Counting, dbVars
<1>4. CASE Exit(a)
  BY <1>4 DEF Exit, Forget, Goto, Counting, dbVars
<1>5. CASE StoreBackoff(a)
  BY <1>5 DEF StoreBackoff, Goto, Counting, dbVars
<1>6. CASE ReadEvent(a)
  <2>1. CASE Current(a) \in QueuedFiles("pdq")
    <3> DEFINE e == FileOf("pdq", Current(a))
    <3>1. \/ apc'[a] = "answered" /\ pass'[a] = [pass[a] EXCEPT !.event = e, !.code = "BAD_ENTRY"]
          \/ apc'[a] = "send"
      BY <1>6, <2>1 DEF ReadEvent, Goto, InPass
    <3> HIDE DEF e
    <3>2. apc'[a] = "answered" => Code(a)' # "CONSUMED"
      BY <3>1 DEF PassRecords, Code
    <3> QED
      BY <1>1, <1>6, <3>1, <3>2 DEF ReadEvent, InLoop
  <2>2. CASE Current(a) \notin QueuedFiles("pdq")
    BY <1>6, <2>2, PassGoesOn
  <2> QED
    BY <2>1, <2>2
<1>7. CASE RejectName(a)
  <2>1. ~Raise(a)
    BY <1>7, PassGoesOn
  <2> QED
    BY <1>1, <1>7, <2>1 DEF RejectName, InLoop, Raise
<1>8. CASE BackOff(a) \/ StopAll(a) \/ EndOfLoop(a) \/ SkipEvent(a)
  BY <1>1, <1>8 DEF BackOff, StopAll, EndOfLoop, SkipEvent, InLoop, Goto, Code
<1>9. CASE Tick(a) \/ AcquireLock(a) \/ ListQueue(a) \/ ReleaseLock(a) \/ CleanupStep(a)
  BY <1>1, <1>9 DEF Tick, AcquireLock, ListQueue, ReleaseLock, CleanupStep, BeginCleanup, RemoveOld, NextPlace,
         Goto, Raise
<1>10. CASE Stop(a)
  <2>1. UNCHANGED <<apc, cnt, pass, cntdb>>
    BY <1>10 DEF Stop, dbVars
  <2> QED
    BY <1>10, <2>1 DEF Stop, Counting, Code
<1> QED
  BY <1>3, <1>4, <1>5, <1>6, <1>7, <1>8, <1>9, <1>10 DEF ThreadStep, PassStep

\* Every step keeps the counters exact.
LEMMA ExactStep ==
  ASSUME OneAgentOnly, NeverUnreadable, Retriers = {}, ExactInv, [Next]_vars
  PROVE  ExactInv'
<1> USE DEF ExactInv
<1>1. NamesInv' /\ BackInv' /\ OnceInv' /\ FewSoFar'
  BY NamesStep, BackStep, OnceStep, GoneForGood
<1>2. ASSUME NEW a \in Agents, Start(a) \/ ThreadStep(a) \/ Stop(a) \/ Crash(a)
      PROVE  ExactInv'
  <2>1. ~Crash(a)
    BY DEF BackInv, NoTrouble, Crash
  <2>2. CASE MoveEvent(a) \/ SendEvent(a)
    BY <1>1, <1>2, <2>2, HandStays, AnswerToCount, PutAwayCounted
  <2>3. CASE ~MoveEvent(a) /\ ~SendEvent(a)
    <3>1. /\ accepted' = accepted /\ Refused' = Refused
      BY <1>2, <2>3, NothingElseCounts
    <3>2. ASSUME NEW c, NEW late, CountIs(c, late)
          PROVE  CountIs(c, late)'
      BY <3>1, <3>2 DEF CountIs
    <3>3. AllCounted'
      <4>1. /\ cnt'[a] = cnt[a] \/ (apc[a] = "load" /\ cnt'[a] = cntdb) \/ apc'[a] \in {"off", "load"}
            /\ apc[a] \in {"off", "load"} => apc'[a] \in {"off", "load"} \/ cnt'[a] = cntdb
            /\ cntdb' = cntdb \/ (apc[a] \notin {"off", "load"} /\ cntdb' = cnt[a])
            /\ apc[a] \in InBetween /\ apc'[a] \notin InBetween => cntdb' = cnt[a]
            /\ Counting(a)' = Counting(a)
            /\ apc[a] \notin InBetween => Counting(a) = 0
        BY <1>2, <2>1, <2>3, CountsGoOn
      <4>2. /\ apc[a] \notin {"off", "load"} => CountIs(cnt[a], Counting(a))
            /\ apc[a] \notin InBetween => CountIs(cntdb, 0)
        BY DEF AllCounted, InBetween
      <4>3. apc'[a] \notin {"off", "load"} => CountIs(cnt'[a], Counting(a)')
        BY <3>1, <4>1, <4>2 DEF CountIs, InBetween
      <4>4. apc'[a] \notin InBetween => CountIs(cntdb', 0)
        <5>1. apc'[a] \notin InBetween => Counting(a)' = 0
          BY DEF Counting, InBetween
        <5>2. CountIs(cnt[a], Counting(a)) /\ Counting(a) = 0 => CountIs(cnt[a], 0)
          OBVIOUS
        <5> QED
          BY <4>1, <4>2, <5>1, <5>2 DEF InBetween
      <4> QED
        BY <3>1, <4>3, <4>4 DEF AllCounted, CountIs, InBetween, OneAgentOnly
    <3> QED
      BY <1>1, <1>2, <3>3, HandStays
  <2> QED
    BY <2>2, <2>3
<1>3. ASSUME UNCHANGED <<apc, pass, cnt, cntdb, accepted>>,
             \A e \in Events : dir'[e] = dir[e] \/ (dir[e] = "none" /\ dir'[e] = "pdq")
      PROVE  ExactInv'
  <2>1. Refused' = Refused
    BY <1>3, SameRefused
  <2>2. HandQueued'
    BY <1>3 DEF HandQueued, NamesInv, LossInv, TypeInv, Processed
  <2>3. AllCounted'
    BY <1>3, <2>1 DEF AllCounted, CountIs, Counting, Code
  <2> QED
    BY <1>1, <2>2, <2>3
<1>4. ASSUME NEW e \in Events, Sender(e)
      PROVE  ExactInv'
  <2>1. UNCHANGED <<apc, pass, cnt, cntdb, accepted>>
    BY <1>4 DEF Sender, agentVars, taskVars, dbVars, historyVars
  <2>2. \A x \in Events : dir'[x] = dir[x] \/ (dir[x] = "none" /\ dir'[x] = "pdq")
    BY <1>4, SenderNames DEF NamesInv, LossInv, TypeInv, DirTypes, QueueDirTypeOK
  <2> QED
    BY <1>3, <2>1, <2>2
<1>5. CASE Clock \/ UNCHANGED vars
  BY <1>3, <1>5 DEF Clock, vars, queueVars, agentVars, taskVars, dbVars, historyVars
<1> QED
  BY <1>2, <1>4, <1>5 DEF Next

\* Between two flushes the counters that are kept on disk say exactly how many
\* events were acknowledged and how many were put aside, for any number of
\* events, keys, enqueuers and passes, if there is one agent, stopped and
\* started again as often as one likes but never killed, whose database writes
\* succeed and whose answers can be read, and nobody retries events.
THEOREM CountersAreExact ==
  OneAgentOnly /\ NeverUnreadable /\ Retriers = {} /\ Crashes = 0 /\ Faults = 0
    => (Spec => []CountersExact)
<1> SUFFICES ASSUME OneAgentOnly, NeverUnreadable, Retriers = {}, Crashes = 0, Faults = 0
             PROVE  Spec => []CountersExact
  OBVIOUS
<1>1. PDQueueInit => ExactInv
  <2> SUFFICES ASSUME PDQueueInit PROVE ExactInv
    OBVIOUS
  <2>1. accepted = {} /\ PutAway = {} /\ Refused = {}
    BY DEF PDQueueInit, QueueDirInit, PutAway, Refused, Published
  <2>2. FewSoFar
    BY <2>1, FS_EmptySet DEF FewSoFar
  <2>3. HandQueued
    BY DEF PDQueueInit, HandQueued
  <2>4. AllCounted
    <3>1. cntdb.suc = 0 /\ cntdb.err = 0 /\ \A a \in Agents : apc[a] = "off"
      BY DEF PDQueueInit, NoCount
    <3>2. Cardinality(accepted) = 0 /\ Cardinality(Refused) = 0
      BY <2>1, FS_EmptySet
    <3> QED
      BY <3>1, <3>2 DEF AllCounted, CountIs
  <2> QED
    BY <2>2, <2>3, <2>4, NamesInit, BackInit, OnceInit DEF ExactInv
<1>2. ExactInv /\ [Next]_vars => ExactInv'
  BY ExactStep
<1>3. ExactInv => CountersExact
  <2> SUFFICES ASSUME ExactInv, NEW a \in Agents, apc[a] \in {"cleanup", "sweep", "idle"}
               PROVE  cntdb = [suc |-> Cardinality(accepted), err |-> Cardinality(Refused)]
    BY DEF CountersExact, Refused
  <2>1. cntdb.suc + 0 = Cardinality(accepted) /\ cntdb.err = Cardinality(Refused)
    BY DEF ExactInv, AllCounted, CountIs
  <2>2. cntdb \in CountRecords
    BY CountNumbers DEF ExactInv, NamesInv, LossInv
  <2> QED
    BY <2>1, <2>2 DEF CountRecords
<1> QED
  BY <1>1, <1>2, <1>3, PTL DEF Spec
=============================================================================
