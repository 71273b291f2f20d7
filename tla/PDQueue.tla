------------------------------ MODULE PDQueue -------------------------------
(***************************************************************************)
(* The outbound event queue of pdagent with everybody who works on it:     *)
(*   - processes that enqueue events (Enqueue);                            *)
(*   - agents: the SendEventTask thread of a pdagentd, which flushes the   *)
(*     queue to the Events API under the dequeue lock (FileLock), backs    *)
(*     off service keys (Backoff), persists its state and cleans up;       *)
(*   - "pd-queue retry" processes, which move events from err to pdq.      *)
(*                                                                         *)
(* One action is one access to the state that processes share (a listing,  *)
(* a rename, a read, a database write, the HTTP request) together with the *)
(* computation up to the next one.                                         *)
(***************************************************************************)
EXTENDS Enqueue, SendEvent

CONSTANTS
  Agents,           \* pdagentd processes
  Retriers,         \* "pd-queue retry" processes
  Oversize,         \* events larger than event_size_max_bytes
  Answers,          \* answers of the Events API that are considered
  Outage,           \* Outage[k]: from this time on k's events are taken
  Passes,           \* which passes are made: of {"flush", "dequeue"}
  BackoffInterval,  \* backoff_interval_secs
  RetryLimit,       \* retry_limit_for_possible_errors
  CleanupInterval,  \* cleanup_interval_secs
  CleanupAge,       \* cleanup_threshold_secs
  Crashes, Stops, Faults,    \* how often agents are killed, stopped by
                             \* SIGTERM, and fail to write a database
  Inodes, NoInode, MaxPolls, \* of the dequeue lock
  NoEvent

ASSUME PDQueueAssumption ==
  /\ Oversize \subseteq Events
  /\ Answers \subseteq AllAnswers
  /\ Outage \in [Keys -> Nat]
  /\ Passes \subseteq {"flush", "dequeue"}
  /\ BackoffInterval \in Nat \ {0} /\ RetryLimit \in Nat
  /\ CleanupInterval \in 0 .. StartTime
  /\ CleanupAge \in 0 .. StartTime
  /\ Crashes \in Nat /\ Stops \in Nat /\ Faults \in Nat
  /\ NoInode \notin Inodes
  /\ MaxPolls \in Nat \ {0}
  /\ NoEvent \notin Events

VARIABLES
  apc,          \* apc[a]: where agent a's thread is
  stopping,     \* stopping[a]: SIGTERM was received
  bo,           \* bo[a]: backoff_info
  cnt,          \* cnt[a]: counter_info
  pass,         \* pass[a]: the locals of _process_queue and _process_event
  cleaned,      \* cleaned[a]: last_cleanup_time
  sweep,        \* sweep[a]: the locals of cleanup()
  bodb, cntdb,  \* the databases "backoff" and "aggregates"
  rpc,          \* rpc[r]: where retry process r is
  rcnt,         \* rcnt[r]: its counter_info
  rleft,        \* rleft[r]: the names it has still to move
  budget,       \* what is left of Crashes, Stops and Faults
  path, fd, lpc, polls, orphaned,    \* the dequeue lock
  \* what the properties remember:
  accepted,     \* the events that the Events API acknowledged
  errors,       \* errors[e]: answers that may mean e is bad
  setbacks,     \* setbacks[k]: answers that made k back off
  notBefore     \* notBefore[k]: the time k was last told to wait for

Bo == INSTANCE Backoff
Lock == INSTANCE FileLock WITH Procs <- Agents, MayCrash <- (Crashes > 0)

lockVars == <<path, fd, lpc, polls, orphaned>>
taskVars == <<apc, stopping, bo, cnt, pass, cleaned, sweep>>
dbVars == <<bodb, cntdb>>
retryVars == <<rpc, rcnt, rleft>>
historyVars == <<accepted, errors, setbacks, notBefore>>
agentVars == <<taskVars, dbVars, budget, lockVars>>
vars == <<clock, queueVars, senderVars, agentVars, retryVars, historyVars>>

AgentStates ==
  {"off", "load", "boot", "idle", "lock", "locked", "loop", "send", "answered", "store",
   "storeCounters", "release", "cleanup", "sweep"}

NoPass == [listing |-> {}, left |-> {}, now |-> 0, errKeys |-> {},
           event |-> NoEvent, code |-> "none"]
NoSweep == [place |-> "none", before |-> 0, doomed |-> {}]
NoCount == [suc |-> 0, err |-> 0]

Goto(a, pc) == apc' = [apc EXCEPT ![a] = pc]
InPass(a, changes) == pass' = [pass EXCEPT ![a] = changes]

\* Something went wrong that flush() does not handle: the finally clause
\* releases the lock, nothing is stored, tick() swallows the exception.
Raise(a) == Goto(a, "release") /\ InPass(a, NoPass)

PDQueueInit ==
  /\ QueueDirInit /\ SenderInit /\ Lock!LockInit
  /\ apc = [a \in Agents |-> "off"]
  /\ stopping = [a \in Agents |-> FALSE]
  /\ bo = [a \in Agents |-> Bo!NoInfo]
  /\ cnt = [a \in Agents |-> NoCount]
  /\ pass = [a \in Agents |-> NoPass]
  /\ cleaned = [a \in Agents |-> 0]
  /\ sweep = [a \in Agents |-> NoSweep]
  /\ bodb = Bo!EmptyDb /\ cntdb = NoCount
  /\ rpc = [r \in Retriers |-> "off"]
  /\ rcnt = [r \in Retriers |-> NoCount]
  /\ rleft = [r \in Retriers |-> {}]
  /\ budget = [crash |-> Crashes, stop |-> Stops, fault |-> Faults]
  /\ accepted = {}
  /\ errors = [e \in Events |-> 0]
  /\ setbacks = [k \in Keys |-> 0]
  /\ notBefore = [k \in Keys |-> 0]

-----------------------------------------------------------------------------
(* The agent's life: PDQueue.__init__(), SIGTERM, kill *)

\* The database "backoff" is loaded, ..
Start(a) ==
  /\ apc[a] = "off"
  /\ Goto(a, "load")
  /\ bo' = [bo EXCEPT ![a] = Bo!Load(bodb, clock)]
  /\ UNCHANGED <<stopping, cnt, pass, cleaned, sweep, dbVars, budget, lockVars,
                 clock, queueVars, senderVars, retryVars, historyVars>>

\* .. then "aggregates".
LoadCounters(a) ==
  /\ apc[a] = "load"
  /\ Goto(a, "boot")
  /\ cnt' = [cnt EXCEPT ![a] = cntdb]
  /\ UNCHANGED <<stopping, bo, pass, cleaned, sweep, dbVars, budget, lockVars,
                 clock, queueVars, senderVars, retryVars, historyVars>>

\* A database write by agent a: it succeeds, or raises (which store() catches).
Fault == budget.fault > 0 /\ budget' = [budget EXCEPT !.fault = @ - 1]

\* store(reset_data_if_failed=True) of the counters just loaded
Boot(a) ==
  /\ apc[a] = "boot"
  /\ Goto(a, "idle")
  /\ \/ cntdb' = cnt[a] /\ UNCHANGED <<cnt, budget>>
     \/ Fault /\ cnt' = [cnt EXCEPT ![a] = NoCount] /\ UNCHANGED cntdb
  /\ UNCHANGED <<stopping, bo, pass, cleaned, sweep, bodb, lockVars,
                 clock, queueVars, senderVars, retryVars, historyVars>>

\* SIGTERM: the main thread calls stop_async()
Stop(a) ==
  /\ budget.stop > 0
  /\ apc[a] # "off"
  /\ ~stopping[a]
  /\ stopping' = [stopping EXCEPT ![a] = TRUE]
  /\ budget' = [budget EXCEPT !.stop = @ - 1]
  /\ UNCHANGED <<apc, bo, cnt, pass, cleaned, sweep, dbVars, lockVars,
                 clock, queueVars, senderVars, retryVars, historyVars>>

Forget(a) ==
  /\ Goto(a, "off")
  /\ stopping' = [stopping EXCEPT ![a] = FALSE]
  /\ bo' = [bo EXCEPT ![a] = Bo!NoInfo]
  /\ cnt' = [cnt EXCEPT ![a] = NoCount]
  /\ InPass(a, NoPass)
  /\ cleaned' = [cleaned EXCEPT ![a] = 0]
  /\ sweep' = [sweep EXCEPT ![a] = NoSweep]

\* (mutant) the thread ends only once the queue is empty
ExitWhenDrained(a) ==
  /\ apc[a] = "idle"
  /\ stopping[a]
  /\ QueuedFiles("pdq") = {}
  /\ Forget(a)
  /\ UNCHANGED <<dbVars, budget, lockVars,
                 clock, queueVars, senderVars, retryVars, historyVars>>

\* Between two ticks the thread sees the stop request and ends.
Exit(a) ==
  /\ apc[a] = "idle"
  /\ stopping[a]
  /\ Forget(a)
  /\ UNCHANGED <<dbVars, budget, lockVars,
                 clock, queueVars, senderVars, retryVars, historyVars>>

Crash(a) ==
  /\ budget.crash > 0
  /\ apc[a] # "off"
  /\ Forget(a)
  /\ IF lpc[a] = "out" THEN UNCHANGED lockVars ELSE Lock!LockCrash(a)
  /\ budget' = [budget EXCEPT !.crash = @ - 1]
  /\ UNCHANGED <<dbVars, clock, queueVars, senderVars, retryVars, historyVars>>

-----------------------------------------------------------------------------
(* tick(), first half: flush(), that is _process_queue() *)

\* The queue is listed without the lock; EmptyQueueError ends an empty flush.
Tick(a) ==
  /\ apc[a] = "idle"
  /\ ~stopping[a]
  /\ Goto(a, IF QueuedFiles("pdq") = {} THEN "cleanup" ELSE "lock")
  /\ UNCHANGED <<stopping, bo, cnt, pass, cleaned, sweep, dbVars, budget, lockVars,
                 clock, queueVars, senderVars, retryVars, historyVars>>

AcquireLock(a) ==
  /\ apc[a] = "lock"
  /\ \/ Lock!Open(a) /\ UNCHANGED apc
     \/ Lock!Acquire(a) /\ Goto(a, "locked")
     \/ Lock!Busy(a) /\ UNCHANGED apc
     \/ Lock!Timeout(a) /\ Goto(a, "cleanup")
  /\ UNCHANGED <<stopping, bo, cnt, pass, cleaned, sweep, dbVars, budget,
                 clock, queueVars, senderVars, retryVars, historyVars>>

\* The queue is listed again, the back-off state is brought up to date.
ListQueue(a) ==
  /\ apc[a] = "locked"
  /\ LET queued == QueuedFiles("pdq") IN
       IF queued = {}
       THEN Raise(a) /\ UNCHANGED bo
       ELSE /\ \E p \in Passes :
                 LET nms == IF p = "flush" THEN queued ELSE {First(queued)} IN
                 InPass(a, [listing |-> nms, left |-> nms, now |-> clock,
                            errKeys |-> {}, event |-> NoEvent, code |-> "none"])
            /\ bo' = [bo EXCEPT ![a] = Bo!Update(bo[a], clock)]
            /\ Goto(a, "loop")
  /\ UNCHANGED <<stopping, cnt, cleaned, sweep, dbVars, budget, lockVars,
                 clock, queueVars, senderVars, retryVars, historyVars>>

\* the file name of the current iteration, and the loop variable moving on
Current(a) == First(pass[a].left)
NextIteration(a) == [pass[a] EXCEPT !.left = @ \ {Current(a)}]
InLoop(a) == apc[a] = "loop" /\ pass[a].left # {} /\ ~stopping[a]

\* (mutant) a stopped pass returns at once
EndOfLoopUnstored(a) ==
  /\ apc[a] = "loop"
  /\ pass[a].left = {} \/ stopping[a]
  /\ Goto(a, IF stopping[a] THEN "release" ELSE "store")
  /\ InPass(a, NoPass)
  /\ UNCHANGED <<stopping, bo, cnt, cleaned, sweep, dbVars, budget, lockVars,
                 clock, queueVars, senderVars, retryVars, historyVars>>

EndOfLoop(a) ==
  /\ apc[a] = "loop"
  /\ pass[a].left = {} \/ stopping[a]
  /\ Goto(a, "store")
  /\ InPass(a, NoPass)
  /\ UNCHANGED <<stopping, bo, cnt, cleaned, sweep, dbVars, budget, lockVars,
                 clock, queueVars, senderVars, retryVars, historyVars>>

\* A file whose name cannot be parsed goes to err; no counter counts it.
RejectName(a) ==
  /\ InLoop(a)
  /\ BadFileName(Current(a))
  /\ IF Current(a) \in QueuedFiles("pdq")
     THEN /\ Rename(Current(a), "pdq", "err")
          /\ InPass(a, NextIteration(a))
          /\ UNCHANGED apc
     ELSE Raise(a) /\ UNCHANGED dir
  /\ UNCHANGED <<stopping, bo, cnt, cleaned, sweep, dbVars, budget, lockVars,
                 clock, name, data, senderVars, retryVars, historyVars>>

\* (mutant) what failed in this pass is told from its retry time only
HeldBackByTime(a, k) == Bo!BackedOff(bo[a], k, clock)

\* get_current_retry_at(svc_key) > now, or the key failed in this pass
HeldBack(a, k) ==
  k \in pass[a].errKeys \/ Bo!BackedOff(bo[a], k, pass[a].now)

\* (mutant) break instead of going on
SkipRest(a) ==
  /\ InLoop(a)
  /\ ~BadFileName(Current(a))
  /\ HeldBack(a, SvcKey(Current(a)))
  /\ InPass(a, [pass[a] EXCEPT !.left = {}])
  /\ UNCHANGED <<apc, stopping, bo, cnt, cleaned, sweep, dbVars, budget, lockVars,
                 clock, queueVars, senderVars, retryVars, historyVars>>

SkipEvent(a) ==
  /\ InLoop(a)
  /\ ~BadFileName(Current(a))
  /\ HeldBack(a, SvcKey(Current(a)))
  /\ InPass(a, NextIteration(a))
  /\ UNCHANGED <<apc, stopping, bo, cnt, cleaned, sweep, dbVars, budget, lockVars,
                 clock, queueVars, senderVars, retryVars, historyVars>>

\* _process_event(): the file is read, and sent unless it is too large.
\* getsize() raises if the file is gone.
ReadEvent(a) ==
  /\ InLoop(a)
  /\ ~BadFileName(Current(a))
  /\ ~HeldBack(a, SvcKey(Current(a)))
  /\ IF Current(a) \in QueuedFiles("pdq")
     THEN LET e == FileOf("pdq", Current(a)) IN
          IF e \in Oversize
          THEN /\ InPass(a, [pass[a] EXCEPT !.event = e, !.code = "BAD_ENTRY"])
               /\ Goto(a, "answered")
          ELSE /\ InPass(a, [pass[a] EXCEPT !.event = e])
               /\ Goto(a, "send")
     ELSE Raise(a)
  /\ UNCHANGED <<stopping, bo, cnt, cleaned, sweep, dbVars, budget, lockVars,
                 clock, queueVars, senderVars, retryVars, historyVars>>

\* The Events API answers the request, or urlopen() gives up on it.
PossibleAnswers(k) ==
  IF clock > Outage[k] THEN Answers \cap {"ok", "rejected"} ELSE Answers

SendEvent(a) ==
  /\ apc[a] = "send"
  /\ LET e == pass[a].event
         k == SvcKey(Current(a))
     IN \E answer \in PossibleAnswers(k) :
          LET code == ConsumeCode(answer) IN
          /\ IF code = "RAISES"
             THEN Raise(a)
             ELSE /\ Goto(a, "answered")
                  /\ InPass(a, [pass[a] EXCEPT !.code = code])
          /\ accepted' = IF answer = "ok" THEN accepted \cup {e} ELSE accepted
          /\ errors' = IF answer \in MayBeBad
                       THEN [errors EXCEPT ![e] = @ + 1] ELSE errors
          /\ setbacks' = IF answer \in MayBeBad \cup ComeAgain
                         THEN [setbacks EXCEPT ![k] = @ + 1] ELSE setbacks
  /\ UNCHANGED <<stopping, bo, cnt, cleaned, sweep, dbVars, budget, lockVars,
                 clock, queueVars, senderVars, retryVars, notBefore>>

Code(a) == pass[a].code
Done(a) == [NextIteration(a) EXCEPT !.event = NoEvent, !.code = "none"]

\* The event is taken out of the queue.
TakenOut(a) ==
  \/ Code(a) \in {"CONSUMED", "BAD_ENTRY"}
  \/ /\ Code(a) = "BACKOFF_BAD_ENTRY"
     /\ Bo!ThresholdBreached(bo[a], SvcKey(Current(a)))

\* (mutant) a stop request is obeyed before the event is put away
MoveUnlessStopping(a) ==
  /\ apc[a] = "answered"
  /\ TakenOut(a)
  /\ LET to == IF Code(a) = "CONSUMED" THEN "suc" ELSE "err" IN
     IF ~stopping[a]
     THEN /\ Rename(Current(a), "pdq", to)
          /\ cnt' = IF to = "suc" THEN [cnt EXCEPT ![a].suc = @ + 1]
                                 ELSE [cnt EXCEPT ![a].err = @ + 1]
          /\ Goto(a, "loop")
          /\ InPass(a, Done(a))
     ELSE Raise(a) /\ UNCHANGED <<dir, cnt>>
  /\ UNCHANGED <<stopping, bo, cleaned, sweep, dbVars, budget, lockVars,
                 clock, name, data, senderVars, retryVars, historyVars>>

\* (mutant) whatever is put away counts as a success
MoveMiscounted(a) ==
  /\ apc[a] = "answered"
  /\ TakenOut(a)
  /\ IF Current(a) \in QueuedFiles("pdq")
     THEN /\ Rename(Current(a), "pdq", IF Code(a) = "CONSUMED" THEN "suc" ELSE "err")
          /\ cnt' = [cnt EXCEPT ![a].suc = @ + 1]
          /\ Goto(a, "loop")
          /\ InPass(a, Done(a))
     ELSE Raise(a) /\ UNCHANGED <<dir, cnt>>
  /\ UNCHANGED <<stopping, bo, cleaned, sweep, dbVars, budget, lockVars,
                 clock, name, data, senderVars, retryVars, historyVars>>

\* (mutant) the file is moved from wherever another agent has put it
MoveFromAnywhere(a) ==
  /\ apc[a] = "answered"
  /\ TakenOut(a)
  /\ LET to == IF Code(a) = "CONSUMED" THEN "suc" ELSE "err" IN
       /\ dir' = [e \in Events |->
                     IF name[e] = Current(a) /\ dir[e] \in {"pdq", "suc", "err"}
                     THEN to ELSE dir[e]]
       /\ cnt' = IF to = "suc" THEN [cnt EXCEPT ![a].suc = @ + 1]
                              ELSE [cnt EXCEPT ![a].err = @ + 1]
  /\ Goto(a, "loop")
  /\ InPass(a, Done(a))
  /\ UNCHANGED <<stopping, bo, cleaned, sweep, dbVars, budget, lockVars,
                 clock, name, data, senderVars, retryVars, historyVars>>

MoveEvent(a) ==
  /\ apc[a] = "answered"
  /\ TakenOut(a)
  /\ LET to == IF Code(a) = "CONSUMED" THEN "suc" ELSE "err" IN
     IF Current(a) \in QueuedFiles("pdq")
     THEN /\ Rename(Current(a), "pdq", to)
          /\ cnt' = IF to = "suc" THEN [cnt EXCEPT ![a].suc = @ + 1]
                                 ELSE [cnt EXCEPT ![a].err = @ + 1]
          /\ Goto(a, "loop")
          /\ InPass(a, Done(a))
     ELSE Raise(a) /\ UNCHANGED <<dir, cnt>>
  /\ UNCHANGED <<stopping, bo, cleaned, sweep, dbVars, budget, lockVars,
                 clock, name, data, senderVars, retryVars, historyVars>>

\* The service key has to wait.
BackOff(a) ==
  /\ apc[a] = "answered"
  /\ Code(a) \in {"BACKOFF_BAD_ENTRY", "BACKOFF_NOT_CONSUMED"}
  /\ ~TakenOut(a)
  /\ LET k == SvcKey(Current(a)) IN
       /\ bo' = [bo EXCEPT ![a] = Bo!Increment(bo[a], k, clock)]
       /\ InPass(a, [Done(a) EXCEPT !.errKeys = @ \cup {k}])
       /\ notBefore' = [notBefore EXCEPT ![k] = clock + BackoffInterval]
  /\ Goto(a, "loop")
  /\ UNCHANGED <<stopping, cnt, cleaned, sweep, dbVars, budget, lockVars,
                 clock, queueVars, senderVars, retryVars,
                 accepted, errors, setbacks>>

\* STOP_ALL: StopIteration leaves the loop, the event stays queued.
StopAll(a) ==
  /\ apc[a] = "answered"
  /\ Code(a) = "STOP_ALL"
  /\ Goto(a, "store")
  /\ InPass(a, NoPass)
  /\ UNCHANGED <<stopping, bo, cnt, cleaned, sweep, dbVars, budget, lockVars,
                 clock, queueVars, senderVars, retryVars, historyVars>>

StoreBackoff(a) ==
  /\ apc[a] = "store"
  /\ Goto(a, "storeCounters")
  /\ \/ bodb' = Bo!ToDb(bo[a]) /\ UNCHANGED budget
     \/ Fault /\ UNCHANGED bodb
  /\ UNCHANGED <<stopping, bo, cnt, pass, cleaned, sweep, cntdb, lockVars,
                 clock, queueVars, senderVars, retryVars, historyVars>>

StoreCounters(a) ==
  /\ apc[a] = "storeCounters"
  /\ Goto(a, "release")
  /\ \/ cntdb' = cnt[a] /\ UNCHANGED budget
     \/ Fault /\ UNCHANGED cntdb
  /\ UNCHANGED <<stopping, bo, cnt, pass, cleaned, sweep, bodb, lockVars,
                 clock, queueVars, senderVars, retryVars, historyVars>>

ReleaseLock(a) ==
  /\ apc[a] = "release"
  /\ \/ (Lock!Unlink(a) \/ Lock!UnlinkMissing(a) \/ Lock!Finalize(a)) /\ UNCHANGED apc
     \/ Lock!Close(a) /\ Goto(a, "cleanup")
  /\ UNCHANGED <<stopping, bo, cnt, pass, cleaned, sweep, dbVars, budget,
                 clock, queueVars, senderVars, retryVars, historyVars>>

-----------------------------------------------------------------------------
(* tick(), second half: cleanup(), without the lock *)

\* (mutant) without regard to age
OldFilesOfAnyAge(place, before) ==
  LET nms == IF place = "tmp" THEN TmpFiles ELSE QueuedFiles(place) IN
  {nm \in nms : ~BadFileName(nm)}

\* the well-named files of a directory that were enqueued before a time
OldFiles(place, before) ==
  LET nms == IF place = "tmp" THEN TmpFiles ELSE QueuedFiles(place) IN
  {nm \in nms : ~BadFileName(nm) /\ StampOf(nm) < before}

Sweep(a, place, before) ==
  sweep' = [sweep EXCEPT ![a] = [place |-> place, before |-> before,
                                 doomed |-> OldFiles(place, before)]]

BeginCleanup(a) ==
  /\ apc[a] = "cleanup"
  /\ IF clock - cleaned[a] >= CleanupInterval
     THEN /\ Goto(a, "sweep")
          /\ Sweep(a, "err", clock - CleanupAge)
     ELSE Goto(a, "idle") /\ UNCHANGED sweep
  /\ UNCHANGED <<stopping, bo, cnt, pass, cleaned, dbVars, budget, lockVars,
                 clock, queueVars, senderVars, retryVars, historyVars>>

\* (mutant) the file is deleted wherever it is by now
RemoveWherever(a) ==
  /\ apc[a] = "sweep"
  /\ sweep[a].doomed # {}
  /\ LET nm == First(sweep[a].doomed) IN
       /\ sweep' = [sweep EXCEPT ![a].doomed = @ \ {nm}]
       /\ dir' = [e \in Events |-> IF name[e] = nm THEN "removed" ELSE dir[e]]
  /\ UNCHANGED <<apc, stopping, bo, cnt, pass, cleaned, dbVars, budget, lockVars,
                 clock, name, data, senderVars, retryVars, historyVars>>

\* os.remove() of the next file; an error is logged.
RemoveOld(a) ==
  /\ apc[a] = "sweep"
  /\ sweep[a].doomed # {}
  /\ LET nm == First(sweep[a].doomed) IN
       /\ sweep' = [sweep EXCEPT ![a].doomed = @ \ {nm}]
       /\ IF sweep[a].place = "tmp"
          THEN /\ tmp' = [e \in Events |-> IF tmp[e] = nm THEN NoName ELSE tmp[e]]
               /\ UNCHANGED dir
          ELSE Remove(nm, sweep[a].place) /\ UNCHANGED tmp
  /\ UNCHANGED <<apc, stopping, bo, cnt, pass, cleaned, dbVars, budget, lockVars,
                 clock, name, data, spc, stamp, tries, tmp_fname, killed,
                 retryVars, historyVars>>

\* (mutant) the queue itself is swept
NextPlaceInQueue(a) ==
  /\ apc[a] = "sweep"
  /\ sweep[a].doomed = {}
  /\ Sweep(a, IF sweep[a].place = "err" THEN "tmp" ELSE "pdq", sweep[a].before)
  /\ UNCHANGED <<apc, stopping, bo, cnt, pass, cleaned, dbVars, budget, lockVars,
                 clock, queueVars, senderVars, retryVars, historyVars>>

\* err, then tmp, then suc
NextPlace(a) ==
  /\ apc[a] = "sweep"
  /\ sweep[a].doomed = {}
  /\ IF sweep[a].place = "suc"
     THEN /\ Goto(a, "idle")
          /\ cleaned' = [cleaned EXCEPT ![a] = clock]
          /\ sweep' = [sweep EXCEPT ![a] = NoSweep]
     ELSE /\ Sweep(a, IF sweep[a].place = "err" THEN "tmp" ELSE "suc", sweep[a].before)
          /\ UNCHANGED <<apc, cleaned>>
  /\ UNCHANGED <<stopping, bo, cnt, pass, dbVars, budget, lockVars,
                 clock, queueVars, senderVars, retryVars, historyVars>>

-----------------------------------------------------------------------------
(* "pd-queue retry": get_queue(), then resurrect() *)

RetryStates == {"off", "store", "list", "move", "done"}

\* PDQueue.__init__() loads the counters ..
RetryStart(r) ==
  /\ rpc[r] = "off"
  /\ rpc' = [rpc EXCEPT ![r] = "store"]
  /\ rcnt' = [rcnt EXCEPT ![r] = cntdb]
  /\ UNCHANGED <<rleft, clock, queueVars, senderVars, agentVars, historyVars>>

\* .. and writes back what it loaded
RetryStore(r) ==
  /\ rpc[r] = "store"
  /\ rpc' = [rpc EXCEPT ![r] = "list"]
  /\ cntdb' = rcnt[r]
  /\ UNCHANGED <<rcnt, rleft, clock, queueVars, senderVars, taskVars, bodb, budget,
                 lockVars, historyVars>>

\* for one service key or for all; badly named files stay in err
RetryList(r) ==
  /\ rpc[r] = "list"
  /\ rpc' = [rpc EXCEPT ![r] = "move"]
  /\ \E ks \in {Keys} \cup {{k} : k \in Keys} :
       rleft' = [rleft EXCEPT ![r] = {nm \in QueuedFiles("err") : SvcKey(nm) \in ks}]
  /\ UNCHANGED <<rcnt, clock, queueVars, senderVars, agentVars, historyVars>>

\* The next file is renamed back into pdq; OSError ends the command.
RetryMove(r) ==
  /\ rpc[r] = "move"
  /\ rleft[r] # {}
  /\ LET nm == First(rleft[r]) IN
       IF nm \in QueuedFiles("err")
       THEN /\ Rename(nm, "err", "pdq")
            /\ rleft' = [rleft EXCEPT ![r] = @ \ {nm}]
            /\ UNCHANGED rpc
       ELSE /\ rleft' = [rleft EXCEPT ![r] = {}]
            /\ rpc' = [rpc EXCEPT ![r] = "done"]
            /\ UNCHANGED dir
  /\ UNCHANGED <<rcnt, clock, name, data, senderVars, agentVars, historyVars>>

RetryEnd(r) ==
  /\ rpc[r] = "move"
  /\ rleft[r] = {}
  /\ rpc' = [rpc EXCEPT ![r] = "done"]
  /\ UNCHANGED <<rcnt, rleft, clock, queueVars, senderVars, agentVars, historyVars>>

-----------------------------------------------------------------------------
PassStep(a) ==
  \/ AcquireLock(a) \/ ListQueue(a) \/ EndOfLoop(a)
  \/ RejectName(a) \/ SkipEvent(a) \/ ReadEvent(a) \/ SendEvent(a)
  \/ MoveEvent(a) \/ BackOff(a) \/ StopAll(a)
  \/ StoreBackoff(a) \/ StoreCounters(a) \/ ReleaseLock(a)
CleanupStep(a) == BeginCleanup(a) \/ RemoveOld(a) \/ NextPlace(a)
ThreadStep(a) ==
  \/ LoadCounters(a) \/ Boot(a) \/ Tick(a) \/ PassStep(a) \/ CleanupStep(a) \/ Exit(a)
RetryStep(r) ==
  RetryStart(r) \/ RetryStore(r) \/ RetryList(r) \/ RetryMove(r) \/ RetryEnd(r)

Sender(e) == SenderStep(e) /\ UNCHANGED <<clock, agentVars, retryVars, historyVars>>
Clock == ClockTick /\ UNCHANGED <<queueVars, senderVars, agentVars, retryVars, historyVars>>

Next ==
  \/ \E e \in Events : Sender(e)
  \/ \E a \in Agents : Start(a) \/ ThreadStep(a) \/ Stop(a) \/ Crash(a)
  \/ \E r \in Retriers : RetryStep(r)
  \/ Clock

Spec == PDQueueInit /\ [][Next]_vars

\* What was started goes on: a pd-send that is running, the agent's thread
\* (the HTTP request ends, by the socket timeout of 10 s if need be), and time.
\* Nobody has to enqueue, to retry, to stop or to restart anything.
FairSpec ==
  /\ Spec
  /\ \A e \in Events :
       WF_vars(EnqueueStep(e) /\ UNCHANGED <<clock, agentVars, retryVars, historyVars>>)
  /\ \A a \in Agents : WF_vars(ThreadStep(a))
  /\ WF_vars(Clock)

-----------------------------------------------------------------------------
(* Properties *)

LockTypeOK == Lock!LockTypeOK

Budgets == [crash : Nat, stop : Nat, fault : Nat]
CountRecords == [suc : Nat, err : Nat]
PassRecords ==
  [listing : SUBSET Names, left : SUBSET Names, now : Nat, errKeys : SUBSET Keys,
   event : Events \cup {NoEvent}, code : ConsumeCodes \cup {"none"}]
SweepRecords ==
  [place : {"none", "err", "tmp", "suc"}, before : Nat, doomed : SUBSET Names]

TaskTypeOK ==
  /\ apc \in [Agents -> AgentStates]
  /\ stopping \in [Agents -> BOOLEAN]
  /\ bo \in [Agents -> Bo!BackoffInfos]
  /\ cnt \in [Agents -> CountRecords]
  /\ pass \in [Agents -> PassRecords]
  /\ cleaned \in [Agents -> Nat]
  /\ sweep \in [Agents -> SweepRecords]

StoreTypeOK ==
  /\ bodb \in Bo!BackoffDbs
  /\ cntdb \in CountRecords
  /\ budget \in Budgets

RetryTypeOK ==
  /\ rpc \in [Retriers -> RetryStates]
  /\ rcnt \in [Retriers -> CountRecords]
  /\ rleft \in [Retriers -> SUBSET Names]

HistoryTypeOK ==
  /\ accepted \subseteq Events
  /\ errors \in [Events -> Nat]
  /\ setbacks \in [Keys -> Nat]
  /\ notBefore \in [Keys -> Nat]

\* Every variable keeps its kind of value, whatever the order of the steps of
\* enqueuers, agents and retry commands.
TypeOK ==
  /\ QueueDirTypeOK /\ SenderTypeOK /\ LockTypeOK
  /\ TaskTypeOK /\ StoreTypeOK /\ RetryTypeOK /\ HistoryTypeOK

\* No event is lost, whatever crashes, collides or is cleaned up: an event
\* that reached pdq and that the Events API has not acknowledged is in pdq or
\* in err, unless cleanup() found it in err too long after it was enqueued,
\* or another event got the same file name (see OneFilePerName).
NothingLost ==
  \A e \in Events :
    Published(e) /\ e \notin accepted =>
      \/ dir[e] \in {"pdq", "err"}
      \/ dir[e] = "removed" /\ StampOf(name[e]) + CleanupAge < clock
      \/ Reused(e)

\* what the place of an event's file says of the event
StatusOf == [pdq |-> "pending", err |-> "aside", suc |-> "sent", removed |-> "gone",
             clobbered |-> "unclear"]
Status == [e \in Events |->
             IF ~Published(e) THEN "new"
             ELSE IF Reused(e) THEN "unclear" ELSE StatusOf[dir[e]]]

Promise == INSTANCE Delivery WITH status <- Status, acknowledged <- accepted

\* The queue keeps the promise of module Delivery, whatever steps of agents,
\* enqueuers, retry commands and cleanup() come in between: what is pending
\* only ever becomes sent, which needs an acknowledgement, or put aside;
\* what was sent is never pending again.
KeepsPromise == Promise!DeliverySpec

\* "Files are named so that sorting by file name is queue order"
\* (pdqueue.py:40): when an event is sent, no event of its service key with
\* an earlier name that was in the queue at the beginning of the pass is
\* still in the queue, so a failure never lets a later event overtake.
InOrder ==
  \A a \in Agents : apc[a] = "send" =>
    \A x \in Events :
      /\ dir[x] = "pdq"
      /\ name[x] \in pass[a].listing
      /\ SvcKey(name[x]) = SvcKey(Current(a))
      /\ Before(name[x], Current(a))
      => Reused(x)

\* No request is sent for a service key before the time that the key was last
\* told to wait for, also after the agent was stopped and started again; that
\* is, if no exception ended the pass before the back-off was stored.
BackoffHonoured ==
  \A a \in Agents : apc[a] = "send" => notBefore[SvcKey(Current(a))] <= clock

\* An event the Events API acknowledged is not sent again.
NoResend ==
  \A a \in Agents : apc[a] = "send" => pass[a].event \notin accepted

GivesUp(a) ==
  /\ apc[a] = "answered"
  /\ Code(a) = "BACKOFF_BAD_ENTRY"
  /\ TakenOut(a)

\* An event is given up as bad only when its service key had to back off more
\* than retry_limit_for_possible_errors times.
NotGivenUpEarly ==
  \A a \in Agents : GivesUp(a) => setbacks[SvcKey(Current(a))] > RetryLimit

\* "Maximum number of times to retry an event in a service key when errors
\* occur, before [..] marking an event as bad, happens. (Note: only applicable
\* to errors, not when service keys are throttled by PagerDuty.)"
\* (conf/pdagent.conf:23-26): an event that is given up has had its retries,
\* and no event is tried, and answered by an error, more often than that.
RetryLimitKept ==
  /\ \A a \in Agents : GivesUp(a) => errors[pass[a].event] > RetryLimit
  /\ \A e \in Events : errors[e] <= RetryLimit + 1

\* Between two flushes the persisted counters say exactly how many events were
\* acknowledged and how many went to err (badly named files are not counted).
CountersExact ==
  \A a \in Agents : apc[a] \in {"cleanup", "sweep", "idle"} =>
    cntdb = [suc |-> Cardinality(accepted),
             err |-> Cardinality({e \in Events \ (Strays \cup accepted) :
                                    Published(e) /\ dir[e] # "pdq"})]

\* The persisted counters never count an event that was not sent or put aside,
\* whatever crashes come between a rename and the database write.
CountersNeverOvercount ==
  /\ cntdb.suc <= Cardinality(accepted)
  /\ cntdb.err <= Cardinality({e \in Events \ Strays : Published(e) /\ dir[e] # "pdq"})

Up == \E a \in Agents : apc[a] # "off"

\* Every queued event leaves the queue as long as an agent runs, whatever
\* becomes of the events of other service keys; that is, unless its own key
\* has to wait for a time beyond the bound of the clock.
Delivered ==
  \A e \in Events :
    dir[e] = "pdq" /\ Up ~>
      dir[e] # "pdq" \/ ~Up \/ notBefore[KeyOf[e]] > MaxTime

\* An agent that was asked to stop ends, whatever its thread is doing.
Stopped == \A a \in Agents : stopping[a] ~> apc[a] = "off"

\* Every enqueue() ends, also when it finds names taken by the files that a
\* killed enqueue() left behind.
EnqueueEnds == \A e \in Events : Running(e) ~> ~Running(e)
=============================================================================
