---------------------------- MODULE TaskThreads -----------------------------
(***************************************************************************)
(* The threads of a running pdagentd: the main thread (bin/pdagentd.py)    *)
(* starts one RepeatingTaskThread per task (pdagent/pdthread.py), waits    *)
(* for SIGTERM or for a thread to end, then stops and joins the threads    *)
(* one after the other.  The send task is a number of requests here (its   *)
(* queue is module PDQueue); the heartbeat task is pdagent/heartbeat.py.   *)
(*                                                                         *)
(* Time is in seconds.  A thread sleeps or waits for an answer until       *)
(* wake[t]; whoever can go on does so before the clock goes on.            *)
(***************************************************************************)
EXTENDS Integers, Sequences

CONSTANTS
  SendInterval,        \* send_interval_secs
  HeartbeatInterval,   \* heartbeat_interval_secs to begin with
  ServerIntervals,     \* intervals a heartbeat's response may ask for
  Timeout,             \* an HTTP request ends within this time
  RetryGap,            \* RETRY_GAP_SECS
  MaxRetries,          \* HEARTBEAT_MAX_RETRIES
  MaxEvents,           \* events that a flush sends, at most
  StartFails,          \* whether the start of a thread may fail
  ThreadDies,          \* whether an exception may get out of a tick()
  Horizon              \* the model's clock ends here

ASSUME TaskAssumption ==
  /\ {SendInterval, HeartbeatInterval, Timeout, RetryGap, MaxRetries} \subseteq Nat \ {0}
  /\ ServerIntervals \subseteq Nat \ {0}
  /\ MaxEvents \in Nat /\ Horizon \in Nat
  /\ StartFails \in BOOLEAN /\ ThreadDies \in BOOLEAN

VARIABLES
  now,          \* time.time()
  main,         \* where the main thread is in run()
  turn,         \* the thread that main starts, stops or joins
  stop_signal, all_ok,
  task_threads, \* the tasks whose threads were started
  tpc,          \* where a task's thread is
  wake,         \* until when it sleeps or waits
  stop,         \* its _customStop and its task's _stop
  next_run_time,
  interval,     \* its task's _interval_secs
  left,         \* the send task: events left in this flush
  attempt,      \* the heartbeat task: attempt_number,
  limit,        \*   retry_time_limit,
  naps,         \*   seconds left to sleep before the retry
  began, ran,   \* history: when a tick began, the last tick that ended
  fatal,        \* history: a start failed, an exception got out of a tick
  since         \* history: the last time at which nothing called for the end

mainVars == <<main, turn, stop_signal, all_ok, task_threads>>
taskVars == <<left, attempt, limit, naps>>
historyVars == <<began, ran, fatal>>
threadVars == <<tpc, wake, next_run_time, interval, taskVars, historyVars>>
vars == <<now, since, mainVars, stop, threadVars>>

Send == "send"
Heartbeat == "heartbeat"
Tasks == <<Send, Heartbeat>>     \* make_agent_tasks()
TaskNames == {Send, Heartbeat}
is_absolute(t) == t = Heartbeat

Later(a, b) == IF a >= b THEN a ELSE b
Sooner(a, b) == IF a <= b THEN a ELSE b

TasksInit ==
  /\ now = 0 /\ since = 0
  /\ main = "starting" /\ turn = 1
  /\ stop_signal = FALSE /\ all_ok = TRUE
  /\ task_threads = <<>>
  /\ tpc = [t \in TaskNames |-> "none"]
  /\ wake = [t \in TaskNames \cup {"main"} |-> 0]
  /\ stop = [t \in TaskNames |-> FALSE]
  /\ next_run_time = [t \in TaskNames |-> 0]
  /\ interval = [t \in TaskNames |->
                   IF t = Heartbeat THEN HeartbeatInterval ELSE SendInterval]
  /\ left = 0 /\ attempt = 0 /\ limit = 0 /\ naps = 0
  /\ began = [t \in TaskNames |-> 0]
  /\ ran = [t \in TaskNames |-> {}]
  /\ fatal = FALSE

-----------------------------------------------------------------------------
(* RepeatingTaskThread.run() *)

Awake(t) == wake[t] <= now

\* The thread is at a given place and not blocked; daemon threads end with main.
At(t, place) == tpc[t] = place /\ Awake(t) /\ main # "exited"

Goto(t, place) == tpc' = [tpc EXCEPT ![t] = place]
BlockFor(t, secs) == wake' = [wake EXCEPT ![t] = now + secs]

\* while not self._customStop
LeaveLoop(t) ==
  /\ At(t, "loop") /\ stop[t]
  /\ Goto(t, "ended")
  /\ UNCHANGED <<now, since, mainVars, stop, wake, next_run_time, interval, taskVars, historyVars>>

\* (mutant) sleeps until the next run
RestWhole(t) ==
  /\ At(t, "loop") /\ ~stop[t] /\ next_run_time[t] > now
  /\ BlockFor(t, next_run_time[t] - now)
  /\ UNCHANGED <<now, since, mainVars, stop, tpc, next_run_time, interval, taskVars, historyVars>>

\* Sleep at most 1 sec at a time to allow graceful stop
Rest(t) ==
  /\ At(t, "loop") /\ ~stop[t] /\ next_run_time[t] > now
  /\ BlockFor(t, Sooner(next_run_time[t] - now, 1))
  /\ UNCHANGED <<now, since, mainVars, stop, tpc, next_run_time, interval, taskVars, historyVars>>

\* tick() is called: a flush finds some events, a heartbeat sets its limits.
BeginTick(t) ==
  /\ At(t, "loop") /\ ~stop[t] /\ next_run_time[t] <= now
  /\ Goto(t, "tick")
  /\ began' = [began EXCEPT ![t] = now]
  /\ \/ /\ t = Send
        /\ left' \in 0 .. MaxEvents
        /\ UNCHANGED <<attempt, limit, naps>>
     \/ /\ t = Heartbeat
        /\ attempt' = 0
        /\ limit' = now + interval[t] \div 2
        /\ UNCHANGED <<left, naps>>
  /\ UNCHANGED <<now, since, mainVars, stop, wake, next_run_time, interval, ran, fatal>>

\* (mutant) missed ticks are made up for
NextRunCatchUp(t, secs) ==
  IF is_absolute(t) THEN next_run_time[t] + secs ELSE now + secs

\* When the next tick is due, computed at the end of one from the interval
\* as it is by then: missed ticks of an absolute task are dropped.
NextRun(t, secs) ==
  IF is_absolute(t) THEN Later(next_run_time[t] + secs, now) ELSE now + secs

\* tick() returns.
EndTick(t) ==
  /\ Goto(t, "loop")
  /\ next_run_time' = [next_run_time EXCEPT ![t] = NextRun(t, interval'[t])]
  /\ ran' = [ran EXCEPT ![t] = {[began |-> began[t], ended |-> now]}]
  /\ UNCHANGED <<now, since, mainVars, stop, wake, taskVars, began, fatal>>

\* A request is sent; its answer comes in time or the socket times out.
Request(t) ==
  /\ Goto(t, "request")
  /\ \E secs \in 0 .. Timeout : BlockFor(t, secs)
  /\ UNCHANGED <<now, since, mainVars, stop, next_run_time, interval, historyVars>>

\* An exception gets out of tick(), and ends run().
Die(t) ==
  /\ ThreadDies /\ At(t, "tick")
  /\ Goto(t, "ended")
  /\ fatal' = TRUE
  /\ UNCHANGED <<now, since, mainVars, stop, wake, next_run_time, interval, taskVars, began, ran>>

-----------------------------------------------------------------------------
(* SendEventTask.tick() *)

\* The flush goes from event to event until it is told to stop; then cleanup.
SendOne ==
  /\ At(Send, "tick") /\ left > 0 /\ ~stop[Send]
  /\ Request(Send)
  /\ UNCHANGED taskVars

Sent ==
  /\ At(Send, "request")
  /\ Goto(Send, "tick")
  /\ left' = left - 1
  /\ UNCHANGED <<now, since, mainVars, stop, wake, next_run_time, interval,
                 attempt, limit, naps, historyVars>>

EndFlush ==
  /\ At(Send, "tick") /\ (left = 0 \/ stop[Send])
  /\ UNCHANGED interval
  /\ EndTick(Send)

-----------------------------------------------------------------------------
(* HeartbeatTask.tick() *)

Attempt ==
  /\ At(Heartbeat, "tick") /\ ~stop[Heartbeat]
  /\ attempt' = attempt + 1
  /\ Request(Heartbeat)
  /\ UNCHANGED <<left, limit, naps>>

\* while not self.is_stop_invoked()
BeatStopped ==
  /\ At(Heartbeat, "tick") /\ stop[Heartbeat]
  /\ UNCHANGED interval
  /\ EndTick(Heartbeat)

\* (mutant) an error that is not worth a retry gets out of tick()
BeatDoneOrRaises ==
  /\ At(Heartbeat, "request")
  /\ \/ UNCHANGED interval /\ EndTick(Heartbeat)
     \/ /\ Goto(Heartbeat, "ended")
        /\ UNCHANGED <<now, since, mainVars, stop, wake, next_run_time, interval, taskVars, historyVars>>

\* A response, which may ask for another interval, or an error that is not
\* worth a retry (HTTP status below 500, any other exception, one of
\* get_stats() included): all of it is caught within tick().
BeatDone ==
  /\ At(Heartbeat, "request")
  /\ \/ UNCHANGED interval
     \/ \E secs \in ServerIntervals : interval' = [interval EXCEPT ![Heartbeat] = secs]
  /\ EndTick(Heartbeat)

\* (mutant) counts attempts only
OutOfAttempts == attempt >= MaxRetries

\* retry limit checks
OutOfRetries == now > limit \/ attempt >= MaxRetries

BeatFailed ==
  /\ At(Heartbeat, "request")
  /\ \/ /\ OutOfRetries
        /\ UNCHANGED interval
        /\ EndTick(Heartbeat)
     \/ /\ ~OutOfRetries
        /\ Goto(Heartbeat, "nap")
        /\ naps' = RetryGap
        /\ UNCHANGED <<now, since, mainVars, stop, wake, next_run_time, interval,
                       left, attempt, limit, historyVars>>

\* (mutant) sleeps on until it is stopped
NapOn ==
  /\ At(Heartbeat, "nap")
  /\ \/ /\ ~stop[Heartbeat]
        /\ naps' = naps - 1
        /\ BlockFor(Heartbeat, 1)
        /\ UNCHANGED tpc
     \/ /\ stop[Heartbeat]
        /\ Goto(Heartbeat, "tick")
        /\ UNCHANGED <<naps, wake>>
  /\ UNCHANGED <<now, since, mainVars, stop, next_run_time, interval,
                 left, attempt, limit, historyVars>>

\* sleep before retry: second by second, unless a stop is invoked
Nap ==
  /\ At(Heartbeat, "nap")
  /\ \/ /\ naps > 0 /\ ~stop[Heartbeat]
        /\ naps' = naps - 1
        /\ BlockFor(Heartbeat, 1)
        /\ UNCHANGED tpc
     \/ /\ naps = 0 \/ stop[Heartbeat]
        /\ Goto(Heartbeat, "tick")
        /\ UNCHANGED <<naps, wake>>
  /\ UNCHANGED <<now, since, mainVars, stop, next_run_time, interval,
                 left, attempt, limit, historyVars>>

-----------------------------------------------------------------------------
(* bin/pdagentd.py: run() *)

\* create_and_start_task_threads(): a thread that fails to start ends it.
StartThread ==
  /\ main = "starting"
  /\ LET t == Tasks[turn] IN
       \/ /\ Goto(t, "loop")
          /\ next_run_time' = [next_run_time EXCEPT ![t] = now]
          /\ task_threads' = Append(task_threads, t)
          /\ turn' = turn + 1
          /\ main' = IF turn = Len(Tasks) THEN "idle" ELSE "starting"
          /\ UNCHANGED <<all_ok, fatal>>
       \/ /\ StartFails
          /\ all_ok' = FALSE
          /\ fatal' = TRUE
          /\ main' = "idle"
          /\ UNCHANGED <<turn, tpc, next_run_time, task_threads>>
  /\ UNCHANGED <<now, since, stop_signal, stop, wake, interval, taskVars, began, ran>>

\* while all_ok and not stop_signal
Idle == all_ok /\ ~stop_signal

MainSleep ==
  /\ main = "idle" /\ Idle
  /\ main' = "asleep"
  /\ BlockFor("main", 1)
  /\ UNCHANGED <<now, since, turn, stop_signal, all_ok, task_threads, stop,
                 tpc, next_run_time, interval, taskVars, historyVars>>

\* is_alive() of every thread
MainCheck ==
  /\ main = "asleep" /\ Awake("main")
  /\ main' = "idle"
  /\ all_ok' = \A t \in TaskNames : tpc[t] # "ended"
  /\ UNCHANGED <<now, since, turn, stop_signal, task_threads, stop, threadVars>>

MainStop ==
  /\ main = "idle" /\ ~Idle
  /\ main' = "stopping"
  /\ turn' = 1
  /\ UNCHANGED <<now, since, stop_signal, all_ok, task_threads, stop, threadVars>>

\* stop_task_threads(): stop_async(), ...
StopThread ==
  /\ main = "stopping" /\ turn <= Len(task_threads)
  /\ stop' = [stop EXCEPT ![task_threads[turn]] = TRUE]
  /\ main' = "joining"
  /\ UNCHANGED <<now, since, turn, stop_signal, all_ok, task_threads, threadVars>>

\* (mutant) does not wait for the thread to end
JoinNobody ==
  /\ main = "joining"
  /\ turn' = turn + 1
  /\ main' = "stopping"
  /\ UNCHANGED <<now, since, stop_signal, all_ok, task_threads, stop, threadVars>>

\* ... then join(), before the next thread is told to stop.
JoinThread ==
  /\ main = "joining" /\ tpc[task_threads[turn]] = "ended"
  /\ turn' = turn + 1
  /\ main' = "stopping"
  /\ UNCHANGED <<now, since, stop_signal, all_ok, task_threads, stop, threadVars>>

MainExit ==
  /\ main = "stopping" /\ turn > Len(task_threads)
  /\ main' = "exited"
  /\ UNCHANGED <<now, since, turn, stop_signal, all_ok, task_threads, stop, threadVars>>

\* _sig_term_handler()
SigTerm ==
  /\ ~stop_signal /\ main # "exited"
  /\ stop_signal' = TRUE
  /\ UNCHANGED <<now, since, main, turn, all_ok, task_threads, stop, threadVars>>

-----------------------------------------------------------------------------
(* Time *)

MainReady ==
  \/ main \in {"starting", "idle", "stopping"}
  \/ main = "asleep" /\ Awake("main")
  \/ main = "joining" /\ tpc[task_threads[turn]] = "ended"

ThreadReady(t) == tpc[t] \notin {"none", "ended"} /\ Awake(t)

Running == main # "exited" /\ now < Horizon

\* SIGTERM came, a thread has died or has not been started.
EndCalledFor == stop_signal \/ ~all_ok \/ \E t \in TaskNames : tpc[t] = "ended"

\* A second passes, when nobody has anything to do.
Second ==
  /\ Running /\ ~MainReady /\ \A t \in TaskNames : ~ThreadReady(t)
  /\ now' = now + 1
  /\ since' = IF EndCalledFor THEN since ELSE now + 1
  /\ UNCHANGED <<mainVars, stop, threadVars>>

\* Nothing happens after the exit, or after the model's last second.
Finished == ~Running /\ UNCHANGED vars

MainStep ==
  StartThread \/ MainSleep \/ MainCheck \/ MainStop \/ StopThread \/ JoinThread \/ MainExit
LoopStep(t) == LeaveLoop(t) \/ Rest(t) \/ BeginTick(t) \/ Die(t)
SendStep == SendOne \/ Sent \/ EndFlush
HeartbeatStep == Attempt \/ BeatStopped \/ BeatDone \/ BeatFailed \/ Nap

TasksNext ==
  \/ MainStep \/ SigTerm
  \/ \E t \in TaskNames : LoopStep(t)
  \/ SendStep \/ HeartbeatStep
  \/ Second \/ Finished

TasksSpec == TasksInit /\ [][TasksNext]_vars

-----------------------------------------------------------------------------
(* Properties *)

\* Every variable has its type: no thread sleeps or counts below zero.
ThreadsTypeOK ==
  /\ now \in Nat /\ since \in Nat
  /\ main \in {"starting", "idle", "asleep", "stopping", "joining", "exited"}
  /\ turn \in 1 .. Len(Tasks) + 1
  /\ stop_signal \in BOOLEAN /\ all_ok \in BOOLEAN
  /\ task_threads \in {<<>>, <<Send>>, <<Send, Heartbeat>>}
  /\ tpc \in [TaskNames -> {"none", "loop", "tick", "request", "nap", "ended"}]
  /\ wake \in [TaskNames \cup {"main"} -> Nat]
  /\ stop \in [TaskNames -> BOOLEAN]
  /\ next_run_time \in [TaskNames -> Nat]
  /\ interval \in [TaskNames -> Nat \ {0}]
  /\ left \in 0 .. MaxEvents /\ attempt \in 0 .. MaxRetries
  /\ limit \in Nat /\ naps \in 0 .. RetryGap
  /\ began \in [TaskNames -> Nat]
  /\ ran \in [TaskNames -> SUBSET [began : Nat, ended : Nat]]
  /\ fatal \in BOOLEAN

\* Once SIGTERM has come, or a thread has died or could not be started, the
\* process ends: main needs a second to notice, and each thread the rest of
\* a request or of a second's sleep, one after the other since a thread is
\* told to stop only when the one before it has ended.
StopsInTime ==
  EndCalledFor /\ main # "exited" => now <= since + 1 + 2 * Later(1, Timeout)

\* The process does not end under a tick: no event or heartbeat is cut off
\* by the end of the daemon threads, in whatever way the end was called for.
OrderlyExit ==
  main = "exited" => \A t \in TaskNames : tpc[t] \in {"none", "ended"}

\* No thread ends, and the agent does not stop, for less than SIGTERM, a
\* start that failed or an exception that gets out of a tick(): a request
\* that fails, an answer that cannot be read or get_stats() failing under the
\* flush of the other thread (pdqueue.py:516) costs a heartbeat and no more.
EndsForCause ==
  main \in {"stopping", "joining", "exited"} \/ (\E t \in TaskNames : tpc[t] = "ended")
    => stop_signal \/ fatal

\* The retries of a heartbeat end: half an interval after its begin nothing
\* starts any more but what is under way, a request or a gap and a request.
RetriesEndInTime ==
  tpc[Heartbeat] \in {"tick", "request", "nap"} => now <= limit + RetryGap + Timeout

\* "If a call to tick() takes longer than interval_secs, the next call will
\* happen immediately. If a call takes long enough that more than one call is
\* overdue, the extra missed calls are lost." (pdthread.py:129-131)  A flush
\* begins an interval after the last one ended; a heartbeat begins an interval
\* after the last one began, or when that ended if it was late, never sooner,
\* whatever interval the server set meanwhile.
OnSchedule ==
  [][\A t \in TaskNames : BeginTick(t) =>
       \A tick \in ran[t] :
         now = IF is_absolute(t) THEN Later(tick.began + interval[t], tick.ended)
                                 ELSE tick.ended + interval[t]]_vars
=============================================================================
