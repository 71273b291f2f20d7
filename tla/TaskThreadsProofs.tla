--------------------------- MODULE TaskThreadsProofs ---------------------------
(***************************************************************************)
(* What holds of the agent's threads for every choice of intervals,        *)
(* timeouts, retries and events: the agent ends in time (EndsInTime), not  *)
(* under a tick (EndsOrderly) and not without a cause (EndsHaveCause), the *)
(* retries of a heartbeat end (HeartbeatEnds), and ticks begin when they   *)
(* are due (TicksOnSchedule).                                              *)
(***************************************************************************)
EXTENDS TaskThreads, TLAPS

\* the longest time for which a thread sleeps or waits
Wait == Later(1, Timeout)

\* Which threads there are: main starts them in the order of Tasks, and has
\* seen the end of those before turn once it stops them.
Roster ==
  /\ tpc[Send] = "none" <=> task_threads = <<>>
  /\ tpc[Heartbeat] = "none" <=> task_threads # <<Send, Heartbeat>>
  /\ main = "starting" => turn = Len(task_threads) + 1 /\ turn \in {1, 2}
  /\ main \in {"stopping", "joining", "exited"} =>
       /\ turn <= Len(task_threads) + 1
       /\ turn > 1 => tpc[Send] = "ended"
       /\ turn > 2 => tpc[Heartbeat] = "ended"
  /\ main = "joining" => turn <= Len(task_threads) /\ stop[task_threads[turn]]
  /\ main = "exited" => turn > Len(task_threads)

\* What a thread in a tick counts: events or attempts are left.
Counting ==
  /\ tpc[Send] # "nap"
  /\ tpc[Send] = "request" => left > 0
  /\ tpc[Heartbeat] \in {"tick", "nap"} => attempt < MaxRetries

\* No thread is blocked for longer than it may be, and none is in a tick.
Waits ==
  \A t \in TaskNames :
    /\ wake[t] <= now + Wait
    /\ tpc[t] = "tick" => Awake(t)

\* Until when main, in turn n of stopping the threads, is done with the
\* threads before.
Due(n) == since + 1 + (IF n = 1 THEN 0 ELSE IF n = 2 THEN Wait ELSE Wait + Wait)

\* How far main can be behind the call for the end.
Deadlines ==
  /\ since <= now
  /\ ~EndCalledFor => since = now
  /\ main = "starting" \/ (main = "idle" /\ Idle) => since = now
  /\ main = "idle" => now <= since + 1
  /\ main = "asleep" => all_ok /\ now <= wake["main"] /\ wake["main"] <= since + 1
  /\ main = "stopping" => now <= Due(turn)
  /\ main = "joining" =>
       /\ now <= Due(turn + 1)
       /\ tpc[task_threads[turn]] # "ended" => wake[task_threads[turn]] <= Due(turn + 1)

\* How far a heartbeat can be behind its limit.
Retrying ==
  /\ tpc[Heartbeat] = "tick" => now <= limit + RetryGap
  /\ tpc[Heartbeat] = "request" =>
       now <= limit + RetryGap + Timeout /\ wake[Heartbeat] <= limit + RetryGap + Timeout
  /\ tpc[Heartbeat] = "nap" =>
       now + naps <= limit + RetryGap /\ wake[Heartbeat] + naps <= limit + RetryGap

ThreadsInv == ThreadsTypeOK /\ Roster /\ Counting /\ Waits /\ Deadlines /\ Retrying
-----------------------------------------------------------------------------
(* What a step of a thread leaves alone *)

\* a step of the thread of task t
ThreadStep(t) ==
  LoopStep(t) \/ (t = Send /\ SendStep) \/ (t = Heartbeat /\ HeartbeatStep)

\* The constants are numbers; no wait is shorter than a second.
LEMMA ConstantTypes ==
  /\ SendInterval \in Nat \ {0} /\ HeartbeatInterval \in Nat \ {0}
  /\ Timeout \in Nat \ {0} /\ RetryGap \in Nat \ {0} /\ MaxRetries \in Nat \ {0}
  /\ ServerIntervals \subseteq Nat \ {0} /\ MaxEvents \in Nat
  /\ Wait \in Nat /\ Wait >= 1 /\ Wait >= Timeout
  BY TaskAssumption DEF Wait, Later

\* There are two tasks.
LEMMA TaskFacts ==
  /\ TaskNames = {Send, Heartbeat} /\ Send # Heartbeat /\ "main" \notin TaskNames
  /\ Tasks[1] = Send /\ Tasks[2] = Heartbeat /\ Len(Tasks) = 2
  BY DEF TaskNames, Tasks, Send, Heartbeat

\* main has started none, one or both of them.
LEMMA RosterFacts ==
  ASSUME ThreadsTypeOK
  PROVE  /\ Len(task_threads) \in 0 .. 2 /\ turn \in 1 .. 3
         /\ Len(task_threads) = 0 <=> task_threads = <<>>
         /\ Len(task_threads) = 2 <=> task_threads = <<Send, Heartbeat>>
         /\ Len(task_threads) >= 1 => task_threads[1] = Send
         /\ Len(task_threads) = 2 => task_threads[2] = Heartbeat
  BY TaskFacts DEF ThreadsTypeOK

\* The thread that main stops or joins is one that it started.
LEMMA TurnFacts ==
  ASSUME ThreadsTypeOK, turn <= Len(task_threads)
  PROVE  turn \in {1, 2} /\ task_threads[turn] \in TaskNames
<1>1. PICK n : n = Len(task_threads)
  OBVIOUS
<1>2. n \in 0 .. 2 /\ turn \in 1 .. 3 /\ turn <= n
  BY <1>1, RosterFacts
<1>3. turn \in {1, 2} /\ turn <= n
  BY ONLY <1>2
<1>4. task_threads[1] \in TaskNames
  BY <1>1, <1>2, <1>3, RosterFacts, TaskFacts
<1>5. turn = 2 => task_threads[2] \in TaskNames
  BY <1>1, <1>2, <1>3, RosterFacts, TaskFacts
<1> QED
  BY <1>3, <1>4, <1>5

\* A step of a thread is a step of that thread only; once told to stop it
\* blocks no more.
LEMMA ThreadFrame ==
  ASSUME ThreadsTypeOK, NEW t \in TaskNames, ThreadStep(t)
  PROVE  /\ UNCHANGED <<now, since, mainVars, stop>>
         /\ main # "exited"
         /\ tpc[t] \notin {"none", "ended"} /\ tpc'[t] # "none"
         /\ wake'["main"] = wake["main"]
         /\ stop[t] => wake'[t] = wake[t]
         /\ \A u \in TaskNames \ {t} : tpc'[u] = tpc[u] /\ wake'[u] = wake[u]
<1> USE DEF ThreadsTypeOK, mainVars, taskVars, historyVars, At, Goto, BlockFor
<1>0. t # "main" /\ t \in TaskNames \cup {"main"}
  BY DEF TaskNames, Send, Heartbeat
<1>1. CASE LoopStep(t)
  BY <1>0, <1>1 DEF LoopStep, LeaveLoop, Rest, BeginTick, Die
<1>2. CASE t = Send /\ SendStep
  BY <1>0, <1>2 DEF SendStep, SendOne, Sent, EndFlush, Request, EndTick
<1>3. CASE t = Heartbeat /\ (Attempt \/ BeatStopped \/ BeatDone)
  BY <1>0, <1>3 DEF Attempt, BeatStopped, BeatDone, Request, EndTick
<1>4. CASE t = Heartbeat /\ (BeatFailed \/ Nap)
  BY <1>0, <1>4 DEF BeatFailed, Nap, EndTick
<1> QED
  BY <1>1, <1>2, <1>3, <1>4 DEF ThreadStep, HeartbeatStep

\* A thread's step keeps what main knows of the threads.
LEMMA ThreadKeepsMain ==
  ASSUME ThreadsInv, NEW t \in TaskNames, ThreadStep(t)
  PROVE  Roster' /\ Deadlines'
<1> USE DEF ThreadsInv
<1>1. /\ UNCHANGED <<now, since, main, turn, stop_signal, all_ok, task_threads, stop>>
      /\ tpc[t] \notin {"none", "ended"} /\ tpc'[t] # "none"
      /\ wake'["main"] = wake["main"]
      /\ stop[t] => wake'[t] = wake[t]
      /\ \A u \in TaskNames \ {t} : tpc'[u] = tpc[u] /\ wake'[u] = wake[u]
  BY ThreadFrame DEF mainVars
<1>2. Send \in TaskNames /\ Heartbeat \in TaskNames
  BY DEF TaskNames
<1>3. Roster'
  BY <1>1, <1>2 DEF Roster
<1>4. ~EndCalledFor' => ~EndCalledFor
  BY <1>1 DEF EndCalledFor
<1>5. main = "joining" => stop[task_threads[turn]] /\ task_threads[turn] \in TaskNames
  BY RosterFacts, TaskFacts DEF Roster
<1>6. main = "joining" /\ tpc'[task_threads[turn]] # "ended" =>
        /\ tpc[task_threads[turn]] # "ended"
        /\ wake'[task_threads[turn]] = wake[task_threads[turn]]
  BY <1>1, <1>5
<1>7. \A n : Due(n)' = Due(n)
  BY <1>1 DEF Due
<1>8. Deadlines'
  BY <1>1, <1>4, <1>6, <1>7 DEF Deadlines, Idle
<1> QED
  BY <1>3, <1>8

-----------------------------------------------------------------------------
(* Steps of the threads *)

\* The loop of a thread.
LEMMA LoopKeepsInv ==
  ASSUME ThreadsInv, NEW t \in TaskNames, LoopStep(t)
  PROVE  ThreadsTypeOK' /\ Counting' /\ Waits' /\ Retrying'
<1> USE ConstantTypes, TaskFacts DEF ThreadsInv, mainVars, taskVars, historyVars, At, Goto
<1>0. now \in Nat /\ next_run_time[t] \in Nat
  BY DEF ThreadsTypeOK
<1>1. CASE LeaveLoop(t) \/ Die(t)
  <2>1. ThreadsTypeOK'
    BY <1>1 DEF LeaveLoop, Die, ThreadsTypeOK
  <2>2. /\ tpc' = [tpc EXCEPT ![t] = "ended"]
        /\ UNCHANGED <<now, wake, left, attempt, limit, naps>>
    BY <1>1 DEF LeaveLoop, Die
  <2>3. Counting'
    BY <2>2 DEF ThreadsTypeOK, Counting
  <2>4. Waits'
    BY <2>2 DEF ThreadsTypeOK, Waits, Awake
  <2>5. Retrying'
    BY <2>2 DEF ThreadsTypeOK, Retrying
  <2> QED
    BY <2>1, <2>3, <2>4, <2>5
<1>2. CASE Rest(t)
  <2> DEFINE secs == Sooner(next_run_time[t] - now, 1)
  <2>1. secs \in Nat /\ secs <= Wait
    BY <1>0, <1>2 DEF Rest, Sooner
  <2>2. wake' = [wake EXCEPT ![t] = now + secs] /\ tpc[t] = "loop"
    BY <1>2 DEF Rest, BlockFor
  <2> HIDE DEF secs
  <2>3. wake' \in [TaskNames \cup {"main"} -> Nat]
    <3>1. now + secs \in Nat
      BY <1>0, <2>1
    <3> QED
      BY <2>2, <3>1 DEF ThreadsTypeOK
  <2>4. ThreadsTypeOK'
    BY <1>2, <2>3 DEF Rest, ThreadsTypeOK
  <2>5. Counting'
    BY <1>2, <2>1, <2>2 DEF Rest, Counting
  <2>6. Waits'
    <3>1. now + secs <= now + Wait
      BY <1>0, <2>1
    <3> QED
      BY <1>2, <2>2, <3>1 DEF Rest, ThreadsTypeOK, Waits, Awake
  <2>7. Retrying'
    BY <1>2, <1>0, <2>1, <2>2 DEF Rest, ThreadsTypeOK, Retrying
  <2> QED
    BY <2>4, <2>5, <2>6, <2>7
<1>3. CASE BeginTick(t)
  <2>1. interval[Heartbeat] \div 2 \in Nat
    BY DEF ThreadsTypeOK
  <2>2. tpc' \in [TaskNames -> {"none", "loop", "tick", "request", "nap", "ended"}]
    BY <1>3 DEF BeginTick, ThreadsTypeOK
  <2>3. began' \in [TaskNames -> Nat]
    BY <1>3, <1>0 DEF BeginTick, ThreadsTypeOK
  <2>4. left' \in 0 .. MaxEvents /\ attempt' \in 0 .. MaxRetries /\ limit' \in Nat
    <3>1. CASE t = Send
      BY <1>3, <3>1 DEF BeginTick, ThreadsTypeOK
    <3>2. CASE t = Heartbeat
      <4>1. attempt' = 0 /\ limit' = now + interval[Heartbeat] \div 2 /\ UNCHANGED left
        BY <1>3, <3>2 DEF BeginTick
      <4>2. limit' \in Nat
        BY <1>0, <2>1, <4>1
      <4>3. left' \in 0 .. MaxEvents /\ attempt' \in 0 .. MaxRetries
        BY <4>1 DEF ThreadsTypeOK
      <4> QED
        BY <4>2, <4>3
    <3> QED
      BY <3>1, <3>2
  <2>5. ThreadsTypeOK'
    BY <1>3, <2>2, <2>3, <2>4 DEF BeginTick, ThreadsTypeOK
  <2>6. Counting'
    BY <1>3 DEF BeginTick, ThreadsTypeOK, Counting
  <2>7. Waits'
    BY <1>3 DEF BeginTick, ThreadsTypeOK, Waits, Awake
  <2>8. Retrying'
    <3>1. t = Heartbeat => limit' = now + interval[Heartbeat] \div 2
      BY <1>3 DEF BeginTick
    <3>2. t = Heartbeat => now <= limit' + RetryGap
      BY <1>0, <2>1, <3>1
    <3>3. CASE t = Heartbeat
      BY <1>3, <3>2, <3>3 DEF BeginTick, ThreadsTypeOK, Retrying
    <3>4. CASE t = Send
      BY <1>3, <3>4 DEF BeginTick, ThreadsTypeOK, Retrying
    <3> QED
      BY <3>3, <3>4
  <2> QED
    BY <2>5, <2>6, <2>7, <2>8
<1> QED
  BY <1>1, <1>2, <1>3 DEF LoopStep

\* The send task's tick().
LEMMA SendKeepsInv ==
  ASSUME ThreadsInv, SendStep
  PROVE  ThreadsTypeOK' /\ Counting' /\ Waits' /\ Retrying'
<1> USE ConstantTypes, TaskFacts DEF ThreadsInv, mainVars, taskVars, historyVars, At, Goto
<1>0. now \in Nat /\ interval[Send] \in Nat
  BY DEF ThreadsTypeOK
<1>1. CASE SendOne
  <2>1. PICK secs \in 0 .. Timeout : wake' = [wake EXCEPT ![Send] = now + secs]
    BY <1>1 DEF SendOne, Request, BlockFor
  <2>2. now + secs \in Nat /\ now + secs <= now + Wait
    BY <1>0, <2>1
  <2>3. ThreadsTypeOK'
    BY <1>1, <2>1, <2>2 DEF SendOne, Request, ThreadsTypeOK
  <2>4. Counting'
    BY <1>1 DEF SendOne, Request, ThreadsTypeOK, Counting
  <2>5. Waits'
    BY <1>1, <2>1, <2>2 DEF SendOne, Request, ThreadsTypeOK, Waits, Awake
  <2>6. Retrying'
    BY <1>1, <2>1 DEF SendOne, Request, ThreadsTypeOK, Retrying
  <2> QED
    BY <2>3, <2>4, <2>5, <2>6
<1>2. CASE Sent
  <2>1. left' \in 0 .. MaxEvents
    BY <1>2 DEF Sent, ThreadsTypeOK, Counting
  <2>2. ThreadsTypeOK'
    BY <1>2, <2>1 DEF Sent, ThreadsTypeOK
  <2>3. Counting' /\ Retrying'
    BY <1>2 DEF Sent, ThreadsTypeOK, Counting, Retrying
  <2>4. Waits'
    BY <1>2 DEF Sent, ThreadsTypeOK, Waits, Awake
  <2> QED
    BY <2>2, <2>3, <2>4
<1>3. CASE EndFlush
  <2>1. NextRun(Send, interval[Send]) \in Nat /\ interval' = interval
    BY <1>0, <1>3 DEF EndFlush, NextRun, is_absolute
  <2>2. ThreadsTypeOK'
    BY <1>0, <1>3, <2>1 DEF EndFlush, EndTick, ThreadsTypeOK
  <2>3. Counting' /\ Retrying'
    BY <1>3 DEF EndFlush, EndTick, ThreadsTypeOK, Counting, Retrying
  <2>4. Waits'
    BY <1>3 DEF EndFlush, EndTick, ThreadsTypeOK, Waits, Awake
  <2> QED
    BY <2>2, <2>3, <2>4
<1> QED
  BY <1>1, <1>2, <1>3 DEF SendStep

\* The end of a heartbeat's tick().
LEMMA EndOfBeat ==
  ASSUME ThreadsInv, EndTick(Heartbeat), interval' \in [TaskNames -> Nat \ {0}]
  PROVE  ThreadsTypeOK' /\ Counting' /\ Waits' /\ Retrying'
<1> USE ConstantTypes, TaskFacts DEF ThreadsInv, mainVars, taskVars, historyVars, Goto
<1>0. now \in Nat /\ interval'[Heartbeat] \in Nat /\ next_run_time[Heartbeat] \in Nat
  BY DEF ThreadsTypeOK
<1>1. NextRun(Heartbeat, interval'[Heartbeat]) \in Nat
  BY <1>0 DEF NextRun, Later
<1>2. ThreadsTypeOK'
  BY <1>0, <1>1 DEF EndTick, ThreadsTypeOK
<1>3. Counting' /\ Retrying'
  BY DEF EndTick, ThreadsTypeOK, Counting, Retrying
<1>4. Waits'
  BY DEF EndTick, ThreadsTypeOK, Waits, Awake
<1> QED
  BY <1>2, <1>3, <1>4

\* The heartbeat task's tick().
LEMMA HeartbeatKeepsInv ==
  ASSUME ThreadsInv, HeartbeatStep
  PROVE  ThreadsTypeOK' /\ Counting' /\ Waits' /\ Retrying'
<1> USE ConstantTypes, TaskFacts DEF ThreadsInv, mainVars, taskVars, historyVars, At, Goto
<1>0. /\ now \in Nat /\ limit \in Nat /\ naps \in 0 .. RetryGap /\ attempt \in 0 .. MaxRetries
      /\ wake[Heartbeat] \in Nat
  BY DEF ThreadsTypeOK
<1>1. CASE Attempt
  <2>1. PICK secs \in 0 .. Timeout : wake' = [wake EXCEPT ![Heartbeat] = now + secs]
    BY <1>1 DEF Attempt, Request, BlockFor
  <2>2. now + secs \in Nat /\ now + secs <= now + Wait /\ now + secs <= now + Timeout
    BY <1>0, <2>1
  <2>3. attempt' \in 0 .. MaxRetries
    BY <1>0, <1>1 DEF Attempt, Counting
  <2>4. ThreadsTypeOK'
    BY <1>1, <2>1, <2>2, <2>3 DEF Attempt, Request, ThreadsTypeOK
  <2>5. Counting'
    BY <1>1 DEF Attempt, Request, ThreadsTypeOK, Counting
  <2>6. Waits'
    BY <1>1, <2>1, <2>2 DEF Attempt, Request, ThreadsTypeOK, Waits, Awake
  <2>7. Retrying'
    <3>1. now <= limit + RetryGap
      BY <1>1 DEF Attempt, Retrying
    <3>2. now + secs <= limit + RetryGap + Timeout /\ now <= limit + RetryGap + Timeout
      BY <1>0, <2>1, <2>2, <3>1
    <3> QED
      BY <1>1, <2>1, <3>2 DEF Attempt, Request, ThreadsTypeOK, Retrying
  <2> QED
    BY <2>4, <2>5, <2>6, <2>7
<1>2. CASE BeatStopped
  BY <1>2, EndOfBeat DEF BeatStopped, ThreadsTypeOK
<1>3. CASE BeatDone
  <2>1. interval' \in [TaskNames -> Nat \ {0}]
    BY <1>3 DEF BeatDone, ThreadsTypeOK
  <2> QED
    BY <1>3, <2>1, EndOfBeat DEF BeatDone
<1>4. CASE BeatFailed
  <2>1. CASE OutOfRetries
    BY <1>4, <2>1, EndOfBeat DEF BeatFailed, ThreadsTypeOK
  <2>2. CASE ~OutOfRetries
    <3>1. now <= limit /\ attempt < MaxRetries /\ wake[Heartbeat] <= now
      BY <1>0, <1>4, <2>2 DEF OutOfRetries, BeatFailed, Awake
    <3>2. /\ tpc' = [tpc EXCEPT ![Heartbeat] = "nap"] /\ naps' = RetryGap
          /\ UNCHANGED <<now, since, mainVars, stop, wake, next_run_time, interval,
                         left, attempt, limit, historyVars>>
      BY <1>4, <2>2 DEF BeatFailed
    <3>3. ThreadsTypeOK'
      <4>1. RetryGap \in 0 .. RetryGap
        OBVIOUS
      <4>2. tpc' \in [TaskNames -> {"none", "loop", "tick", "request", "nap", "ended"}]
        BY <3>2 DEF ThreadsTypeOK
      <4> QED
        BY <3>2, <4>1, <4>2 DEF ThreadsTypeOK
    <3>4. Counting'
      BY <3>1, <3>2 DEF ThreadsTypeOK, Counting
    <3>5. Waits'
      BY <3>2 DEF ThreadsTypeOK, Waits, Awake
    <3>6. now + RetryGap <= limit + RetryGap /\ wake[Heartbeat] + RetryGap <= limit + RetryGap
      BY <1>0, <3>1
    <3>7. Retrying'
      BY <3>2, <3>6 DEF ThreadsTypeOK, Retrying
    <3> QED
      BY <3>3, <3>4, <3>5, <3>7
  <2> QED
    BY <2>1, <2>2
<1>5. CASE Nap
  <2>0. tpc[Heartbeat] = "nap" /\ now + naps <= limit + RetryGap
    BY <1>5 DEF Nap, Retrying
  <2>1. CASE naps > 0 /\ ~stop[Heartbeat]
    <3>1. /\ naps' = naps - 1 /\ wake' = [wake EXCEPT ![Heartbeat] = now + 1]
          /\ UNCHANGED <<now, since, mainVars, stop, tpc, next_run_time, interval,
                         left, attempt, limit, historyVars>>
      BY <1>0, <1>5, <2>1 DEF Nap, BlockFor
    <3>2. naps - 1 \in 0 .. RetryGap /\ now + 1 \in Nat /\ now + 1 <= now + Wait
      BY <1>0, <2>1
    <3>3. ThreadsTypeOK'
      BY <3>1, <3>2 DEF ThreadsTypeOK
    <3>4. Counting'
      BY <3>1 DEF Counting
    <3>5. Waits'
      BY <2>0, <3>1, <3>2 DEF ThreadsTypeOK, Waits, Awake
    <3>6. now + (naps - 1) <= limit + RetryGap /\ now + 1 + (naps - 1) <= limit + RetryGap
      BY <1>0, <2>0
    <3>7. Retrying'
      BY <2>0, <3>1, <3>6 DEF ThreadsTypeOK, Retrying
    <3> QED
      BY <3>3, <3>4, <3>5, <3>7
  <2>2. CASE ~(naps > 0 /\ ~stop[Heartbeat])
    <3>1. /\ tpc' = [tpc EXCEPT ![Heartbeat] = "tick"] /\ wake[Heartbeat] <= now
          /\ UNCHANGED <<now, since, mainVars, stop, wake, naps, next_run_time, interval,
                         left, attempt, limit, historyVars>>
      BY <1>5, <2>2 DEF Nap, Awake
    <3>2. now <= limit + RetryGap
      BY <1>0, <2>0
    <3>3. ThreadsTypeOK'
      BY <3>1 DEF ThreadsTypeOK
    <3>4. Counting'
      BY <2>0, <3>1 DEF ThreadsTypeOK, Counting
    <3>5. Waits'
      BY <3>1 DEF ThreadsTypeOK, Waits, Awake
    <3>6. Retrying'
      BY <3>1, <3>2 DEF ThreadsTypeOK, Retrying
    <3> QED
      BY <3>3, <3>4, <3>5, <3>6
  <2> QED
    BY <2>1, <2>2
<1> QED
  BY <1>1, <1>2, <1>3, <1>4, <1>5 DEF HeartbeatStep

-----------------------------------------------------------------------------
(* Steps of the main thread, and time *)

\* main's deadline moves by one wait with every thread it has joined.
LEMMA DueFacts ==
  ASSUME ThreadsTypeOK
  PROVE  /\ Due(1) = since + 1 /\ Due(2) = since + 1 + Wait /\ Due(3) = since + 1 + Wait + Wait
         /\ since \in Nat /\ now \in Nat
         /\ \A n \in {1, 2} : Due(n) + Wait = Due(n + 1) /\ Due(n) <= Due(n + 1)
<1>1. Wait \in Nat /\ since \in Nat /\ now \in Nat
  BY ConstantTypes DEF ThreadsTypeOK
<1> HIDE DEF Wait
<1>2. Due(1) = since + 1
  BY <1>1 DEF Due
<1>3. Due(2) = since + 1 + Wait
  BY <1>1 DEF Due
<1>4. Due(3) = since + 1 + Wait + Wait
  BY <1>1 DEF Due
<1>5. ASSUME NEW n \in {1, 2}
      PROVE  Due(n) + Wait = Due(n + 1) /\ Due(n) <= Due(n + 1)
  <2>1. CASE n = 1
    BY <1>1, <1>2, <1>3, <2>1
  <2>2. CASE n = 2
    BY <1>1, <1>3, <1>4, <2>2
  <2> QED
    BY <2>1, <2>2
<1> QED
  BY <1>1, <1>2, <1>3, <1>4, <1>5

\* Append() to a sequence of one.
LEMMA AppendToOne ==
  ASSUME NEW a, NEW b
  PROVE  Append(<<a>>, b) = <<a, b>>
<1> DEFINE S == {a, b}
<1>1. <<a>> \in Seq(S) /\ b \in S
  OBVIOUS
<1>2. Append(<<a>>, b) \in Seq(S) /\ Len(Append(<<a>>, b)) = 2
  BY <1>1
<1>3. Append(<<a>>, b)[1] = a /\ Append(<<a>>, b)[2] = b
  BY <1>1
<1>4. Append(<<a>>, b) = [i \in 1 .. 2 |-> IF i = 1 THEN a ELSE b]
  <2>1. Append(<<a>>, b) = [i \in 1 .. 2 |-> Append(<<a>>, b)[i]]
    BY <1>2
  <2> QED
    BY <1>3, <2>1
<1>5. <<a, b>> = [i \in 1 .. 2 |-> IF i = 1 THEN a ELSE b]
  OBVIOUS
<1> QED
  BY <1>4, <1>5

\* main starts the threads.
LEMMA StartKeepsInv ==
  ASSUME ThreadsInv, StartThread
  PROVE  ThreadsInv'
<1> USE ConstantTypes, TaskFacts, RosterFacts DEF ThreadsInv, taskVars, historyVars
<1>0. /\ turn \in {1, 2} /\ turn = Len(task_threads) + 1 /\ main = "starting" /\ since = now
      /\ now \in Nat
  BY DEF StartThread, Roster, Deadlines, ThreadsTypeOK
<1> DEFINE t == Tasks[turn]
<1>1. t \in TaskNames /\ (turn = 1 => t = Send) /\ (turn = 2 => t = Heartbeat)
  BY <1>0
<1>2. CASE /\ Goto(t, "loop")
           /\ next_run_time' = [next_run_time EXCEPT ![t] = now]
           /\ task_threads' = Append(task_threads, t)
           /\ turn' = turn + 1
           /\ main' = IF turn = Len(Tasks) THEN "idle" ELSE "starting"
           /\ UNCHANGED all_ok
  <2>1. /\ UNCHANGED <<now, since, stop_signal, stop, wake, interval, taskVars, began, ran>>
        /\ fatal' \in {fatal, TRUE}
    BY DEF StartThread
  <2>2. \/ turn = 1 /\ task_threads = <<>> /\ task_threads' = <<Send>> /\ main' = "starting"
        \/ turn = 2 /\ task_threads = <<Send>> /\ task_threads' = <<Send, Heartbeat>>
           /\ main' = "idle"
    <3>1. task_threads \in {<<>>, <<Send>>, <<Send, Heartbeat>>}
      BY DEF ThreadsTypeOK
    <3>2. CASE turn = 1
      <4>1. task_threads = <<>> /\ t = Send
        BY <1>0, <1>1, <3>1, <3>2
      <4>2. Append(<<>>, Send) = <<Send>>
        OBVIOUS
      <4>3. task_threads' = <<Send>> /\ main' = "starting"
        BY <1>2, <3>2, <4>1, <4>2
      <4> QED
        BY <3>2, <4>1, <4>3
    <3>3. CASE turn = 2
      <4>1. task_threads = <<Send>> /\ t = Heartbeat
        BY <1>0, <1>1, <3>1, <3>3
      <4>2. Append(<<Send>>, Heartbeat) = <<Send, Heartbeat>>
        BY AppendToOne
      <4>3. task_threads' = <<Send, Heartbeat>> /\ main' = "idle"
        BY <1>2, <3>3, <4>1, <4>2
      <4> QED
        BY <3>3, <4>1, <4>3
    <3> QED
      BY <1>0, <3>2, <3>3
  <2> HIDE DEF t
  <2>3. tpc' = [tpc EXCEPT ![t] = "loop"]
    BY <1>2 DEF Goto
  <2>4. turn' \in 1 .. 3 /\ turn' = turn + 1
    BY <1>0, <1>2
  <2>5. ThreadsTypeOK'
    <3>1. /\ turn' \in 1 .. Len(Tasks) + 1 /\ main' \in {"starting", "idle"} /\ UNCHANGED all_ok
          /\ task_threads' \in {<<>>, <<Send>>, <<Send, Heartbeat>>}
      BY <1>2, <2>2, <2>4
    <3>2. tpc' \in [TaskNames -> {"none", "loop", "tick", "request", "nap", "ended"}]
      BY <1>1, <2>3 DEF ThreadsTypeOK
    <3>3. next_run_time' \in [TaskNames -> Nat]
      BY <1>0, <1>2 DEF ThreadsTypeOK
    <3>4. ran' = ran
      BY <2>1
    <3> QED
      BY <2>1, <3>1, <3>2, <3>3, <3>4, Zenon DEF ThreadsTypeOK
  <2>6. Roster'
    <3>1. tpc \in [TaskNames -> {"none", "loop", "tick", "request", "nap", "ended"}]
      BY DEF ThreadsTypeOK
    <3>2. CASE turn = 1
      <4>1. tpc'[Send] = "loop" /\ tpc'[Heartbeat] = tpc[Heartbeat] /\ turn' = 2
        BY <1>1, <2>3, <2>4, <3>1, <3>2
      <4>2. task_threads = <<>> /\ task_threads' = <<Send>> /\ main' = "starting"
        BY <2>2, <3>2
      <4>3. tpc[Heartbeat] = "none"
        BY <4>2 DEF Roster
      <4>4. Len(<<Send>>) = 1 /\ <<Send>> # <<>> /\ <<Send>> # <<Send, Heartbeat>>
        OBVIOUS
      <4> QED
        BY <4>1, <4>2, <4>3, <4>4 DEF Roster
    <3>3. CASE turn = 2
      <4>1. tpc'[Heartbeat] = "loop" /\ tpc'[Send] = tpc[Send]
        BY <1>1, <2>3, <3>1, <3>3
      <4>2. task_threads = <<Send>> /\ task_threads' = <<Send, Heartbeat>> /\ main' = "idle"
        BY <2>2, <3>3
      <4>3. tpc[Send] # "none"
        BY <4>2 DEF Roster
      <4>4. <<Send, Heartbeat>> # <<>>
        OBVIOUS
      <4> QED
        BY <4>1, <4>2, <4>3, <4>4 DEF Roster
    <3> QED
      BY <1>0, <3>2, <3>3
  <2>7. Counting' /\ Retrying'
    BY <1>1, <2>1, <2>3 DEF Counting, Retrying, ThreadsTypeOK
  <2>8. Waits'
    BY <1>1, <2>1, <2>3 DEF Waits, Awake, ThreadsTypeOK
  <2>9. Deadlines'
    BY <1>0, <2>1, <2>2 DEF Deadlines
  <2> QED
    BY <2>5, <2>6, <2>7, <2>8, <2>9
<1>3. CASE all_ok' = FALSE /\ main' = "idle" /\ UNCHANGED <<turn, tpc, next_run_time, task_threads>>
  <2>1. /\ UNCHANGED <<now, since, stop_signal, stop, wake, interval, taskVars, began, ran>>
        /\ fatal' \in {fatal, TRUE}
    BY DEF StartThread
  <2>2. ThreadsTypeOK'
    BY <1>3, <2>1 DEF ThreadsTypeOK
  <2>3. Roster' /\ Counting' /\ Retrying'
    BY <1>3, <2>1 DEF Roster, Counting, Retrying
  <2>4. Waits'
    BY <1>3, <2>1 DEF Waits, Awake
  <2>5. Deadlines'
    BY <1>0, <1>3, <2>1 DEF Deadlines
  <2> QED
    BY <2>2, <2>3, <2>4, <2>5
<1> QED
  BY <1>2, <1>3 DEF StartThread

\* main idles, and then stops and joins the threads.
LEMMA MainKeepsInv ==
  ASSUME ThreadsInv,
         MainSleep \/ MainCheck \/ MainStop \/ StopThread \/ JoinThread \/ MainExit \/ SigTerm
  PROVE  ThreadsInv'
<1> USE ConstantTypes, TaskFacts, RosterFacts DEF ThreadsInv, taskVars, historyVars, threadVars
<1>0. now \in Nat /\ since \in Nat
  BY DEF ThreadsTypeOK
<1>1. CASE MainSleep
  <2>1. wake' = [wake EXCEPT !["main"] = now + 1] /\ now + 1 \in Nat /\ since = now
    BY <1>0, <1>1 DEF MainSleep, BlockFor, Deadlines
  <2>2. wake'["main"] = now + 1 /\ \A t \in TaskNames : wake'[t] = wake[t]
    BY <2>1 DEF ThreadsTypeOK
  <2>3. ThreadsTypeOK'
    BY <1>1, <2>1 DEF MainSleep, ThreadsTypeOK
  <2>4. Roster' /\ Counting' /\ Retrying'
    BY <1>1, <2>2 DEF MainSleep, Roster, Counting, Retrying
  <2>5. Waits'
    BY <1>1, <2>2 DEF MainSleep, Waits, Awake
  <2>6. Deadlines'
    <3>1. /\ main' = "asleep" /\ all_ok' /\ now' = now /\ since' = since
      BY <1>1 DEF MainSleep, Idle
    <3> QED
      BY <1>0, <2>1, <2>2, <3>1 DEF Deadlines
  <2> QED
    BY <2>3, <2>4, <2>5, <2>6
<1>2. CASE MainCheck
  <2>1. /\ main = "asleep" /\ main' = "idle" /\ all_ok /\ now <= since + 1
        /\ all_ok' = (\A t \in TaskNames : tpc[t] # "ended")
        /\ UNCHANGED <<now, since, turn, stop_signal, task_threads, stop, threadVars>>
    BY <1>0, <1>2 DEF MainCheck, Awake, Deadlines, ThreadsTypeOK
  <2>2. ThreadsTypeOK'
    BY <2>1 DEF ThreadsTypeOK
  <2>3. Roster' /\ Counting' /\ Retrying'
    BY <2>1 DEF Roster, Counting, Retrying
  <2>4. Waits'
    BY <2>1 DEF Waits, Awake
  <2>5. Deadlines'
    <3>1. ~EndCalledFor' => ~EndCalledFor
      BY <2>1 DEF EndCalledFor
    <3>2. Idle' => ~EndCalledFor
      BY <2>1 DEF Idle, EndCalledFor
    <3> QED
      BY <2>1, <3>1, <3>2 DEF Deadlines
  <2> QED
    BY <2>2, <2>3, <2>4, <2>5
<1>3. CASE MainStop
  <2>1. /\ main = "idle" /\ main' = "stopping" /\ turn' = 1 /\ now <= since + 1
        /\ UNCHANGED <<now, since, stop_signal, all_ok, task_threads, stop, threadVars>>
    BY <1>3 DEF MainStop, Deadlines
  <2>2. ThreadsTypeOK'
    BY <2>1 DEF ThreadsTypeOK
  <2>3. Roster' /\ Counting' /\ Retrying'
    BY <2>1 DEF Roster, Counting, Retrying
  <2>4. Waits'
    BY <2>1 DEF Waits, Awake
  <2>5. Deadlines'
    <3>1. EndCalledFor' <=> EndCalledFor
      BY <2>1 DEF EndCalledFor
    <3>2. now' <= Due(turn)'
      BY <1>0, <2>1 DEF Due
    <3> QED
      BY <2>1, <3>1, <3>2 DEF Deadlines
  <2> QED
    BY <2>2, <2>3, <2>4, <2>5
<1>4. CASE StopThread
  <2> DEFINE t == task_threads[turn]
  <2>1. /\ main = "stopping" /\ main' = "joining" /\ turn <= Len(task_threads)
        /\ stop' = [stop EXCEPT ![t] = TRUE]
        /\ UNCHANGED <<now, since, turn, stop_signal, all_ok, task_threads, threadVars>>
    BY <1>4 DEF StopThread
  <2>2. turn \in {1, 2} /\ t \in TaskNames
    BY <2>1, TurnFacts
  <2>3. ThreadsTypeOK'
    BY <2>1, <2>2 DEF ThreadsTypeOK
  <2>4. Roster'
    <3>1. stop'[t]
      BY <2>1, <2>2 DEF ThreadsTypeOK
    <3> QED
      BY <2>1, <3>1 DEF Roster
  <2>5. Counting' /\ Retrying'
    BY <2>1 DEF Counting, Retrying
  <2>6. Waits'
    BY <2>1 DEF Waits, Awake
  <2>7. Deadlines'
    <3>1. EndCalledFor' <=> EndCalledFor
      BY <2>1 DEF EndCalledFor
    <3>2. now <= Due(turn) /\ wake[t] <= now + Wait /\ wake[t] \in Nat
      BY <2>1, <2>2 DEF Deadlines, Waits, ThreadsTypeOK
    <3>3. now <= Due(turn + 1) /\ wake[t] <= Due(turn + 1)
      <4>1. CASE turn = 1
        BY <1>0, <3>2, <4>1, DueFacts
      <4>2. CASE turn = 2
        BY <1>0, <3>2, <4>2, DueFacts
      <4> QED
        BY <2>2, <4>1, <4>2
    <3>4. Due(turn + 1)' = Due(turn + 1)
      BY <2>1 DEF Due
    <3> QED
      BY <2>1, <3>1, <3>3, <3>4 DEF Deadlines
  <2> QED
    BY <2>3, <2>4, <2>5, <2>6, <2>7
<1>5. CASE JoinThread
  <2>1. /\ main = "joining" /\ main' = "stopping" /\ turn' = turn + 1
        /\ tpc[task_threads[turn]] = "ended"
        /\ UNCHANGED <<now, since, stop_signal, all_ok, task_threads, stop, threadVars>>
    BY <1>5 DEF JoinThread
  <2>2. turn \in {1, 2} /\ turn <= Len(task_threads)
    BY <2>1, TurnFacts DEF Roster
  <2>3. ThreadsTypeOK'
    BY <2>1, <2>2 DEF ThreadsTypeOK
  <2>4. Roster'
    <3>1. CASE turn = 1
      BY <2>1, <2>2, <3>1 DEF Roster
    <3>2. CASE turn = 2
      BY <2>1, <2>2, <3>2 DEF Roster
    <3> QED
      BY <2>2, <3>1, <3>2
  <2>5. Counting' /\ Retrying'
    BY <2>1 DEF Counting, Retrying
  <2>6. Waits'
    BY <2>1 DEF Waits, Awake
  <2>7. Deadlines'
    <3>1. EndCalledFor' <=> EndCalledFor
      BY <2>1 DEF EndCalledFor
    <3>2. now' <= Due(turn)'
      BY <2>1 DEF Deadlines, Due
    <3> QED
      BY <2>1, <3>1, <3>2 DEF Deadlines
  <2> QED
    BY <2>3, <2>4, <2>5, <2>6, <2>7
<1>6. CASE MainExit
  <2>1. /\ main = "stopping" /\ main' = "exited" /\ turn > Len(task_threads)
        /\ UNCHANGED <<now, since, turn, stop_signal, all_ok, task_threads, stop, threadVars>>
    BY <1>6 DEF MainExit
  <2>2. ThreadsTypeOK'
    BY <2>1 DEF ThreadsTypeOK
  <2>3. Roster' /\ Counting' /\ Retrying'
    BY <2>1 DEF Roster, Counting, Retrying
  <2>4. Waits'
    BY <2>1 DEF Waits, Awake
  <2>5. Deadlines'
    <3>1. EndCalledFor' <=> EndCalledFor
      BY <2>1 DEF EndCalledFor
    <3> QED
      BY <2>1, <3>1 DEF Deadlines
  <2> QED
    BY <2>2, <2>3, <2>4, <2>5
<1>7. CASE SigTerm
  <2>1. stop_signal' = TRUE /\ UNCHANGED <<now, since, main, turn, all_ok, task_threads, stop, threadVars>>
    BY <1>7 DEF SigTerm
  <2>2. ThreadsTypeOK'
    BY <2>1 DEF ThreadsTypeOK
  <2>3. Roster' /\ Counting' /\ Retrying'
    BY <2>1 DEF Roster, Counting, Retrying
  <2>4. Waits'
    BY <2>1 DEF Waits, Awake
  <2>5. Deadlines'
    BY <2>1 DEF Deadlines, Due, EndCalledFor, Idle
  <2> QED
    BY <2>2, <2>3, <2>4, <2>5
<1> QED
  BY <1>1, <1>2, <1>3, <1>4, <1>5, <1>6, <1>7

\* A second passes only while everybody is blocked.
LEMMA SecondKeepsInv ==
  ASSUME ThreadsInv, Second
  PROVE  ThreadsInv'
<1> USE ConstantTypes, TaskFacts, RosterFacts DEF ThreadsInv, taskVars, historyVars, threadVars, mainVars
<1>1. /\ now' = now + 1 /\ since' = IF EndCalledFor THEN since ELSE now + 1
      /\ UNCHANGED <<mainVars, stop, threadVars>>
      /\ ~MainReady /\ main # "exited"
      /\ \A t \in TaskNames : tpc[t] \in {"none", "ended"} \/ wake[t] > now
  BY DEF Second, ThreadReady, Awake, ThreadsTypeOK, Running
<1>2. /\ now \in Nat /\ since \in Nat /\ since <= now
      /\ \A t \in TaskNames \cup {"main"} : wake[t] \in Nat
  BY DEF ThreadsTypeOK, Deadlines
<1>3. ThreadsTypeOK'
  BY <1>1, <1>2 DEF ThreadsTypeOK
<1>4. Roster' /\ Counting'
  BY <1>1 DEF Roster, Counting
<1>5. Waits'
  BY <1>1, <1>2 DEF Waits, Awake
<1>6. Retrying'
  <2>1. tpc[Heartbeat] \in {"tick", "request", "nap"} => now + 1 <= wake[Heartbeat]
    BY <1>1, <1>2
  <2>2. limit \in Nat /\ naps \in Nat
    BY DEF ThreadsTypeOK
  <2>3. tpc[Heartbeat] # "tick"
    BY <1>1, <1>2 DEF Waits, Awake
  <2> QED
    BY <1>1, <1>2, <2>1, <2>2, <2>3 DEF Retrying
<1>7. Deadlines'
  <2>1. EndCalledFor' <=> EndCalledFor
    BY <1>1 DEF EndCalledFor
  <2>2. main \in {"asleep", "joining"}
    BY <1>1 DEF MainReady, ThreadsTypeOK
  <2>3. since <= since' /\ since' <= now'
    BY <1>1, <1>2
  <2>4. CASE main = "asleep"
    <3>1. now + 1 <= wake["main"] /\ wake["main"] <= since + 1
      BY <1>1, <1>2, <2>4 DEF MainReady, Awake, Deadlines
    <3> QED
      BY <1>1, <1>2, <2>1, <2>3, <2>4, <3>1 DEF Deadlines
  <2>5. CASE main = "joining"
    <3> DEFINE t == task_threads[turn]
    <3>1. /\ turn \in {1, 2} /\ t \in TaskNames
          /\ tpc[t] # "ended"
      <4>1. turn <= Len(task_threads)
        BY <2>5 DEF Roster
      <4>2. turn = 1 \/ turn = 2
        <5>1. turn \in 1 .. 3 /\ Len(task_threads) \in 0 .. 2
          BY RosterFacts
        <5> QED
          BY <4>1, <5>1
      <4>4. t \in TaskNames
        BY <4>1, <4>2 DEF ThreadsTypeOK
      <4>3. tpc[t] # "ended"
        BY <1>1, <2>5 DEF MainReady
      <4> QED
        BY <4>2, <4>3, <4>4
    <3>2. tpc[t] # "none"
      BY <2>5, <3>1 DEF Roster, ThreadsTypeOK
    <3>3. now + 1 <= wake[t] /\ wake[t] <= Due(turn + 1)
      BY <1>1, <1>2, <2>5, <3>1, <3>2 DEF Deadlines
    <3>4. /\ Due(turn + 1) \in Nat /\ Due(turn + 1)' \in Nat
          /\ Due(turn + 1) <= Due(turn + 1)'
      <4>1. turn' = turn /\ since' \in Nat /\ Wait \in Nat /\ since <= since'
        BY <1>1, <1>2, <2>3
      <4> HIDE DEF Wait
      <4>2. turn + 1 = 2 \/ turn + 1 = 3
        BY <3>1
      <4>3. Due(turn + 1) = since + 1 + (IF turn + 1 = 2 THEN Wait ELSE Wait + Wait)
        BY <4>2 DEF Due
      <4>4. Due(turn + 1)' = since' + 1 + (IF turn + 1 = 2 THEN Wait ELSE Wait + Wait)
        BY <4>1, <4>2 DEF Due
      <4> QED
        BY <1>2, <4>1, <4>3, <4>4
    <3>6. now' <= Due(turn + 1)' /\ wake[t] <= Due(turn + 1)'
      BY <1>1, <1>2, <3>1, <3>3, <3>4
    <3> QED
      BY <1>1, <2>1, <2>3, <2>5, <3>6 DEF Deadlines
  <2> QED
    BY <2>2, <2>4, <2>5
<1> QED
  BY <1>3, <1>4, <1>5, <1>6, <1>7

-----------------------------------------------------------------------------
(* Theorems *)

\* The invariant holds initially ..
LEMMA ThreadsInit == TasksInit => ThreadsInv
<1> SUFFICES ASSUME TasksInit PROVE ThreadsInv
  OBVIOUS
<1> USE ConstantTypes, TaskFacts DEF TasksInit
<1>1. ThreadsTypeOK
  <2>1. /\ now \in Nat /\ since \in Nat /\ stop_signal \in BOOLEAN /\ all_ok \in BOOLEAN
        /\ main = "starting" /\ turn = 1 /\ task_threads = <<>>
    OBVIOUS
  <2>0. turn \in 1 .. Len(Tasks) + 1
    BY <2>1, TaskFacts
  <2>2. /\ tpc \in [TaskNames -> {"none", "loop", "tick", "request", "nap", "ended"}]
        /\ wake \in [TaskNames \cup {"main"} -> Nat]
        /\ stop \in [TaskNames -> BOOLEAN]
        /\ next_run_time \in [TaskNames -> Nat]
        /\ began \in [TaskNames -> Nat]
    OBVIOUS
  <2>3. interval \in [TaskNames -> Nat \ {0}]
    OBVIOUS
  <2>4. left \in 0 .. MaxEvents /\ attempt \in 0 .. MaxRetries /\ naps \in 0 .. RetryGap
    OBVIOUS
  <2>5. limit \in Nat /\ ran \in [TaskNames -> SUBSET [began : Nat, ended : Nat]]
    OBVIOUS
  <2> QED
    BY <2>0, <2>1, <2>2, <2>3, <2>4, <2>5 DEF ThreadsTypeOK
<1>2. Roster /\ Counting /\ Retrying
  BY DEF Roster, Counting, Retrying
<1>3. Waits /\ Deadlines
  BY DEF Waits, Deadlines
<1> QED
  BY <1>1, <1>2, <1>3 DEF ThreadsInv

\* .. and every step keeps it.
LEMMA ThreadsKeepInv ==
  ASSUME ThreadsInv, [TasksNext]_vars
  PROVE  ThreadsInv'
<1>1. ASSUME NEW t \in TaskNames, ThreadStep(t)
      PROVE  ThreadsInv'
  <2>1. ThreadsTypeOK' /\ Counting' /\ Waits' /\ Retrying'
    BY <1>1, LoopKeepsInv, SendKeepsInv, HeartbeatKeepsInv DEF ThreadStep
  <2>2. Roster' /\ Deadlines'
    BY <1>1, ThreadKeepsMain
  <2> QED
    BY <2>1, <2>2 DEF ThreadsInv
<1>2. CASE SendStep \/ HeartbeatStep \/ \E t \in TaskNames : LoopStep(t)
  BY <1>1, <1>2, TaskFacts DEF ThreadStep
<1>3. CASE MainStep \/ SigTerm
  BY <1>3, StartKeepsInv, MainKeepsInv DEF MainStep
<1>4. CASE Second
  BY <1>4, SecondKeepsInv
<1>5. CASE UNCHANGED vars
  <2> USE <1>5 DEF vars, mainVars, threadVars, taskVars, historyVars, ThreadsInv
  <2>1. ThreadsTypeOK'
    BY DEF ThreadsTypeOK
  <2>2. Roster' /\ Counting' /\ Retrying'
    BY DEF Roster, Counting, Retrying
  <2>3. Waits' /\ Deadlines'
    BY DEF Waits, Awake, Deadlines, Due, EndCalledFor, Idle
  <2> QED
    BY <2>1, <2>2, <2>3
<1> QED
  BY <1>2, <1>3, <1>4, <1>5 DEF TasksNext, Finished

\* Every variable of the threads keeps its type; in particular no heartbeat
\* makes more attempts than it may.
THEOREM ThreadTypesCorrect == TasksSpec => []ThreadsTypeOK
<1>1. ThreadsInv => ThreadsTypeOK
  BY DEF ThreadsInv
<1> QED
  BY <1>1, ThreadsInit, ThreadsKeepInv, PTL DEF TasksSpec

\* For any timeout of requests and any intervals, the agent has ended a second
\* and two waits after its end was called for.
THEOREM EndsInTime == TasksSpec => []StopsInTime
<1>1. ASSUME ThreadsInv, EndCalledFor, main # "exited"
      PROVE  now <= since + 1 + 2 * Wait
  <2> USE <1>1, ConstantTypes DEF ThreadsInv
  <2>1. now \in Nat /\ since \in Nat /\ turn \in 1 .. 3
    BY RosterFacts DEF ThreadsTypeOK
  <2>2. CASE main \in {"starting", "idle", "asleep"}
    <3>1. wake["main"] \in Nat
      BY DEF ThreadsTypeOK
    <3> QED
      BY <2>1, <2>2, <3>1 DEF Deadlines
  <2>3. CASE main = "stopping"
    BY <2>1, <2>3 DEF Deadlines, Due
  <2>4. CASE main = "joining"
    BY <2>1, <2>4 DEF Deadlines, Due
  <2> QED
    BY <2>2, <2>3, <2>4 DEF ThreadsTypeOK
<1>2. ThreadsInv => StopsInTime
  BY <1>1 DEF StopsInTime, Wait
<1> QED
  BY <1>2, ThreadsInit, ThreadsKeepInv, PTL DEF TasksSpec

\* The process does not end while a thread is in a tick.
THEOREM EndsOrderly == TasksSpec => []OrderlyExit
<1>1. ThreadsInv => OrderlyExit
  BY TaskFacts, RosterFacts DEF ThreadsInv, OrderlyExit, Roster
<1> QED
  BY <1>1, ThreadsInit, ThreadsKeepInv, PTL DEF TasksSpec

\* What is stopped, or has ended, has a cause.
Caused ==
  \/ stop_signal \/ fatal
  \/ /\ all_ok /\ main \notin {"stopping", "joining", "exited"}
     /\ \A t \in TaskNames : tpc[t] # "ended" /\ ~stop[t]

\* Every step keeps it so.
LEMMA CauseStep ==
  ASSUME ThreadsTypeOK, Caused, [TasksNext]_vars
  PROVE  Caused'
<1>1. CASE stop_signal \/ fatal
  <2>1. stop_signal => stop_signal'
    BY DEF TasksNext, MainStep, LoopStep, SendStep, HeartbeatStep, StartThread, MainSleep, MainCheck, MainStop,
           StopThread, JoinThread, MainExit, SigTerm, LeaveLoop, Rest, BeginTick, Die, SendOne, Sent, EndFlush,
           Attempt, BeatStopped, BeatDone, BeatFailed, Nap, Second, Finished, Request, EndTick, mainVars, vars
  <2>2. fatal => fatal'
    <3> USE DEF threadVars, historyVars
    <3>1. CASE MainStep \/ SigTerm \/ Second \/ UNCHANGED vars
      BY <3>1 DEF MainStep, StartThread, MainSleep, MainCheck, MainStop, StopThread, JoinThread, MainExit,
             SigTerm, Second, vars
    <3>2. ASSUME NEW t \in TaskNames, LoopStep(t)
          PROVE  fatal => fatal'
      BY <3>2 DEF LoopStep, LeaveLoop, Rest, BeginTick, Die
    <3>3. CASE SendStep \/ HeartbeatStep
      BY <3>3 DEF SendStep, HeartbeatStep, SendOne, Sent, EndFlush, Attempt, BeatStopped, BeatDone, BeatFailed,
             Nap, Request, EndTick
    <3> QED
      BY <3>1, <3>2, <3>3 DEF TasksNext, Finished
  <2> QED
    BY <1>1, <2>1, <2>2 DEF Caused
<1>2. CASE ~(stop_signal \/ fatal)
  <2> USE <1>2 DEF Caused, mainVars, threadVars, historyVars
  <2>1. ASSUME NEW t \in TaskNames, ThreadStep(t)
        PROVE  Caused'
    <3>1. UNCHANGED <<mainVars, stop>> /\ \A u \in TaskNames \ {t} : tpc'[u] = tpc[u]
      BY <2>1, ThreadFrame
    <3>2. tpc'[t] # "ended" \/ fatal'
      <4> USE DEF ThreadsTypeOK, Goto
      <4>1. CASE LoopStep(t)
        BY <4>1 DEF LoopStep, LeaveLoop, Rest, BeginTick, Die
      <4>2. CASE t = Send /\ SendStep
        BY <4>2 DEF SendStep, SendOne, Sent, EndFlush, Request, EndTick
      <4>3. CASE t = Heartbeat /\ HeartbeatStep
        BY <4>3 DEF HeartbeatStep, Attempt, BeatStopped, BeatDone, BeatFailed, Nap, Request, EndTick
      <4> QED
        BY <2>1, <4>1, <4>2, <4>3 DEF ThreadStep
    <3> QED
      BY <3>1, <3>2
  <2>2. CASE StartThread
    BY <2>2 DEF StartThread, Goto, ThreadsTypeOK
  <2>3. CASE MainSleep \/ MainCheck \/ MainStop \/ StopThread \/ JoinThread \/ MainExit
    BY <2>3 DEF MainSleep, MainCheck, MainStop, StopThread, JoinThread, MainExit, Idle
  <2>4. CASE SigTerm \/ Second \/ UNCHANGED vars
    BY <2>4 DEF SigTerm, Second, vars
  <2> QED
    BY <2>1, <2>2, <2>3, <2>4, TaskFacts
    DEF TasksNext, MainStep, SendStep, HeartbeatStep, ThreadStep, Finished
<1> QED
  BY <1>1, <1>2

\* The agent, and each of its threads, ends for a cause only: SIGTERM, a start
\* that failed or an exception out of a tick().
THEOREM EndsHaveCause == TasksSpec => []EndsForCause
<1>1. TasksInit => Caused
  BY DEF TasksInit, Caused
<1>2. ThreadsInv /\ Caused /\ [TasksNext]_vars => Caused'
  BY CauseStep DEF ThreadsInv
<1>3. Caused => EndsForCause
  BY DEF Caused, EndsForCause
<1> QED
  BY <1>1, <1>2, <1>3, ThreadsInit, ThreadsKeepInv, PTL DEF TasksSpec

\* The attempts of a heartbeat end half an interval, a gap and a request after
\* its begin, for any intervals the server may set.
THEOREM HeartbeatEnds == TasksSpec => []RetriesEndInTime
<1>1. ThreadsInv => RetriesEndInTime
  <2>1. ThreadsTypeOK => now \in Nat /\ limit \in Nat /\ naps \in Nat
    BY ConstantTypes DEF ThreadsTypeOK
  <2> QED
    BY <2>1, ConstantTypes DEF ThreadsInv, Retrying, RetriesEndInTime
<1> QED
  BY <1>1, ThreadsInit, ThreadsKeepInv, PTL DEF TasksSpec

-----------------------------------------------------------------------------
(* Ticks are on schedule *)

\* A tick begins when it is due and not later: a thread that waits for the
\* next one does not sleep beyond it.  When that is follows from the last tick
\* that ended and from the interval as it is.
DueAt(t, tick) ==
  IF is_absolute(t) THEN Later(tick.began + interval[t], tick.ended) ELSE tick.ended + interval[t]

Schedule(t) ==
  /\ tpc[t] = "none" => ran[t] = {} /\ wake[t] <= now
  /\ tpc[t] = "loop" =>
       /\ now <= next_run_time[t] /\ wake[t] <= next_run_time[t]
       /\ \A tick \in ran[t] : next_run_time[t] = DueAt(t, tick)
  /\ tpc[t] \in {"tick", "request", "nap"} => began[t] = next_run_time[t]

OnTime == \A t \in TaskNames : Schedule(t)

\* The thread of one task does nothing to the schedule of the other.
LEMMA OthersOnTime ==
  ASSUME ThreadsTypeOK, NEW t \in TaskNames, ThreadStep(t), NEW u \in TaskNames \ {t}, Schedule(u)
  PROVE  Schedule(u)'
<1>1. UNCHANGED now /\ tpc'[u] = tpc[u] /\ wake'[u] = wake[u]
  BY ThreadFrame
<1>2. /\ next_run_time'[u] = next_run_time[u] /\ interval'[u] = interval[u]
      /\ began'[u] = began[u] /\ ran'[u] = ran[u]
  <2> USE TaskFacts DEF ThreadsTypeOK, historyVars
  <2>1. CASE LoopStep(t)
    BY <2>1 DEF LoopStep, LeaveLoop, Rest, BeginTick, Die
  <2>2. CASE t = Send /\ SendStep
    BY <2>2 DEF SendStep, SendOne, Sent, EndFlush, Request, EndTick
  <2>3. CASE t = Heartbeat /\ (Attempt \/ BeatStopped \/ BeatDone)
    BY <2>3 DEF Attempt, BeatStopped, BeatDone, Request, EndTick
  <2>4. CASE t = Heartbeat /\ (BeatFailed \/ Nap)
    BY <2>4 DEF BeatFailed, Nap, EndTick
  <2> QED
    BY <2>1, <2>2, <2>3, <2>4 DEF ThreadStep, HeartbeatStep
<1> QED
  BY <1>1, <1>2 DEF Schedule, DueAt

\* What a tick that ends sets is due an interval later, or at once.
LEMMA EndIsOnTime ==
  ASSUME ThreadsTypeOK, NEW t \in TaskNames, Schedule(t), tpc[t] \in {"tick", "request"}, Awake(t),
         EndTick(t), interval' \in [TaskNames -> Nat \ {0}]
  PROVE  Schedule(t)'
<1> DEFINE secs == interval'[t]
<1> DEFINE due == IF is_absolute(t) THEN Later(next_run_time[t] + secs, now) ELSE now + secs
<1>1. /\ now \in Nat /\ wake[t] \in Nat /\ wake[t] <= now /\ next_run_time[t] \in Nat
      /\ secs \in Nat /\ began[t] = next_run_time[t]
  BY DEF ThreadsTypeOK, Schedule, Awake
<1>2. /\ tpc'[t] = "loop" /\ next_run_time'[t] = due /\ UNCHANGED <<now, wake>>
      /\ ran'[t] = {[began |-> began[t], ended |-> now]}
  BY DEF EndTick, Goto, NextRun, ThreadsTypeOK
<1>3. now <= due
  BY <1>1 DEF Later
<1>4. ASSUME NEW tick \in ran'[t]
      PROVE  due = IF is_absolute(t) THEN Later(tick.began + secs, tick.ended) ELSE tick.ended + secs
  BY <1>1, <1>2, <1>4
<1>5. now' <= next_run_time'[t] /\ wake'[t] <= next_run_time'[t]
  <2>1. due \in Nat
    BY <1>1 DEF Later
  <2> HIDE DEF due
  <2> QED
    BY <1>1, <1>2, <1>3, <2>1
<1> QED
  BY <1>2, <1>4, <1>5 DEF Schedule, DueAt

\* A step of a thread keeps its own schedule.
LEMMA StaysOnTime ==
  ASSUME ThreadsTypeOK, NEW t \in TaskNames, ThreadStep(t), Schedule(t)
  PROVE  Schedule(t)'
<1> USE TaskFacts
<1>1. now \in Nat /\ wake[t] \in Nat /\ next_run_time[t] \in Nat
  BY DEF ThreadsTypeOK
<1>2. CASE LeaveLoop(t) \/ Die(t)
  <2>1. tpc'[t] = "ended"
    BY <1>2 DEF LeaveLoop, Die, Goto, ThreadsTypeOK
  <2> QED
    BY <2>1 DEF Schedule
<1>3. CASE Rest(t)
  <2>1. /\ tpc[t] = "loop" /\ UNCHANGED <<now, tpc, next_run_time, interval, ran, began>>
        /\ wake' = [wake EXCEPT ![t] = now + Sooner(next_run_time[t] - now, 1)]
    BY <1>3 DEF Rest, At, BlockFor, historyVars
  <2>2. now + Sooner(next_run_time[t] - now, 1) <= next_run_time[t]
    BY <1>1, <1>3 DEF Rest, Sooner
  <2> QED
    BY <2>1, <2>2 DEF Schedule, DueAt, ThreadsTypeOK
<1>4. CASE BeginTick(t)
  <2>1. /\ tpc'[t] = "tick" /\ began'[t] = now /\ UNCHANGED next_run_time
        /\ tpc[t] = "loop" /\ next_run_time[t] <= now
    BY <1>4 DEF BeginTick, At, Goto, ThreadsTypeOK
  <2>2. now <= next_run_time[t]
    BY <2>1 DEF Schedule
  <2> QED
    BY <1>1, <2>1, <2>2 DEF Schedule
<1>5. ASSUME tpc[t] \in {"tick", "request", "nap"}, tpc'[t] \in {"tick", "request", "nap"},
             UNCHANGED <<next_run_time, began>>
      PROVE  Schedule(t)'
  BY <1>5 DEF Schedule
<1>6. CASE t = Send /\ (SendOne \/ Sent)
  BY <1>5, <1>6 DEF SendOne, Sent, Request, At, Goto, historyVars, ThreadsTypeOK
<1>7. CASE t = Heartbeat /\ (Attempt \/ Nap)
  BY <1>5, <1>7 DEF Attempt, Nap, Request, At, Goto, historyVars, ThreadsTypeOK
<1>8. CASE t = Send /\ EndFlush
  BY <1>8, EndIsOnTime DEF EndFlush, At, ThreadsTypeOK
<1>9. CASE t = Heartbeat /\ (BeatStopped \/ BeatDone)
  <2>1. interval' \in [TaskNames -> Nat \ {0}]
    BY <1>9, TaskAssumption DEF BeatStopped, BeatDone, ThreadsTypeOK
  <2> QED
    BY <1>9, <2>1, EndIsOnTime DEF BeatStopped, BeatDone, At
<1>10. CASE t = Heartbeat /\ BeatFailed
  <2>1. CASE EndTick(t) /\ UNCHANGED interval
    BY <1>10, <2>1, EndIsOnTime DEF BeatFailed, At, ThreadsTypeOK
  <2>2. CASE Goto(t, "nap") /\ UNCHANGED <<next_run_time, historyVars>>
    BY <1>5, <1>10, <2>2 DEF BeatFailed, At, Goto, historyVars, ThreadsTypeOK
  <2> QED
    BY <1>10, <2>1, <2>2 DEF BeatFailed
<1> QED
  BY <1>2, <1>3, <1>4, <1>6, <1>7, <1>8, <1>9, <1>10 DEF ThreadStep, LoopStep, SendStep, HeartbeatStep

\* Every step keeps both schedules.
LEMMA ScheduleStep ==
  ASSUME ThreadsInv, OnTime, [TasksNext]_vars
  PROVE  OnTime'
<1> USE DEF ThreadsInv
<1>1. ASSUME NEW t \in TaskNames, ThreadStep(t)
      PROVE  OnTime'
  BY <1>1, OthersOnTime, StaysOnTime DEF OnTime
<1>2. CASE SendStep \/ HeartbeatStep \/ \E t \in TaskNames : LoopStep(t)
  BY <1>1, <1>2, TaskFacts DEF ThreadStep
<1>3. ASSUME UNCHANGED <<now, tpc, next_run_time, interval, began, ran>>,
             \A t \in TaskNames : wake'[t] = wake[t]
      PROVE  OnTime'
  BY <1>3 DEF OnTime, Schedule, DueAt
<1>4. CASE StartThread
  <2>1. Tasks[turn] \in TaskNames /\ tpc[Tasks[turn]] = "none"
    <3>1. turn = Len(task_threads) + 1 /\ turn \in {1, 2}
      BY <1>4 DEF StartThread, Roster
    <3>2. CASE turn = 1
      BY <3>1, <3>2, TaskFacts, RosterFacts DEF Roster
    <3>3. CASE turn = 2
      BY <3>1, <3>3, TaskFacts, RosterFacts DEF Roster
    <3> QED
      BY <3>1, <3>2, <3>3
  <2>0. PICK t \in TaskNames : t = Tasks[turn]
    BY <2>1
  <2>2. UNCHANGED <<now, wake, interval, began, ran>>
    BY <1>4 DEF StartThread, historyVars
  <2>3. CASE Goto(t, "loop") /\ next_run_time' = [next_run_time EXCEPT ![t] = now]
    <3>1. ASSUME NEW u \in TaskNames \ {t}
          PROVE  Schedule(u)'
      BY <2>2, <2>3, <3>1 DEF OnTime, Schedule, DueAt, Goto, ThreadsTypeOK
    <3>2. Schedule(t)'
      <4>1. /\ tpc'[t] = "loop" /\ next_run_time'[t] = now /\ ran'[t] = {} /\ wake'[t] <= now
            /\ now' = now /\ now \in Nat
        BY <2>0, <2>1, <2>2, <2>3 DEF OnTime, Schedule, Goto, ThreadsTypeOK
      <4> QED
        BY <2>2, <4>1 DEF Schedule
    <3> QED
      BY <3>1, <3>2 DEF OnTime
  <2>4. CASE UNCHANGED <<tpc, next_run_time>>
    BY <1>3, <2>2, <2>4
  <2> QED
    BY <1>4, <2>0, <2>3, <2>4 DEF StartThread
<1>5. CASE MainSleep
  BY <1>3, <1>5, TaskFacts DEF MainSleep, BlockFor, historyVars, ThreadsTypeOK
<1>6. CASE MainCheck \/ MainStop \/ StopThread \/ JoinThread \/ MainExit \/ SigTerm \/ UNCHANGED vars
  BY <1>3, <1>6 DEF MainCheck, MainStop, StopThread, JoinThread, MainExit, SigTerm, vars, threadVars, historyVars
<1>7. CASE Second
  <2>1. /\ now' = now + 1 /\ UNCHANGED <<tpc, wake, next_run_time, interval, began, ran>>
        /\ \A t \in TaskNames : tpc[t] \in {"none", "ended"} \/ wake[t] > now
    BY <1>7 DEF Second, ThreadReady, Awake, threadVars, historyVars, ThreadsTypeOK
  <2>2. ASSUME NEW t \in TaskNames
        PROVE  Schedule(t)'
    <3>1. now \in Nat /\ wake[t] \in Nat /\ next_run_time[t] \in Nat
      BY DEF ThreadsTypeOK
    <3> QED
      BY <2>1, <3>1 DEF OnTime, Schedule, DueAt
  <2> QED
    BY <2>2 DEF OnTime
<1> QED
  BY <1>2, <1>4, <1>5, <1>6, <1>7 DEF TasksNext, MainStep, Finished

\* A flush begins an interval after the last one ended, a heartbeat an interval
\* after the last one began or when that ended, for any intervals the server
\* may set and however long requests take.
THEOREM TicksOnSchedule == TasksSpec => OnSchedule
<1> DEFINE Punctual ==
      \A t \in TaskNames : BeginTick(t) =>
        \A tick \in ran[t] :
          now = IF is_absolute(t) THEN Later(tick.began + interval[t], tick.ended)
                                  ELSE tick.ended + interval[t]
<1>1. TasksInit => OnTime
  BY DEF TasksInit, OnTime, Schedule
<1>2. ThreadsInv /\ OnTime /\ [TasksNext]_vars => OnTime'
  BY ScheduleStep
<1>3. ThreadsInv /\ OnTime => Punctual
  <2> SUFFICES ASSUME ThreadsInv, OnTime, NEW t \in TaskNames, BeginTick(t), NEW tick \in ran[t]
               PROVE  now = DueAt(t, tick)
    BY DEF DueAt
  <2>1. now <= next_run_time[t] /\ next_run_time[t] <= now /\ next_run_time[t] = DueAt(t, tick)
    BY DEF BeginTick, At, OnTime, Schedule
  <2>2. now \in Nat /\ next_run_time[t] \in Nat
    BY DEF ThreadsInv, ThreadsTypeOK
  <2> QED
    BY <2>1, <2>2
<1> QED
  BY <1>1, <1>2, <1>3, ThreadsInit, ThreadsKeepInv, PTL DEF TasksSpec, OnSchedule
=============================================================================
