------------------------------- MODULE Daemon -------------------------------
(***************************************************************************)
(* The life of pdagentd on a host, outside its threads (TaskThreads) and   *)
(* its queue (PDQueue): bin/pdagentd.py makes a PDQueue, which loads and   *)
(* writes back the counters, becomes a daemon if no other one runs         *)
(* (pdagent/thirdparty/daemon.py), reads or makes the agent id, works      *)
(* until it is told to end, and removes its pid file.  A pd-queue command  *)
(* makes a PDQueue, too.  The init script (build-linux/pdagent.init) stops *)
(* the agent.  Any process may be killed at any step.                      *)
(*                                                                         *)
(* A process is named by the pid that it has, as a daemon.  While it is    *)
(* off its pid may be given to some other program.                         *)
(***************************************************************************)
EXTENDS JsonStore

CONSTANTS
  Ids,         \* agent ids
  NoFile       \* a file that does not exist

ASSUME DaemonAssumption ==
  /\ {NoFile, Empty, None} \cap (Procs \cup Ids) = {}
  /\ NoFile # Empty

VARIABLES
  pc,          \* where a process is
  pidfile,     \* pdagentd.pid: NoFile, a pid, or Empty when there is no pid in it
  linked,      \* whether the pid file that a process has opened is still that file
  seen,        \* the pid that it read, or None
  reused,      \* pids of other programs
  idfile,      \* the agent id file: NoFile, an id, or Empty
  agent_id,
  stopper,     \* where the init script is in stop()
  overlapped,  \* history: two starts overlapped, and an agent has run ever since
  harmed       \* history: a process was killed while it wrote the agent id

pidVars == <<pidfile, linked, seen, reused, overlapped>>
idVars == <<idfile, agent_id, harmed>>
daemonVars == <<pc, pidVars, idVars, stopper>>
hostVars == <<storeVars, daemonVars>>

Starting == {"checked", "stale", "daemon", "pid"}   \* daemonize(), after its check
Working == {"id", "readid", "newid", "writeid", "nohandler", "run", "ending"} \* run()

\* ps finds an agent by its pid, and any other program (_pid_exists).
IsAgent(p) == pc[p] \in {"pid"} \cup Working
PidExists(p) == IsAgent(p) \/ p \in reused

Goto(p, place) == pc' = [pc EXCEPT ![p] = place]

\* The end of a process, in whatever way; what it had opened is closed.
End(p) ==
  /\ Goto(p, "off")
  /\ seen' = [seen EXCEPT ![p] = None]
  /\ agent_id' = [agent_id EXCEPT ![p] = None]
  /\ overlapped' = (overlapped /\ \E q \in Procs \ {p} : pc[q] \in Starting \cup Working)

RemovePidFile == pidfile' = NoFile /\ linked' = [q \in Procs |-> FALSE]

DaemonInit ==
  /\ StoreInit
  /\ pc = [p \in Procs |-> "off"]
  /\ pidfile = NoFile
  /\ linked = [p \in Procs |-> FALSE]
  /\ seen = [p \in Procs |-> None]
  /\ reused = {}
  /\ idfile = NoFile
  /\ agent_id = [p \in Procs |-> None]
  /\ stopper = "idle"
  /\ overlapped = FALSE /\ harmed = FALSE

-----------------------------------------------------------------------------
(* The PDQueue is made: _CounterInfo.__init__() *)

\* by pdagentd.py, run by hand or by the init script, or by pd-queue
Start(p) ==
  /\ pc[p] = "off" /\ p \notin reused
  /\ Goto(p, "load")
  /\ UNCHANGED <<storeVars, pidVars, idVars, stopper>>

LoadCounters(p) ==
  /\ \/ pc[p] = "load" /\ GetOpen(p) /\ Goto(p, "loading")
     \/ pc[p] = "load" /\ path = None /\ Goto(p, "save") /\ UNCHANGED storeVars
     \/ pc[p] = "loading" /\ GetRead(p) /\ Goto(p, "save")
  /\ UNCHANGED <<pidVars, idVars, stopper>>

\* store(): here, and at the end of a flush.  What is counted is PDQueue's.
StoreCounters(p) ==
  /\ pc[p] = "save" \/ (pc[p] \in {"run", "ending"} /\ agent_id[p] # None)
  /\ \/ \E v \in Values : SetOpen(p, v) /\ UNCHANGED pc
     \/ SetWrite(p) /\ UNCHANGED pc
     \/ SetRename(p) /\ Goto(p, IF pc[p] = "save" THEN "loaded" ELSE pc[p])
  /\ UNCHANGED <<pidVars, idVars, stopper>>

\* pd-queue does what it was called for.
Command(p) ==
  /\ pc[p] = "loaded"
  /\ End(p)
  /\ UNCHANGED <<storeVars, pidfile, linked, reused, idfile, harmed, stopper>>

-----------------------------------------------------------------------------
(* daemonize() *)

\* Check for a pidfile to see if the daemon already runs
ReadPid(p) ==
  /\ pc[p] = "loaded"
  /\ seen' = [seen EXCEPT ![p] = IF pidfile \in Procs THEN pidfile ELSE None]
  /\ Goto(p, "checked")
  /\ overlapped' = (overlapped \/ \E q \in Procs : pc[q] \in Starting)
  /\ UNCHANGED <<storeVars, pidfile, linked, reused, idVars, stopper>>

Refused(p) == pc[p] = "checked" /\ seen[p] # None /\ PidExists(seen[p])

\* (mutant) delpid() was registered before the check
RefuseAndRemove(p) ==
  /\ Refused(p)
  /\ End(p)
  /\ RemovePidFile
  /\ UNCHANGED <<storeVars, reused, idfile, harmed, stopper>>

\* raise SystemExit: "pidfile already exists and the process is running!"
Refuse(p) ==
  /\ Refused(p)
  /\ End(p)
  /\ UNCHANGED <<storeVars, pidfile, linked, reused, idfile, harmed, stopper>>

GoOn(p) ==
  /\ pc[p] = "checked" /\ ~Refused(p)
  /\ Goto(p, IF seen[p] = None THEN "daemon" ELSE "stale")
  /\ UNCHANGED <<storeVars, pidVars, idVars, stopper>>

\* os.remove(pidfile): of what is there by now; OSError if nothing is.
RemoveStale(p) ==
  /\ pc[p] = "stale"
  /\ IF pidfile = NoFile THEN End(p)
     ELSE Goto(p, "daemon") /\ UNCHANGED <<seen, agent_id, overlapped>>
  /\ RemovePidFile
  /\ UNCHANGED <<storeVars, reused, idfile, harmed, stopper>>

\* The daemon has forked off, and the call that started it may have returned.
OpenPidFile(p) ==
  /\ pc[p] = "daemon"
  /\ pidfile' = Empty
  /\ linked' = [linked EXCEPT ![p] = TRUE]
  /\ Goto(p, "pid")
  /\ UNCHANGED <<storeVars, seen, reused, overlapped, idVars, stopper>>

\* Two pids written over each other may be no pid.
WritePid(p) ==
  /\ pc[p] = "pid"
  /\ IF linked[p] THEN pidfile' \in IF pidfile = Empty THEN {p} ELSE {p, Empty}
     ELSE UNCHANGED pidfile
  /\ linked' = [linked EXCEPT ![p] = FALSE]
  /\ Goto(p, "id")
  /\ UNCHANGED <<storeVars, seen, reused, overlapped, idVars, stopper>>

-----------------------------------------------------------------------------
(* run() *)

\* (mutant) does not look for a file
ForgetId(p) ==
  /\ pc[p] = "id"
  /\ Goto(p, "newid")
  /\ UNCHANGED <<storeVars, pidVars, idVars, stopper>>

\* get_or_make_agent_id(): os.path.exists()
LookForId(p) ==
  /\ pc[p] = "id"
  /\ Goto(p, IF idfile = NoFile THEN "newid" ELSE "readid")
  /\ UNCHANGED <<storeVars, pidVars, idVars, stopper>>

\* An invalid value in the agent id file ends the agent, by sys.exit(1).
ReadId(p) ==
  /\ pc[p] = "readid"
  /\ IF idfile \in Ids
       THEN agent_id' = [agent_id EXCEPT ![p] = idfile] /\ Goto(p, "nohandler")
       ELSE UNCHANGED agent_id /\ Goto(p, "ending")
  /\ UNCHANGED <<storeVars, pidVars, idfile, harmed, stopper>>

NewId(p) ==
  /\ pc[p] = "newid"
  /\ \E id \in Ids : agent_id' = [agent_id EXCEPT ![p] = id]
  /\ idfile' = Empty
  /\ Goto(p, "writeid")
  /\ UNCHANGED <<storeVars, pidVars, harmed, stopper>>

WriteId(p) ==
  /\ pc[p] = "writeid"
  /\ idfile' = agent_id[p]
  /\ Goto(p, "nohandler")
  /\ UNCHANGED <<storeVars, pidVars, agent_id, harmed, stopper>>

\* Configure SIGTERM handler
SetHandler(p) ==
  /\ pc[p] = "nohandler"
  /\ Goto(p, "run")
  /\ UNCHANGED <<storeVars, pidVars, idVars, stopper>>

\* (mutant) the pid file is removed first
EndRunHidden(p) ==
  /\ pc[p] = "run"
  /\ Goto(p, "ending")
  /\ RemovePidFile
  /\ UNCHANGED <<storeVars, seen, reused, overlapped, idVars, stopper>>

\* SIGTERM came, or a thread has died: main stops the threads.
EndRun(p) ==
  /\ pc[p] = "run"
  /\ Goto(p, "ending")
  /\ UNCHANGED <<storeVars, pidVars, idVars, stopper>>

\* sys.exit(), and so delpid(), whatever is in the file
Exit(p) ==
  /\ pc[p] = "ending" /\ op[p] = "idle"
  /\ End(p)
  /\ RemovePidFile
  /\ UNCHANGED <<storeVars, reused, idfile, harmed, stopper>>

\* Any other end: kill -9, a crash, SIGTERM when there is no handler.
Die(p) ==
  /\ End(p)
  /\ Cut(p)
  /\ linked' = [linked EXCEPT ![p] = FALSE]
  /\ harmed' = (harmed \/ pc[p] = "writeid")
  /\ UNCHANGED <<pidfile, reused, idfile>>

Kill(p) == pc[p] # "off" /\ Die(p) /\ UNCHANGED stopper

\* The pid of a process that is off is that of another program, for a while.
ReusePid(p) ==
  /\ pc[p] = "off"
  /\ reused' = IF p \in reused THEN reused \ {p} ELSE reused \cup {p}
  /\ UNCHANGED <<storeVars, pc, pidfile, linked, seen, overlapped, idVars, stopper>>

-----------------------------------------------------------------------------
(* pdagent.init: stop() *)

is_running == pidfile \in Procs /\ IsAgent(pidfile)

StopBegin ==
  /\ stopper = "idle" /\ is_running
  /\ stopper' = "signal"
  /\ UNCHANGED <<storeVars, pc, pidVars, idVars>>

\* kill -TERM $(get_pid): an agent whose handler is not yet set dies.
StopSignal ==
  /\ stopper = "signal"
  /\ stopper' = IF pidfile \in Procs /\ PidExists(pidfile) THEN "wait" ELSE "idle"
  /\ \/ is_running /\ pc[pidfile] = "run" /\ Goto(pidfile, "ending")
        /\ UNCHANGED <<storeVars, pidVars, idVars>>
     \/ is_running /\ pc[pidfile] \notin {"run", "ending"} /\ Die(pidfile)
     \/ (is_running => pc[pidfile] = "ending")
        /\ UNCHANGED <<storeVars, pc, pidVars, idVars>>

\* wait up to 15sec for process to stop running: stop returns 0, or gives up
StopReturn ==
  /\ stopper = "wait"
  /\ stopper' = "idle"
  /\ UNCHANGED <<storeVars, pc, pidVars, idVars>>

-----------------------------------------------------------------------------
ProcessStep(p) ==
  \/ Start(p) \/ LoadCounters(p) \/ StoreCounters(p) \/ Command(p)
  \/ ReadPid(p) \/ Refuse(p) \/ GoOn(p) \/ RemoveStale(p) \/ OpenPidFile(p) \/ WritePid(p)
  \/ LookForId(p) \/ ReadId(p) \/ NewId(p) \/ WriteId(p)
  \/ SetHandler(p) \/ EndRun(p) \/ Exit(p)

DaemonNext ==
  \/ \E p \in Procs : ProcessStep(p) \/ Kill(p) \/ ReusePid(p)
  \/ StopBegin \/ StopSignal \/ StopReturn

DaemonSpec == DaemonInit /\ [][DaemonNext]_hostVars

-----------------------------------------------------------------------------
(* Properties *)

\* Every variable has its type.
DaemonTypeOK ==
  /\ StoreTypeOK
  /\ pc \in [Procs -> {"off", "load", "loading", "save", "loaded"} \cup Starting \cup Working]
  /\ pidfile \in Procs \cup {NoFile, Empty}
  /\ linked \in [Procs -> BOOLEAN]
  /\ seen \in [Procs -> Procs \cup {None}]
  /\ reused \subseteq Procs
  /\ idfile \in Ids \cup {NoFile, Empty}
  /\ agent_id \in [Procs -> Ids \cup {None}]
  /\ stopper \in {"idle", "signal", "wait"}
  /\ overlapped \in BOOLEAN /\ harmed \in BOOLEAN

\* "Check for a pidfile to see if the daemon already runs" (daemon.py:45): one
\* agent works at a time, however agents crash, leave their pid files behind
\* or see their pids reused, unless two starts were both between the check
\* and the writing of the file.
OneAgent ==
  ~overlapped => \A p, q \in Procs : pc[p] \in Working /\ pc[q] \in Working => p = q

\* The init script is right about the agent: while one is at work the pid file
\* is there and tells its pid, so that a status finds it and a stop that
\* returns 0 has ended it, unless starts overlapped.  (An agent that has not
\* written the file yet, though its start has returned, is not found.)
ScriptKnows ==
  ~overlapped /\ (\E p \in Procs : pc[p] \in Working) => is_running

\* The agent id, once there, stays, over restarts and crashes: it is lost, or
\* an agent ends for the lack of it, only if an agent was killed while it
\* wrote its id for the first time, or starts overlapped.
IdKept ==
  [][(idfile \in Ids /\ idfile' # idfile) \/ (\E p \in Procs : ReadId(p) /\ idfile \notin Ids)
       => overlapped \/ harmed]_hostVars
=============================================================================
