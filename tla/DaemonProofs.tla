---------------------------- MODULE DaemonProofs ----------------------------
(***************************************************************************)
(* What holds of the agents on a host for any number of processes, started *)
(* and killed in any order: one agent works at a time (OnlyOneAgent), the  *)
(* init script finds it (ScriptIsRight), and the counters' store is a      *)
(* register (HostStoresAtomically).                                        *)
(***************************************************************************)
EXTENDS Daemon, JsonStoreProofs

Places == {"off", "load", "loading", "save", "loaded"} \cup Starting \cup Working

\* The types of the daemon's variables.
DaemonTypes ==
  /\ pc \in [Procs -> Places]
  /\ pidfile \in Procs \cup {NoFile, Empty}
  /\ linked \in [Procs -> BOOLEAN]
  /\ seen \in [Procs -> Procs \cup {None}]
  /\ reused \subseteq Procs
  /\ idfile \in Ids \cup {NoFile, Empty}
  /\ agent_id \in [Procs -> Ids \cup {None}]
  /\ \A p \in Procs : pc[p] = "writeid" => agent_id[p] \in Ids
  /\ stopper \in {"idle", "signal", "wait"}
  /\ overlapped \in BOOLEAN /\ harmed \in BOOLEAN

\* One process at a time starts; it goes on only if none is at work.
OneStart == \A p, q \in Procs : pc[p] \in Starting /\ pc[q] \in Starting => p = q
Told == \A p \in Procs : pc[p] \in Working => pidfile = p
Seen ==
  \A p, q \in Procs : pc[p] \in Working /\ pc[q] \in Starting => pc[q] = "checked" /\ seen[q] = p
Opened == \A p \in Procs : pc[p] = "pid" => linked[p] /\ pidfile = Empty

Exclusion == ~overlapped => OneStart /\ Told /\ Seen /\ Opened

DaemonInv == DaemonTypes /\ Exclusion
-----------------------------------------------------------------------------
(* Types *)

LEMMA EndTypes ==
  ASSUME DaemonTypes, NEW p \in Procs, End(p)
  PROVE  /\ pc' \in [Procs -> Places] /\ seen' \in [Procs -> Procs \cup {None}]
         /\ agent_id' \in [Procs -> Ids \cup {None}] /\ overlapped' \in BOOLEAN
         /\ \A q \in Procs : pc'[q] = "writeid" => agent_id'[q] \in Ids
  BY DEF DaemonTypes, End, Goto, Places

\* Every step of a process keeps the types.
LEMMA ProcessTypes ==
  ASSUME DaemonTypes, NEW p \in Procs, ProcessStep(p)
  PROVE  DaemonTypes'
<1> USE DaemonAssumption DEF DaemonTypes, pidVars, idVars, Goto
<1>1. CASE Start(p) \/ LoadCounters(p) \/ StoreCounters(p)
  BY <1>1 DEF Start, LoadCounters, StoreCounters, Places
<1>2. CASE Command(p) \/ Refuse(p) \/ Exit(p)
  BY <1>2, EndTypes DEF Command, Refuse, Exit, RemovePidFile
<1>3. CASE RemoveStale(p)
  <2>1. CASE End(p)
    BY <1>3, <2>1, EndTypes DEF RemoveStale, RemovePidFile
  <2>2. CASE ~End(p)
    BY <1>3, <2>2 DEF RemoveStale, RemovePidFile, Places, Starting
  <2> QED
    BY <2>1, <2>2
<1>4. CASE ReadPid(p)
  BY <1>4 DEF ReadPid, Places, Starting
<1>5. CASE GoOn(p)
  BY <1>5 DEF GoOn, Places, Starting
<1>6. CASE OpenPidFile(p)
  BY <1>6 DEF OpenPidFile, Places, Starting
<1>7. CASE WritePid(p)
  BY <1>7 DEF WritePid, Places, Working
<1>8. CASE LookForId(p) \/ SetHandler(p) \/ EndRun(p)
  BY <1>8 DEF LookForId, SetHandler, EndRun, Places, Working
<1>9. CASE ReadId(p)
  BY <1>9 DEF ReadId, Places, Working
<1>10. CASE NewId(p) \/ WriteId(p)
  BY <1>10 DEF NewId, WriteId, Places, Working
<1> QED
  BY <1>1, <1>2, <1>3, <1>4, <1>5, <1>6, <1>7, <1>8, <1>9, <1>10 DEF ProcessStep

\* So does the death of a process, and the init script.
LEMMA OtherTypes ==
  ASSUME DaemonTypes,
         \/ \E p \in Procs : Kill(p) \/ ReusePid(p)
         \/ StopBegin \/ StopSignal \/ StopReturn
         \/ UNCHANGED hostVars
  PROVE  DaemonTypes'
<1> USE DEF DaemonTypes, pidVars, idVars, Goto
<1>1. ASSUME NEW p \in Procs, Die(p), stopper' \in {"idle", "signal", "wait"}
      PROVE  DaemonTypes'
  BY <1>1, EndTypes DEF Die
<1>2. CASE \E p \in Procs : Kill(p)
  BY <1>1, <1>2 DEF Kill
<1>3. CASE \E p \in Procs : ReusePid(p)
  BY <1>3 DEF ReusePid
<1>4. CASE StopBegin \/ StopReturn
  BY <1>4 DEF StopBegin, StopReturn
<1>5. CASE StopSignal
  <2>1. stopper' \in {"idle", "signal", "wait"}
    BY <1>5 DEF StopSignal
  <2>2. CASE is_running /\ Die(pidfile)
    BY <1>1, <2>1, <2>2 DEF is_running
  <2>3. CASE is_running /\ Goto(pidfile, "ending") /\ UNCHANGED <<pidVars, idVars>>
    BY <2>1, <2>3 DEF is_running, Places, Working
  <2>4. CASE UNCHANGED <<pc, pidVars, idVars>>
    BY <2>1, <2>4
  <2> QED
    BY <1>5, <2>2, <2>3, <2>4 DEF StopSignal
<1>6. CASE UNCHANGED hostVars
  BY <1>6 DEF hostVars, daemonVars
<1> QED
  BY <1>2, <1>3, <1>4, <1>5, <1>6

-----------------------------------------------------------------------------
(* Exclusion *)

\* A process goes on where it neither starts nor begins or stops to work.
LEMMA QuietStep ==
  ASSUME DaemonInv, NEW p \in Procs, NEW place,
         pc' = [pc EXCEPT ![p] = place],
         UNCHANGED <<pidfile, linked, seen, overlapped>>,
         place \notin Starting, place \in Working => pc[p] \in Working
  PROVE  Exclusion'
<1> USE DEF DaemonInv, DaemonTypes
<1>1. \A q \in Procs : /\ pc'[q] \in Starting => pc[q] \in Starting /\ pc'[q] = pc[q]
                       /\ pc'[q] \in Working => pc[q] \in Working
  OBVIOUS
<1>2. \A q \in Procs : pc'[q] = "pid" => pc[q] = "pid"
  BY <1>1 DEF Starting
<1> QED
  BY <1>1, <1>2 DEF Exclusion, OneStart, Told, Seen, Opened

\* A process ends and leaves the pid file as it is.
LEMMA EndStep ==
  ASSUME DaemonInv, NEW p \in Procs, End(p), UNCHANGED pidfile,
         linked' \in {linked, [linked EXCEPT ![p] = FALSE]}
  PROVE  Exclusion'
<1> USE DEF DaemonInv, DaemonTypes, End, Goto
<1>1. pc'[p] = "off" /\ "off" \notin Starting \cup Working
  BY DEF Starting, Working
<1>2. \A q \in Procs \ {p} : pc'[q] = pc[q] /\ seen'[q] = seen[q] /\ linked'[q] = linked[q]
  OBVIOUS
<1>3. CASE ~overlapped
  BY <1>1, <1>2, <1>3 DEF Exclusion, OneStart, Told, Seen, Opened
<1>4. CASE overlapped /\ ~overlapped'
  <2>1. \A q \in Procs : pc'[q] \notin Starting \cup Working /\ pc'[q] # "pid"
    BY <1>1, <1>2, <1>4 DEF Starting
  <2> QED
    BY <2>1 DEF Exclusion, OneStart, Told, Seen, Opened
<1> QED
  BY <1>3, <1>4 DEF Exclusion

\* An agent leaves: the pid file is its own.
LEMMA ExitStep ==
  ASSUME DaemonInv, NEW p \in Procs, Exit(p)
  PROVE  Exclusion'
<1> USE DEF DaemonInv, DaemonTypes, End, Goto
<1>0. End(p) /\ RemovePidFile /\ pc[p] \in Working
  BY DEF Exit, Working
<1>1. pc'[p] = "off" /\ "off" \notin Starting \cup Working
  BY <1>0 DEF Starting, Working
<1>2. \A q \in Procs \ {p} : pc'[q] = pc[q] /\ seen'[q] = seen[q]
  BY <1>0
<1>3. CASE ~overlapped
  <2>1. \A q \in Procs : pc[q] \in Working => q = p
    BY <1>0, <1>3 DEF Exclusion, Told
  <2>2. \A q \in Procs : pc'[q] \notin Working
    BY <1>1, <1>2, <2>1
  <2>3. \A q \in Procs : pc'[q] # "pid"
    BY <1>0, <1>1, <1>2, <1>3 DEF Exclusion, Seen, Starting
  <2>4. OneStart'
    BY <1>1, <1>2, <1>3 DEF Exclusion, OneStart
  <2> QED
    BY <2>2, <2>3, <2>4 DEF Exclusion, Told, Seen, Opened
<1>4. CASE overlapped /\ ~overlapped'
  <2>1. \A q \in Procs : pc'[q] \notin Starting \cup Working /\ pc'[q] # "pid"
    BY <1>0, <1>1, <1>2, <1>4 DEF Starting
  <2> QED
    BY <2>1 DEF Exclusion, OneStart, Told, Seen, Opened
<1> QED
  BY <1>3, <1>4 DEF Exclusion

\* A process checks the pid file: no other one may be about to write it.
LEMMA ReadPidStep ==
  ASSUME DaemonInv, NEW p \in Procs, ReadPid(p)
  PROVE  Exclusion'
<1> USE DEF DaemonInv, DaemonTypes, ReadPid, Goto
<1>1. SUFFICES ASSUME ~overlapped' PROVE (OneStart /\ Told /\ Seen /\ Opened)'
  BY DEF Exclusion
<1>2. ~overlapped /\ \A q \in Procs : pc[q] \notin Starting
  BY <1>1
<1>3. pc'[p] = "checked" /\ "checked" \notin Working /\ \A q \in Procs \ {p} : pc'[q] = pc[q]
  BY DEF Working
<1>4. OneStart' /\ Told' /\ Opened'
  BY <1>2, <1>3 DEF Exclusion, OneStart, Told, Opened, Starting
<1>5. \A q \in Procs : pc[q] \in Working => seen'[p] = q
  BY <1>2 DEF Exclusion, Told
<1>6. Seen'
  BY <1>2, <1>3, <1>5 DEF Seen
<1> QED
  BY <1>4, <1>6

\* The process that starts, once it is past the check: no agent is at work.
LEMMA AloneOnHost ==
  ASSUME DaemonInv, ~overlapped, NEW p \in Procs, pc[p] \in Starting,
         pc[p] # "checked" \/ ~Refused(p)
  PROVE  \A q \in Procs : pc[q] \notin Working /\ (q # p => pc[q] \notin Starting)
<1> USE DEF DaemonInv, DaemonTypes
<1>1. \A q \in Procs : q # p => pc[q] \notin Starting
  BY DEF Exclusion, OneStart
<1>2. \A q \in Procs : pc[q] \notin Working
  <2> SUFFICES ASSUME NEW q \in Procs, pc[q] \in Working PROVE FALSE
    OBVIOUS
  <2>1. pc[p] = "checked" /\ seen[p] = q
    BY DEF Exclusion, Seen
  <2>2. Refused(p)
    BY <2>1, DaemonAssumption DEF Refused, PidExists, IsAgent
  <2> QED
    BY <2>1, <2>2
<1> QED
  BY <1>1, <1>2

\* The rest of a start.
LEMMA StartStep ==
  ASSUME DaemonInv, NEW p \in Procs,
         GoOn(p) \/ RemoveStale(p) \/ OpenPidFile(p) \/ WritePid(p)
  PROVE  Exclusion'
<1> USE DEF DaemonInv, DaemonTypes, Goto, pidVars
<1>0. pc[p] \in Starting /\ (pc[p] # "checked" \/ ~Refused(p))
  BY DEF GoOn, RemoveStale, OpenPidFile, WritePid, Starting
<1>1. CASE overlapped
  <2>1. CASE RemoveStale(p) /\ End(p)
    <3>1. ~overlapped' => \A q \in Procs : pc'[q] \notin Starting \cup Working /\ pc'[q] # "pid"
      BY <1>1, <2>1 DEF End, Starting, Working
    <3> QED
      BY <3>1 DEF Exclusion, OneStart, Told, Seen, Opened
  <2>2. CASE ~(RemoveStale(p) /\ End(p))
    BY <1>1, <2>2 DEF Exclusion, GoOn, RemoveStale, OpenPidFile, WritePid
  <2> QED
    BY <2>1, <2>2
<1>2. CASE ~overlapped
  <2>1. \A q \in Procs : pc[q] \notin Working /\ (q # p => pc[q] \notin Starting)
    BY <1>0, <1>2, AloneOnHost
  <2>2. \A q \in Procs \ {p} : pc'[q] = pc[q]
    BY DEF GoOn, RemoveStale, OpenPidFile, WritePid, End
  <2>3. \A q \in Procs \ {p} : pc'[q] \notin Starting \cup Working /\ pc'[q] # "pid"
    BY <2>1, <2>2 DEF Starting
  <2>4. CASE GoOn(p) \/ RemoveStale(p)
    <3>1. pc'[p] \in {"daemon", "stale", "off"}
      BY <2>4 DEF GoOn, RemoveStale, End
    <3> QED
      BY <2>3, <3>1 DEF Exclusion, OneStart, Told, Seen, Opened, Working
  <2>5. CASE OpenPidFile(p)
    <3>1. pc'[p] = "pid" /\ linked'[p] /\ pidfile' = Empty
      BY <2>5 DEF OpenPidFile
    <3> QED
      BY <2>3, <3>1 DEF Exclusion, OneStart, Told, Seen, Opened, Working
  <2>6. CASE WritePid(p)
    <3>1. linked[p] /\ pidfile = Empty
      BY <1>2, <2>6 DEF WritePid, Exclusion, Opened
    <3>2. pc'[p] = "id" /\ pidfile' = p
      BY <2>6, <3>1 DEF WritePid
    <3> QED
      BY <2>3, <3>2 DEF Exclusion, OneStart, Told, Seen, Opened, Starting
  <2> QED
    BY <2>4, <2>5, <2>6
<1> QED
  BY <1>1, <1>2

\* Every step keeps the invariant.
LEMMA DaemonStepInv ==
  ASSUME DaemonInv, [DaemonNext]_hostVars
  PROVE  DaemonInv'
<1> USE DEF pidVars, idVars, Goto
<1>1. DaemonTypes'
  BY ProcessTypes, OtherTypes DEF DaemonInv, DaemonNext
<1> SUFFICES Exclusion'
  BY <1>1 DEF DaemonInv
<1>2. ASSUME NEW p \in Procs, ProcessStep(p)
      PROVE  Exclusion'
  <2>1. CASE Start(p)
    BY <2>1, QuietStep DEF Start, Starting, Working
  <2>2. CASE LoadCounters(p)
    BY <2>2, QuietStep DEF LoadCounters, Starting, Working
  <2>3. CASE StoreCounters(p)
    <3>1. CASE UNCHANGED pc
      BY <2>3, <3>1 DEF StoreCounters, DaemonInv, Exclusion, OneStart, Told, Seen, Opened
    <3>2. CASE pc[p] = "save" /\ pc' = [pc EXCEPT ![p] = "loaded"]
      BY <2>3, <3>2, QuietStep DEF StoreCounters, Starting, Working
    <3>3. CASE pc[p] \in {"run", "ending"} /\ pc' = [pc EXCEPT ![p] = pc[p]]
      BY <2>3, <3>3, QuietStep DEF StoreCounters, Starting, Working
    <3> QED
      BY <2>3, <3>1, <3>2, <3>3 DEF StoreCounters
  <2>4. CASE Command(p) \/ Refuse(p)
    BY <2>4, EndStep DEF Command, Refuse
  <2>5. CASE Exit(p)
    BY <2>5, ExitStep
  <2>6. CASE ReadPid(p)
    BY <2>6, ReadPidStep
  <2>7. CASE GoOn(p) \/ RemoveStale(p) \/ OpenPidFile(p) \/ WritePid(p)
    BY <2>7, StartStep
  <2>8. CASE LookForId(p) \/ SetHandler(p) \/ EndRun(p) \/ NewId(p) \/ WriteId(p)
    BY <2>8, QuietStep DEF LookForId, SetHandler, EndRun, NewId, WriteId, Starting, Working
  <2>9. CASE ReadId(p)
    BY <2>9, QuietStep DEF ReadId, Starting, Working
  <2> QED
    BY <1>2, <2>1, <2>2, <2>3, <2>4, <2>5, <2>6, <2>7, <2>8, <2>9 DEF ProcessStep
<1>3. ASSUME NEW p \in Procs, Die(p)
      PROVE  Exclusion'
  BY <1>3, EndStep DEF Die
<1>4. CASE UNCHANGED <<pc, pidfile, linked, seen, overlapped>>
  BY <1>4 DEF DaemonInv, Exclusion, OneStart, Told, Seen, Opened
<1>5. CASE StopSignal
  <2>1. CASE is_running /\ pc[pidfile] = "run" /\ Goto(pidfile, "ending") /\ UNCHANGED pidVars
    BY <2>1, QuietStep DEF is_running, Starting, Working
  <2> QED
    BY <1>3, <1>4, <1>5, <2>1 DEF StopSignal, is_running
<1> QED
  BY <1>2, <1>3, <1>4, <1>5
     DEF DaemonNext, Kill, ReusePid, StopBegin, StopReturn, hostVars, daemonVars

LEMMA DaemonInitInv == DaemonInit => DaemonInv
  BY DaemonAssumption
     DEF DaemonInit, DaemonInv, DaemonTypes, Places, Exclusion, OneStart, Told, Seen, Opened,
         Starting, Working

\* "Check for a pidfile to see if the daemon already runs": one agent works at
\* a time, with any number of starts, kills and reused pids, as long as no
\* start checks the file while another is about to write it.
THEOREM OnlyOneAgent == DaemonSpec => []OneAgent
<1>1. DaemonInv => OneAgent
  BY DEF DaemonInv, Exclusion, Told, OneAgent
<1> QED
  BY <1>1, DaemonInitInv, DaemonStepInv, PTL DEF DaemonSpec

\* The init script finds the agent that is at work.
THEOREM ScriptIsRight == DaemonSpec => []ScriptKnows
<1>1. DaemonInv => ScriptKnows
  BY DEF DaemonInv, Exclusion, Told, ScriptKnows, is_running, IsAgent
<1> QED
  BY <1>1, DaemonInitInv, DaemonStepInv, PTL DEF DaemonSpec

-----------------------------------------------------------------------------
(* The store of the counters *)

\* What the processes of a host do to the store is what it is made for.
LEMMA HostStepsStore ==
  ASSUME [DaemonNext]_hostVars
  PROVE  [StoreNext]_storeVars
<1> USE DEF StoreNext, StoreStep
<1>1. ASSUME NEW p \in Procs, ProcessStep(p)
      PROVE  [StoreNext]_storeVars
  <2>1. CASE LoadCounters(p)
    BY <2>1 DEF LoadCounters
  <2>2. CASE StoreCounters(p)
    BY <2>2 DEF StoreCounters
  <2>3. CASE ~LoadCounters(p) /\ ~StoreCounters(p)
    BY <1>1, <2>3
       DEF ProcessStep, Start, Command, ReadPid, Refuse, GoOn, RemoveStale, OpenPidFile,
           WritePid, LookForId, ReadId, NewId, WriteId, SetHandler, EndRun, Exit
  <2> QED
    BY <2>1, <2>2, <2>3
<1>2. ASSUME NEW p \in Procs, Die(p)
      PROVE  [StoreNext]_storeVars
  BY <1>2 DEF Die
<1>3. CASE StopSignal
  BY <1>2, <1>3 DEF StopSignal, is_running
<1> QED
  BY <1>1, <1>2, <1>3 DEF DaemonNext, Kill, ReusePid, StopBegin, StopReturn, hostVars

\* "persist JSON-based data atomically" (jsonstore.py:38) for the counters of
\* any number of agents and commands, killed at any point.
THEOREM HostStoresAtomically == DaemonSpec => StoresAtomically
<1>1. DaemonInit => StoreInit
  BY DEF DaemonInit
<1>2. [DaemonNext]_hostVars => [StoreNext]_storeVars
  BY HostStepsStore
<1>3. DaemonSpec => StoreSpec
  BY <1>1, <1>2, PTL DEF DaemonSpec, StoreSpec
<1> QED
  BY <1>3, StoreIsAtomic

\* Where a process is tells what it does with the counters: it reads them
\* while it loads them, it writes them when it has loaded them or is at work,
\* and it has no file of theirs open anywhere else.
Agree ==
  \A p \in Procs :
    /\ op[p] = "reading" <=> pc[p] = "loading"
    /\ op[p] \in {"opened", "closed"} => pc[p] \in {"save", "run", "ending"}

\* A process goes on, or ends, without using the counters.
LEMMA AgreeMoves ==
  ASSUME DaemonTypes, StoreTypeOK, Agree, NEW p \in Procs, NEW place,
         pc' = [pc EXCEPT ![p] = place], op' = op,
         \/ op[p] = "idle" /\ place # "loading"
         \/ pc[p] = "run" /\ place = "ending"
  PROVE  Agree'
  BY DEF DaemonTypes, StoreTypeOK, Agree

\* Every step keeps the two in accord.
LEMMA AgreeStep ==
  ASSUME DaemonTypes, StoreInv, Agree, [DaemonNext]_hostVars
  PROVE  Agree'
<1> USE DEF StoreInv
<1>1. ASSUME NEW p \in Procs, LoadCounters(p)
      PROVE  Agree'
  <2>1. CASE GetOpen(p) /\ Goto(p, "loading")
    BY <2>1 DEF GetOpen, Goto, DaemonTypes, StoreTypeOK, Agree
  <2>2. CASE GetRead(p) /\ Goto(p, "save")
    BY <2>2 DEF GetRead, Done, Goto, DaemonTypes, StoreTypeOK, Agree
  <2>3. CASE pc[p] = "load" /\ Goto(p, "save") /\ UNCHANGED storeVars
    BY <2>3, AgreeMoves DEF Goto, storeVars, StoreTypeOK, Agree
  <2> QED
    BY <1>1, <2>1, <2>2, <2>3 DEF LoadCounters
<1>2. ASSUME NEW p \in Procs, StoreCounters(p)
      PROVE  Agree'
  <2>1. pc[p] \in {"save", "run", "ending"}
    BY <1>2 DEF StoreCounters
  <2>2. CASE SetRename(p) /\ Goto(p, IF pc[p] = "save" THEN "loaded" ELSE pc[p])
    BY <2>1, <2>2 DEF SetRename, Done, Goto, DaemonTypes, StoreTypeOK, Agree
  <2>3. CASE (SetWrite(p) \/ \E v \in Values : SetOpen(p, v)) /\ UNCHANGED pc
    BY <2>1, <2>3 DEF SetWrite, SetOpen, DaemonTypes, StoreTypeOK, Agree
  <2> QED
    BY <1>2, <2>2, <2>3 DEF StoreCounters
<1>3. ASSUME NEW p \in Procs, ProcessStep(p), ~LoadCounters(p), ~StoreCounters(p)
      PROVE  Agree'
  <2>1. op' = op
    BY <1>3 DEF ProcessStep, Start, Command, ReadPid, Refuse, GoOn, RemoveStale, OpenPidFile, WritePid, LookForId,
           ReadId, NewId, WriteId, SetHandler, EndRun, Exit, storeVars
  <2>2. CASE EndRun(p)
    BY <2>1, <2>2, AgreeMoves DEF EndRun, Goto
  <2>3. CASE ~EndRun(p)
    <3>1. op[p] = "idle"
      BY <1>3, <2>3
         DEF ProcessStep, Start, Command, ReadPid, Refuse, Refused, GoOn, RemoveStale, OpenPidFile, WritePid, LookForId,
           ReadId, NewId, WriteId, SetHandler, Exit, Agree, StoreTypeOK
    <3>2. \E place : place # "loading" /\ pc' = [pc EXCEPT ![p] = place]
      BY <1>3, <2>3
         DEF ProcessStep, Start, Command, ReadPid, Refuse, GoOn, RemoveStale, OpenPidFile, WritePid, LookForId,
           ReadId, NewId, WriteId, SetHandler, Exit, End, Goto
    <3>3. PICK place : place # "loading" /\ pc' = [pc EXCEPT ![p] = place]
      BY <3>2
    <3> QED
      BY <2>1, <3>1, <3>3 DEF DaemonTypes, StoreTypeOK, Agree
  <2> QED
    BY <2>2, <2>3
<1>4. ASSUME NEW p \in Procs, Die(p)
      PROVE  Agree'
  <2>1. Done(p) /\ pc' = [pc EXCEPT ![p] = "off"]
    BY <1>4 DEF Die, Cut, End, Goto
  <2> QED
    BY <2>1 DEF Done, DaemonTypes, StoreTypeOK, Agree
<1>5. CASE StopSignal
  <2>1. CASE is_running /\ Die(pidfile)
    BY <1>4, <2>1 DEF is_running
  <2>2. CASE is_running /\ pc[pidfile] = "run" /\ Goto(pidfile, "ending") /\ UNCHANGED storeVars
    BY <2>2, AgreeMoves DEF is_running, Goto, storeVars
  <2>3. CASE UNCHANGED <<storeVars, pc>>
    BY <2>3 DEF storeVars, Agree
  <2> QED
    BY <1>5, <2>1, <2>2, <2>3 DEF StopSignal
<1>6. CASE UNCHANGED <<storeVars, pc>>
  BY <1>6 DEF storeVars, Agree
<1> QED
  BY <1>1, <1>2, <1>3, <1>4, <1>5, <1>6
  DEF DaemonNext, Kill, ReusePid, StopBegin, StopReturn, hostVars, daemonVars

\* Every variable keeps its type, no two names of the store share a file, and
\* a command, an agent's boot and the store agree on where each of them is: no
\* process is between two steps of a get or a set but where the code calls it.
THEOREM DaemonTypesCorrect == DaemonSpec => [](DaemonTypeOK /\ Agree)
<1>1. DaemonInit => StoreInv
  BY StoreInitInv DEF DaemonInit
<1>2. DaemonInit => Agree
  BY DEF DaemonInit, StoreInit, Agree
<1>3. StoreInv /\ [DaemonNext]_hostVars => StoreInv'
  BY StoreStepInv, HostStepsStore
<1>4. DaemonInv /\ StoreInv /\ Agree /\ [DaemonNext]_hostVars => Agree'
  BY AgreeStep DEF DaemonInv
<1>5. StoreInv /\ DaemonInv => DaemonTypeOK
  BY DEF StoreInv, DaemonInv, DaemonTypes, DaemonTypeOK, Places
<1> QED
  BY <1>1, <1>2, <1>3, <1>4, <1>5, DaemonInitInv, DaemonStepInv, PTL DEF DaemonSpec

-----------------------------------------------------------------------------
(* The agent id *)

\* An id file without an id is being written, if nobody was killed; and the
\* agent that makes an id has found no file.
IdInv ==
  /\ ~harmed /\ idfile = Empty => \E p \in Procs : pc[p] = "writeid"
  /\ \A p \in Procs : pc[p] = "readid" => idfile # NoFile
  /\ ~overlapped => \A p \in Procs : /\ pc[p] = "newid" => idfile = NoFile
                                     /\ pc[p] = "writeid" => idfile = Empty

\* Only an agent that makes its id changes the file; the others leave the
\* places where it is read or made only by going on or by ending.
LEMMA IdFrame ==
  ASSUME DaemonInv, [DaemonNext]_hostVars, ~\E p \in Procs : NewId(p) \/ WriteId(p)
  PROVE  /\ idfile' = idfile
         /\ \A p \in Procs : /\ pc'[p] = "readid" => pc[p] = "readid" \/ idfile # NoFile
                             /\ pc'[p] = "newid" => pc[p] = "newid" \/ idfile = NoFile
                             /\ pc'[p] = "writeid" => pc[p] = "writeid"
                             /\ pc[p] = "writeid" => pc'[p] = "writeid" \/ harmed'
         /\ harmed => harmed'
         /\ overlapped /\ ~overlapped' => \A p \in Procs : pc'[p] \notin Working
<1> USE DEF DaemonInv, DaemonTypes, pidVars, idVars, Goto
<1> DEFINE Frame ==
      /\ idfile' = idfile
      /\ \A p \in Procs : /\ pc'[p] = "readid" => pc[p] = "readid" \/ idfile # NoFile
                          /\ pc'[p] = "newid" => pc[p] = "newid" \/ idfile = NoFile
                          /\ pc'[p] = "writeid" => pc[p] = "writeid"
                          /\ pc[p] = "writeid" => pc'[p] = "writeid" \/ harmed'
      /\ harmed => harmed'
      /\ overlapped /\ ~overlapped' => \A p \in Procs : pc'[p] \notin Working
<1>1. ASSUME NEW p \in Procs, NEW place, Goto(p, place), UNCHANGED <<idfile, harmed>>,
             place \notin {"readid", "newid", "writeid"}, pc[p] # "writeid",
             overlapped => overlapped'
      PROVE  Frame
  BY <1>1
<1>2. ASSUME NEW p \in Procs, End(p), UNCHANGED idfile,
             harmed' = (harmed \/ pc[p] = "writeid")
      PROVE  Frame
  <2>1. pc' = [pc EXCEPT ![p] = "off"]
    BY <1>2 DEF End
  <2>2. overlapped /\ ~overlapped' => \A q \in Procs : pc'[q] \notin Working
    BY <1>2, <2>1 DEF End, Working
  <2> QED
    BY <1>2, <2>1, <2>2
<1>5. ASSUME UNCHANGED <<pc, idVars, overlapped>>
      PROVE  Frame
  BY <1>5
<1>3. ASSUME NEW p \in Procs, ProcessStep(p)
      PROVE  Frame
  <2>1. CASE Start(p) \/ LoadCounters(p)
    BY <1>1, <2>1 DEF Start, LoadCounters
  <2>2. CASE StoreCounters(p)
    <3>1. UNCHANGED <<idVars, overlapped>> /\ pc[p] \in {"save", "run", "ending"}
      BY <2>2 DEF StoreCounters
    <3>2. UNCHANGED pc \/ pc' = [pc EXCEPT ![p] = IF pc[p] = "save" THEN "loaded" ELSE pc[p]]
      BY <2>2 DEF StoreCounters
    <3>3. CASE UNCHANGED pc
      BY <1>5, <3>1, <3>3
    <3>4. CASE pc' = [pc EXCEPT ![p] = IF pc[p] = "save" THEN "loaded" ELSE pc[p]]
      <4>1. pc[p] # "writeid" /\ (IF pc[p] = "save" THEN "loaded" ELSE pc[p])
                                  \notin {"readid", "newid", "writeid"}
        BY <3>1
      <4> QED
        BY <1>1, <3>1, <3>4, <4>1
    <3> QED
      BY <3>2, <3>3, <3>4
  <2>3. CASE Command(p) \/ Refuse(p) \/ Exit(p)
    <3>1. End(p) /\ idfile' = idfile /\ harmed' = harmed /\ pc[p] # "writeid"
      BY <2>3 DEF Command, Refuse, Refused, Exit
    <3>2. harmed' = (harmed \/ pc[p] = "writeid")
      BY <3>1
    <3> QED
      BY <1>2, <3>1, <3>2
  <2>4. CASE ReadPid(p) \/ GoOn(p)
    BY <1>1, <2>4 DEF ReadPid, GoOn
  <2>5. CASE RemoveStale(p)
    BY <1>1, <1>2, <2>5 DEF RemoveStale
  <2>6. CASE OpenPidFile(p) \/ WritePid(p) \/ SetHandler(p) \/ EndRun(p)
    BY <1>1, <2>6 DEF OpenPidFile, WritePid, SetHandler, EndRun
  <2>7. CASE LookForId(p)
    BY <2>7 DEF LookForId
  <2>8. CASE ReadId(p)
    BY <1>1, <2>8 DEF ReadId
  <2> QED
    BY <1>3, <2>1, <2>2, <2>3, <2>4, <2>5, <2>6, <2>7, <2>8 DEF ProcessStep
<1>4. ASSUME NEW p \in Procs, Die(p)
      PROVE  Frame
  BY <1>2, <1>4 DEF Die
<1>6. CASE StopSignal
  <2>1. CASE is_running /\ pc[pidfile] = "run" /\ Goto(pidfile, "ending")
             /\ UNCHANGED <<pidVars, idVars>>
    BY <1>1, <2>1 DEF is_running
  <2> QED
    BY <1>4, <1>5, <1>6, <2>1 DEF StopSignal, is_running
<1>7. Frame
  BY <1>3, <1>4, <1>5, <1>6
     DEF DaemonNext, Kill, ReusePid, StopBegin, StopReturn, hostVars, daemonVars
<1> QED
  BY <1>7

\* Every step keeps what is known of the id.
LEMMA IdStepInv ==
  ASSUME DaemonInv, IdInv, [DaemonNext]_hostVars
  PROVE  IdInv'
<1>1. ASSUME NEW p \in Procs, NewId(p)
      PROVE  IdInv'
  <2>1. /\ pc[p] = "newid" /\ pc' = [pc EXCEPT ![p] = "writeid"] /\ idfile' = Empty
        /\ UNCHANGED <<harmed, overlapped>>
    BY <1>1 DEF NewId, pidVars, Goto
  <2>2. ~overlapped => \A q \in Procs \ {p} : pc'[q] # "newid"
    BY <2>1 DEF Exclusion, Told, Working, DaemonInv, DaemonTypes
  <2> QED
    BY <2>1, <2>2, DaemonAssumption DEF IdInv, DaemonInv, DaemonTypes
<1>2. ASSUME NEW p \in Procs, WriteId(p)
      PROVE  IdInv'
  <2>1. /\ pc[p] = "writeid" /\ pc' = [pc EXCEPT ![p] = "nohandler"] /\ idfile' = agent_id[p]
        /\ agent_id[p] \in Ids /\ UNCHANGED <<harmed, overlapped>>
    BY <1>2 DEF WriteId, pidVars, Goto, DaemonInv, DaemonTypes
  <2>2. ~overlapped => \A q \in Procs \ {p} : pc'[q] \notin {"newid", "writeid"}
    BY <2>1 DEF Exclusion, Told, Working, DaemonInv, DaemonTypes
  <2> QED
    BY <2>1, <2>2, DaemonAssumption DEF IdInv, DaemonInv, DaemonTypes
<1>3. CASE ~\E p \in Procs : NewId(p) \/ WriteId(p)
  <2> harmed' \in BOOLEAN /\ overlapped \in BOOLEAN /\ overlapped' \in BOOLEAN
    BY DaemonStepInv DEF DaemonInv, DaemonTypes
  <2>0. /\ idfile' = idfile
        /\ \A p \in Procs : /\ pc'[p] = "readid" => pc[p] = "readid" \/ idfile # NoFile
                            /\ pc'[p] = "newid" => pc[p] = "newid" \/ idfile = NoFile
                            /\ pc'[p] = "writeid" => pc[p] = "writeid"
                            /\ pc[p] = "writeid" => pc'[p] = "writeid" \/ harmed'
        /\ harmed => harmed'
        /\ overlapped /\ ~overlapped' => \A p \in Procs : pc'[p] \notin Working
    BY <1>3, IdFrame
  <2>1. overlapped /\ ~overlapped' => \A p \in Procs : pc'[p] \notin {"newid", "writeid"}
    BY <2>0 DEF Working
  <2>2. idfile' = idfile /\ (harmed => harmed')
    BY <2>0
  <2>3. ~harmed' /\ idfile' = Empty => \E p \in Procs : pc'[p] = "writeid"
    <3> SUFFICES ASSUME ~harmed', idfile' = Empty PROVE \E p \in Procs : pc'[p] = "writeid"
      OBVIOUS
    <3>1. PICK p \in Procs : pc[p] = "writeid"
      BY <2>2 DEF IdInv
    <3>2. pc'[p] = "writeid"
      BY <2>0, <3>1
    <3> QED
      BY <3>2
  <2>4. \A p \in Procs : pc'[p] = "readid" => idfile' # NoFile
    BY <2>0 DEF IdInv
  <2>5. ~overlapped' => \A p \in Procs : /\ pc'[p] = "newid" => idfile' = NoFile
                                         /\ pc'[p] = "writeid" => idfile' = Empty
    <3>1. CASE overlapped
      BY <2>1, <3>1
    <3>2. CASE ~overlapped
      BY <2>0, <3>2 DEF IdInv
    <3> QED
      BY <3>1, <3>2
  <2> QED
    BY <2>3, <2>4, <2>5 DEF IdInv
<1> QED
  BY <1>1, <1>2, <1>3

\* The agent id stays: no step takes it away or fails for the lack of it,
\* unless a process was killed while it wrote the id, or starts overlapped.
THEOREM IdIsKept == DaemonSpec => IdKept
<1>1. DaemonInit => IdInv
  BY DaemonAssumption DEF DaemonInit, IdInv
<1>2. ASSUME DaemonInv, IdInv, DaemonNext, ~overlapped, ~harmed
      PROVE  /\ idfile \in Ids => idfile' = idfile
             /\ \A p \in Procs : ReadId(p) => idfile \in Ids
  <2> USE <1>2, DaemonAssumption DEF DaemonInv
  <2>1. idfile \in Ids => ~\E p \in Procs : NewId(p) \/ WriteId(p)
    BY DEF IdInv, NewId, WriteId
  <2>2. idfile \in Ids => idfile' = idfile
    BY <2>1, IdFrame
  <2>3. ASSUME NEW p \in Procs, ReadId(p), idfile \notin Ids
        PROVE  FALSE
    <3>1. pc[p] = "readid" /\ idfile = Empty
      BY <2>3 DEF ReadId, IdInv, DaemonTypes
    <3>2. PICK q \in Procs : pc[q] = "writeid"
      BY <3>1 DEF IdInv
    <3> QED
      BY <3>1, <3>2 DEF Exclusion, Told, Working
  <2> QED
    BY <2>2, <2>3
<1>3. DaemonInv /\ IdInv /\ [DaemonNext]_hostVars =>
        [(idfile \in Ids /\ idfile' # idfile) \/ (\E p \in Procs : ReadId(p) /\ idfile \notin Ids)
           => overlapped \/ harmed]_hostVars
  BY <1>2
<1>4. DaemonInv /\ IdInv /\ [DaemonNext]_hostVars => IdInv'
  BY IdStepInv
<1> QED
  BY <1>1, <1>3, <1>4, DaemonInitInv, DaemonStepInv, PTL DEF DaemonSpec, IdKept
=============================================================================
