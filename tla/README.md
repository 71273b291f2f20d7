# pdagent: a TLA+ verification of the PagerDuty agent

pdagent accepts monitoring events on a host, keeps them in a directory queue
and sends them to the PagerDuty Events API. This directory holds TLA+
modules that model the parts of it that keep state, TLC configurations that
model-check them, and theorems about them that TLAPS has checked. Every
definition is translated from the source; `PROJECT.json` ("map") names the
lines behind each one. Line numbers below are those of `src/`.

## 1. Inventory

### Processes and shared state

| who | code | what it does to shared state |
|---|---|---|
| enqueuers: `pd-send`, run by hand or by a monitoring tool (one process per event, many at once) | `bin/pd-send.py`, `pdagent/pdqueue.py` `PDQEnqueuer` | create a file in `tmp`, link it into `pdq`, unlink it |
| the agent: `pdagentd`, main thread and two task threads | `bin/pdagentd.py`, `pdthread.py`, `sendevent.py`, `heartbeat.py` | flushes `pdq`, moves files to `suc` and `err`, writes the databases, deletes old files |
| management commands: `pd-queue status`, `pd-queue retry` | `bin/pd-queue.py` | load and store the counters; rename files from `err` to `pdq` |

They share the queue directory, the dequeue lock file, the two databases
`backoff` and `aggregates`, the pid file and the agent-id file. They exchange
no messages: everything happens through the file system. Inside the agent the
heartbeat thread reads the statistics of the queue object that the send thread
works on.

### Components

| component | state | operations | what makes it correct |
|---|---|---|---|
| **dequeue lock** `thirdparty/filelock.py` | lock file, open file, `is_locked` | `acquire` (open, `lockf`, poll until a timeout), `release` (unlink, close), `__del__` | one holder; no file left behind; `acquire` ends |
| **enqueuer** `pdqueue.py:80-157` | files in `tmp` and `pdq` | `enqueue`: open exclusively, write, link exclusively, unlink; retry with the next name | whole events only; a name of its own for each event; collisions and leftovers stop nobody |
| **queue processing** `pdqueue.py:160-542` | `pdq`, `suc`, `err` | `dequeue`, `flush` (`_process_queue`, `_process_event`), `resurrect`, `cleanup`, `get_stats` | no event lost, order per service key, no event sent twice, back-off honoured, other keys not blocked |
| **back-off** `pdqueue.py:582-673` | attempts before, attempts now, retry times; database `backoff` | load, `update`, `increment`, `is_threshold_breached`, `store` | back-off survives restarts; an event gets its retries, and no more |
| **counters** `pdqueue.py:677-737` | `aggregates` in memory and on disk | load, increment, `store` | say what happened, also after a crash, with several writers |
| **send task** `sendevent.py` | `last_cleanup_time` | `tick` (flush, then cleanup), `send_event` (answer to consume code) | each answer treated as documented |
| **JSON store** `jsonstore.py` | database file and `.bak` file | `get`, `set` (write `.bak`, rename) | a reader sees an old or a new value, whole |
| **task threads** `pdthread.py` | stop flag, next run time | `tick` schedule, `stop_async` | a stop ends the thread; one thread's end ends the agent |
| **agent process** `bin/pdagentd.py` | threads, agent id, pid file | start, `SIGTERM`, shutdown | one agent at a time; orderly stop |
| **heartbeat** `heartbeat.py` | `_heartbeat_frequency_sec`, statistics | `tick` with retries, interval change by the server | at most one heartbeat per interval; retries do not outlast it |
| **daemonization** `thirdparty/daemon.py`, init script | pid file | fork, check, write | one agent at a time |
| **management commands** `bin/pd-queue.py` | - | `retry`, `status` | retried events are queued again |
| **HTTP client** `http.py` | - | HTTPS POST with certificate check | pure I/O |
| **configuration** `config.py`, `confdirs.py`, `conf/` | - | read once at start | values in range |
| **packaging** `build-linux`, `scripts`, `integration_tests` | - | - | no program state |

### What is hard

* *Interleaving.* The queue is listed without the lock; `cleanup`, `retry`
  and `enqueue` never take it; files are moved under the feet of a pass that
  has listed them.
* *The lock* removes its file before it drops the file's lock, while waiters
  keep the old file open.
* *Crashes* between the answer of the API, the rename, and the two database
  writes; enqueuers killed in the middle, which leave files and taken names.
* *Ordering.* A service key that failed must hold back its later events, even
  if its back-off expires before the pass ends, and no other key's events.
* *Time.* Names are made of the time; back-off, cleanup and tick schedule
  compare times that were read at different moments.
* *Restarts* load a back-off state that is then brought up to date twice.
* *Reports* list `pdq`, `suc` and `err` one after the other while events move.
* *Processes.* A pid file that a killed agent left may name a pid that another
  program has by now; a start may meet an agent that is exiting; SIGTERM may
  come before its handler is set; the agent id is written without a temporary
  file.
* *Several writers* of one database, each writing back what it loaded.

The hazards, each at its line and with the properties that cover it, are in
`PROJECT.json` ("hazards").

## 2. Modules

```
QueueDir ---- Enqueue --+                    Delivery (abstract)
                        +-- PDQueue ........../
          SendEvent ----+     |  |
          Backoff  (as Bo) ---+  +---- MCPDQueue
          FileLock (as Lock) -+  +---- QueueStatus ------ MCQueueStatus
             |                   |                  \
             |                   |                   +--- ReportProofs
             |                   |                  /
             |                   +-- PDQueueTypes -- PDQueueProofs -- FlushProofs
             +-- FileLockProofs (as LockP) --+

Register (abstract) ....... JsonStore ---- Daemon ---- MCDaemon
                                |             |
                          JsonStoreProofs -- DaemonProofs

TaskThreads ---- TaskThreadsProofs
```

Dotted lines are refinements: `PDQueue` implements `Delivery`, `JsonStore` and
`Daemon` implement `Register`. The `...Proofs` modules and
`PDQueueTypes` hold theorems only, the `MC...` modules values for TLC.

### FileLock (`thirdparty/filelock.py`)

The lock at the level of inodes: `path` is the inode the lock file's name
leads to, `fd[p]` the one process `p` has open. `Open`, `Acquire`, `Busy` and
`Timeout` are the steps of the loop of `acquire()`; `Unlink` and `Close` are
`release()`, in the code's order; `UnlinkMissing` is `release()` when the file
is gone (the exception ends it with the lock still held) and `Finalize` the
second try by `__del__()`. `LockCrash` kills a process. The elapsed time that
`acquire()` compares with `timeout` is the number of failed polls.

### QueueDir, Enqueue (`pdqueue.py` 62-157, `bin/pd-send.py`)

An event is one call of `enqueue()`. `dir[e]`, `name[e]` and `data[e]` follow
its file: in which subdirectory, under which name, with which content. Two
events may get the same name; `Rename` therefore does what `os.rename()` does,
which is to replace silently the file that has the name at the destination
(`dir = "clobbered"`). A name is a pair (time, key) in the order of
`sorted(os.listdir())`; the key `NoKey` stands for names that
`_get_event_metadata` cannot parse. `Enqueue` has one action per system call:
`StartEnqueue` (the time is read), `OpenTmp`, `WriteTmp`, `LinkPdq`,
`UnlinkTmp`. The last two go by the path (`tmp_fname[e]`), as the code does, and
not by the file that was opened (`tmp[e]`): they link and unlink whatever has the
path by then, and raise if nothing has. A collision (`TryNext`) adds one to the time; `MaxTries` is the
code's 100. `KillSender` ends a process anywhere. `DropStray` puts a badly
named file into `pdq`.

### Backoff, SendEvent (`pdqueue.py` 582-673, `sendevent.py` 86-163)

Operators. `Backoff` has `_BackoffInfo` as a record of three dictionaries with
its methods as functions on it; `SendEvent` maps the answers of the Events API
(or their absence) to the members of `ConsumeEvent`.

### PDQueue (`pdqueue.py` 160-373, `sendevent.py` 65-84, `pd-queue retry`)

Composes the above. An agent's thread goes through

```
off - load - boot - idle - lock - locked - loop - send - answered - store -
      storeCounters - release - cleanup - sweep - idle ...
```

| actions | code |
|---|---|
| `Start`, `LoadCounters`, `Boot` | `PDQueue.__init__`: one database loaded, then the other; counters written back |
| `Stop`, `Exit`, `Crash` | SIGTERM and `stop_async`; the thread ends between two ticks; kill |
| `Tick`, `AcquireLock`, `ListQueue`, `ReleaseLock` | `_process_queue` up to the loop, and its `finally` |
| `EndOfLoop`, `RejectName`, `SkipEvent`, `ReadEvent` | its loop |
| `SendEvent`, `MoveEvent`, `BackOff`, `StopAll` | `_process_event`, one disjunct per consume code, a breached threshold included |
| `StoreBackoff`, `StoreCounters` | the two database writes, each of which may fail and be ignored |
| `BeginCleanup`, `RemoveOld`, `NextPlace` | `cleanup()` over `err`, `tmp`, `suc` |
| `RetryStart`, `RetryStore`, `RetryList`, `RetryMove`, `RetryEnd` | `pd-queue retry`: `__init__`, then `resurrect()` |

Where the code lets an exception escape (`Raise`), the `finally` clause
releases the lock, nothing is stored, and `tick()` swallows it.

`accepted`, `errors`, `setbacks` and `notBefore` are history variables: what
the Events API acknowledged, and what it answered so far. Operators marked
"(mutant)" are wrong versions of the definition that follows them; no action
uses them. They show, for each property, a plausible bug that it finds.

### TaskThreads (`pdthread.py`, `heartbeat.py`, `bin/pdagentd.py` 167-327)

The same agent seen from its threads and the clock. `PDQueue` lets an agent
stop between two ticks only, and says nothing about when; this module shows that
the code keeps to that, and how long it takes. A thread is in its `loop`, in a
`tick`, in a `request`, in a `nap` between two heartbeat attempts, or `ended`;
`wake[t]` is the time until which it sleeps or waits.

| actions | code |
|---|---|
| `LeaveLoop`, `Rest`, `BeginTick`, `EndTick`, `Die` | `RepeatingTaskThread.run` |
| `SendOne`, `Sent`, `EndFlush` | `SendEventTask.tick`, with a number of events as its queue |
| `Attempt`, `BeatDone`, `BeatFailed`, `Nap`, `BeatStopped` | `HeartbeatTask.tick` and `_process_response` |
| `StartThread`, `MainSleep`, `MainCheck`, `MainStop`, `StopThread`, `JoinThread`, `MainExit`, `SigTerm` | `create_and_start_task_threads`, `run`, `stop_task_threads`, the signal handler |

Whoever can go on goes on before `Second` lets the clock go on: the times that
the properties state leave out what the scheduler adds. A request, from its
connection to its answer, takes at most `Timeout`; the code's timeout is one of
each socket operation. File system calls, the polls for the dequeue lock among
them, take no time.

### Delivery (what the queue promises)

Six statuses of an event and the steps between them: accepted, then sent (which
takes an acknowledgement), put aside, retried, expired; never from pending to
gone. `Status` in `PDQueue` is the refinement mapping: `pdq`, `err` and `suc` are
pending, aside and sent. `KeepsPromise` says that every step of every agent,
enqueuer, retry command and cleanup is one such step or none. An event that is
accepted under a name that was used before (section 4) makes all events of that
name `unclear`; for these nothing is promised.

### QueueStatus (`pd-queue status`, `pdqueue.py` 375-533)

Adds to `PDQueue` a process that makes its own queue object (which loads the
counters and writes them back), then lists `pdq`, `suc` and `err`, each in one
step, with everybody else's steps in between. `counted[place]` are the names it
counted there; `SnapshotStats` (count, oldest, newest) is a function of these.
`StatusReport` is what `bin/pd-queue.py` makes of it (see section 4).

### JsonStore, Register (`jsonstore.py`)

`path` and `bak` are the inodes that the two file names lead to, `fd[p]` the one a
process has open; so a process that has opened the `.bak` file goes on writing
to it after another one renamed it. `SetOpen`, `SetWrite`, `SetRename` are
`set()`; `GetOpen`, `GetRead` are `get()`; `Cut` is a kill. `Written` is the
content after two sets wrote to one file: a longer text leaves its end behind
the shorter one (`Torn`), which `get()` answers like a missing file. `Register`
says what a store promises: a set stores, at one instant, the very value it was
given, and nothing if it is cut off; a get answers with what was stored when it
began. A set during which another one was under way (`~alone`) promises nothing:
it may leave anything, and harm a get that is under way (`SetDisturbs`), until
the next set ends that was alone. The refinement mapping takes `value` from the
code's own state: what a set was given (`arg`), what the file holds that a get has open.

### Daemon (`bin/pdagentd.py`, `thirdparty/daemon.py`, `build-linux/pdagent.init`)

The processes of a host, each at its place in the script: `PDQueue.__init__` at
import (before it is known whether an agent runs already), the check of the pid
file, the removal of a stale one, the fork, the pid file written, the agent id read
or made, the signal handler, the threads, the exit with `delpid()`. A `pd-queue`
command is a process that ends once its queue object is made. Its counters are a
`JsonStore`. `ReusePid` gives the pid of a process that is off to another
program. `Kill` may come at every step, `StopSignal` is the init script's
`kill -TERM`, which kills an agent that has no handler yet. `overlapped` is a
history variable: a start was between its check and its `run()` while another one made
its check, and some agent or start has been there ever since.

| actions | code |
|---|---|
| `Start`, `LoadCounters`, `StoreCounters`, `Command` | `get_queue()`, `_CounterInfo` |
| `ReadPid`, `Refuse`, `GoOn`, `RemoveStale`, `OpenPidFile`, `WritePid` | `daemonize` |
| `LookForId`, `ReadId`, `NewId`, `WriteId` | `get_or_make_agent_id` |
| `SetHandler`, `EndRun`, `Exit` | `run`, `delpid` |
| `StopBegin`, `StopSignal`, `StopReturn` | `stop` of the init script |

### Abstractions

* One unit of time stands for both the microseconds of file names and the
  seconds of back-off and cleanup; time is read together with the step before
  it is used. Names can therefore collide as they do in the code, only more
  often.
* In `PDQueue` reading or writing a database is one step. That is what
  `StoresAtomically` allows unless two processes store at the same moment.
* `Daemon` leaves open what is stored; `PDQueue` says it.
* An event is its identity: its text is never looked at except for its size
  (`Oversize`).
* `OSError` and `IOError` are one class, as in Python 3.
* File modes and `umask`, logging, and warnings to the caller are left out.
* An agent that ends forgets its memory; the same `a` may start again.

## 3. Runs

Twelve runs. The three that find violations are in section 4.

| run | instance | shows |
|---|---|---|
| `lock` | 3 processes, 4 inodes, 2 polls, kills | `AcquireReturns`; without kills `NoFileLeftBehind` |
| `enqueue` | 3 enqueuers of one key, which try the same 3 names, 1 kill | `PublishedWhole`, `OnlyKillsFail`, `EnqueueEnds` |
| `delivery` | 1 agent, 2 events (1 queued, 1 oversize), 1 retry command, cleanup of everything older than the current time, 1 kill of an agent and 1 of an enqueuer | `NothingLost`, `PublishedWhole`; `KeepsPromise`: the queue implements `Delivery` |
| `order` | 1 agent, 4 queued events: keys 1, 1, 2 and a badly named file; success, error, throttling, certificate error; 1 stop and restart | `InOrder`, `NoResend`, `BackoffHonoured`, `CountersExact`, `NotGivenUpEarly` |
| `two_agents` | 2 agents with the lock as it is, 2 events, flush and dequeue passes, 1 kill, 1 failing database write | `NothingLost`, `CountersNeverOvercount`, `KeepsPromise` with both of them in a pass |
| `threads` | 3 threads for 9 seconds; requests of up to 2 s, gaps of 1 s, 3 attempts, heartbeat intervals of 7 s and 2 s; SIGTERM at any time, a death, a failed start | `StopsInTime`, `OrderlyExit`, `EndsForCause`, `RetriesEndInTime`, `OnSchedule` |
| `report` | 1 status command, 1 agent, 1 retry command; 3 queued events, of two keys and badly named; success, rejection, throttling; `cleanup` that deletes the oldest | `NobodyOverlooked`, `OneOutcome` |
| `host` | 2 processes (agents or commands), 4 inodes, 2 values, 2 ids; kills, stops and reused pids without limit | `OneAgent`, `ScriptKnows`, `IdKept`; `StoresAtomically`: the counters implement `Register` |
| `live` | 1 agent, 2 keys of which one is throttled for good; 1 stop | `Delivered`, `Stopped` |

**Bounds.** `Crashes`, `Stops`, `Faults` and `Kills` count the failures a
behaviour may have; `MaxTime` bounds the clock, `StartTime` is large enough to
subtract `CleanupAge`; `MaxTries` and `MaxPolls` are the code's 100 names and
its lock timeout made small; `RetryLimit` and `BackoffInterval` are 1.
Three processes are what the lock needs (a holder, a waiter on its file, and
a third that makes a new file), three enqueuers of one key collide twice in
`tmp` or `pdq`; two events of one key and one of another are what order and
fairness between keys need. A back-off of one unit expires within a pass, within a
stop, and not at all, depending on the clock. In `threads` a heartbeat with all its attempts may outlast its interval,
or the shorter one the server asks for, and 9 s are enough to see the tick
after it; `StopsInTime` and `RetriesEndInTime` are as tight as
they can be (TLC refutes both with `<` for `<=`). `host` has no bound but its sets:
two processes are an agent at work and one that starts or is told to
store, and their starts may overlap; four inodes are a file, a `.bak` file and one that each
process still has open; the proofs are for any number. Its processes, inodes, values and ids are interchangeable, and it
checks no liveness, so symmetry is sound. Elsewhere events and keys are ordered
by number and symmetry is not used.

**Fairness.** `FairSpec` says that what was started goes on: an enqueuing
process that is running (but it may be killed), the thread of an agent that is
up (an HTTP request ends by an answer or by the socket timeout of
`pdagentd.py:282`), and the clock. Nobody is obliged to enqueue, retry, stop
or restart anything. `FairLockSpec` says it of a process inside `acquire()` or
`release()`. Weak fairness of a thread as a whole is enough, since its steps
are never disabled by others for good.

`two_agents` is about a situation that the pid file and the lock should
exclude, but do not: the lock fails as section 4 says.

## 4. Where the code and its documents disagree

Each run below checks one property that a document, a comment or a test states,
and TLC finds it violated.

| run | property | what happens |
|---|---|---|
| `lock_exclusion` | `MutualExclusion` | B opens the lock file; A releases: deletes it, closes it; B locks the deleted file; C finds no file, makes a new one and locks it. (`filelock.py:87-88`) |
| `retry_limit` | `RetryLimitKept` | throttled answers count as attempts; after them the first error gives an event up, though `pdagent.conf` says the limit is for errors only |
| `name_reuse` | `OneFilePerName` | names are exclusive in `pdq` only: an event may get the name of one already moved to `suc` or `err`, and a later rename replaces one by the other |

`RetryLimitKept` is broken in two more ways, which other values of the constants
show. Errors alone do it: a key keeps its attempts when an event is given up,
and its next event is given up at its first error. And the other way round
(`Answers = {"error"}`, `Stops = 1`): a restart after the back-off has expired
drops the attempts, since `update()` runs in `__init__` (`pdqueue.py:616`) and again in the
pass, so an event that fails across restarts is retried without limit.

Met while modelling, without a run of their own:

* `pd-queue status` never prints a table: the header has five columns and
  four titles, and a comma is missing after the third count
  (`bin/pd-queue.py:110-127`); both raise a `TypeError`. And `get_stats()` puts the
  `throttled` flag on the key that happens to be last in the dictionary,
  whichever is throttled (`pdqueue.py:521`), and raises if there is none.
  `StatusReport` does what the code does.
* Every `PDQueue`, that of a `pd-queue` command too, writes back the counters it
  loaded (`pdqueue.py:710`), over those that a flush has stored in between:
  they go back, although `test_pdqueue.py:738` says of `resurrect()` that
  "counters should not be touched".
* "Atomically" (`jsonstore.py:38`) holds of a set that no other one overlaps:
  two of them share the `.bak` file. The second rename then raises (in the constructor
  of the counters this resets them) or publishes what is half written, or what the
  other set was given. `StoresAtomically` says how long that can last: until a set ends
  that was alone.
* An `enqueue()` that is held up for longer than `cleanup_threshold_secs`, between
  its `open` and its `unlink`, may lose its file in `tmp` to `cleanup()`
  (`pdqueue.py:362`). It goes on by the path: if another `enqueue()` has made a file
  of that name since, it links that file, which may still be empty, and unlinks it
  (`pdqueue.py:149`, `113`); if none has, it raises. `PublishedWhole` is checked, and
  proved, for `enqueue()` calls that no `cleanup()` disturbs (`NothingOld`); with two
  enqueuers, an agent and `CleanupAge = 1` TLC finds it violated.
* The pid file is checked, and written later (`daemon.py:37`, `86`): two starts may
  both find none, and two agents be at work. Each of them may then look for the agent
  id while the other one makes it (`pdagentd.py:334`): it ends for want of an id in an
  empty file, or makes another. `OneAgent` and `ScriptKnows` say that two agents at
  work, or one that the init script does not find, come of overlapping starts and of
  nothing else; `IdKept` makes the same exception.
* A pid that another program has by now keeps a hand-made start from going on
  (`daemon.py:45` only asks whether the process exists) until somebody removes
  the file; the init script, which looks for the name of the program, tells
  "not running" and starts in vain.
* An agent killed while it writes its id leaves an empty file with which no
  later start succeeds (`pdagentd.py:365`), until somebody removes it. `IdKept`
  therefore speaks of agents that were not killed there (`harmed`).
* A start that finds a stale pid file raises if the exiting agent removes the file
  first (`daemon.py:49`). The next start succeeds.
* The back-off is stored at the end of a pass (`pdqueue.py:264`), which an exception
  skips: an answer that cannot be read ends the pass with an exception, and an agent
  that is stopped and started then sends at once for a key that had been told to wait
  earlier in that pass. `BackoffHonoured` is therefore checked and proved without
  such answers; with `"unreadable"` in the `Answers` of run `order` TLC finds it violated.
* A `stop` directly after a `start` may find no pid file yet and return 0.

Two statements that are about time and have no run of their own, as the
properties of `threads` give the exact bounds. The init script's `stop` waits "up
to 15sec for process to stop running" (`build-linux/pdagent.init:95`); with the
code's timeout of 10 s a stop can take 1 + 2 * 10 s, for the heartbeat thread is
told to stop only after the send thread has ended (`StopsInTime`). The retries of
a heartbeat are to take "max ... half an interval" (`heartbeat.py:73`); the
limit is tested before the gap, so an attempt may begin up to 10 s later
(`RetriesEndInTime`).

`NothingLost` holds in spite of `name_reuse` only because it exempts events
that share a name; the exemption is stated in the property. `ShortWrites` is
`FALSE` in every run: `os.write()` may write less than it was given and its
result is ignored (`pdqueue.py:104`); with `TRUE`, `PublishedWhole` is
violated.

## 5. Proofs

TLAPS proves for every value of the constants what the runs check on one.

Assumptions are those of the modules on their constants (`QueueDirAssumption`,
`EnqueueAssumption`, `FileLockAssumption`, `PDQueueAssumption`) and, where it is
stated, `~ShortWrites`, `NothingOld` and `EnoughNames`.

*FileLockProofs.* `LockTypeCorrect`: `LockTypeOK` is inductive as it stands; its
part on `polls` says that no `acquire()` polls on after its timeout.
`LockFileRemoved`: `NoFileLeftBehind` needs the strengthening `OpenFiles`:
whoever is on the way has a file open, and somebody who has gone through the
first `unlink()` of `release()` has not got the path's file open any more. The
argument is that a process which gives up the path's file, at its timeout or to
try again, does so because another one has locked it (`LeftToHolder`), and that
one is inside.

*PDQueueTypes.* `UsesTheLock`: every step of the queue is a step of `FileLock`
or leaves the lock alone, so `Spec` implements `LockSpec` and the lock's theorems
hold of the composed system. `TypesCorrect`: `TypeOK` is not inductive. While
an agent sends an event it enters the key of its current name into the back-off
dictionaries; that the name is one that has a key, and the event one that exists,
is `Processed`. For that a nonempty listing must have a first name which `First` (a
`CHOOSE`) returns: `FirstIsLeast`. An `enqueue()` that tries another name must not run past
`MaxTries`, and must have read the time; that is `TryingNames`. `TypeInv` is
`TypeOK` (less the lock's part, which `UsesTheLock` gives) with these two.

*PDQueueProofs.* `NoEventLost`: `Spec => []NothingLost`. The argument has three
parts, each a conjunct of the inductive invariant `LossInv`:

* `NamedWhenLinked`: an event gets its name once, when it is linked, and keeps
  it. So the file that a name leads to is either the event that was read, or one
  that shares its name, which `NothingLost` exempts.
* `InHand`: the event that an agent is sending was queued under the name the agent
  works on, and if its answer means "consumed", the API acknowledged it. So a
  rename to `suc` loses nothing; one to `err` never does.
* `TooOld`: what `cleanup()` is going to delete is in `err`, `suc` or `tmp` and was
  older than its limit when it listed the directory; names do not change and the
  clock does not go back, so it is too old when it is deleted.

No part says that one agent works at a time: that is why the flaw of the
lock (section 4) costs duplicates, not events.

`EventsAreWhole`: `PublishedWhole`, if `os.write()` writes what it is given
(`~ShortWrites`) and no file grows old enough for `cleanup()` (`NothingOld`: the
clock does not go beyond `StartTime + CleanupAge`; without it the property is
false, section 4). It needs more than the order of `enqueue()`, write before link
(`Written`): that the path which is linked still leads to the file which was written.
That is `TmpInUse` (who has a file in `tmp` has it under the path it goes by, and no
two have the same), which no other `enqueue()` breaks since `open()` is exclusive
(`SenderTmp`), and no `cleanup()` as the names are recent (`RecentNames`,
`TmpLeftAlone`).

`QueueKeepsPromise`: `Spec` implements `Delivery`. The argument goes event by
event: by `NamedWhenLinked` of `LossInv` an event has its name from when it is
linked, and keeps it, so that a rename changes the status of exactly one event
unless its name is shared (`RenameStatus`, `RemoveStatus`); a link either finds
an unused name (`Accept`) or makes the events of that name unclear (`Confuse`);
a rename to `suc` needs `InHand`, by which the API had acknowledged the event.

`NamesAreApart`: two files of one subdirectory never have the same name
(`OnePerPlace`), whoever renames what, for `os.link()` is exclusive and
`os.rename()` replaces; and a file's name has the service key of its event
(`NameHasKey`), so that no event is held back or sent on behalf of another key.
This is what is left of exclusive names once agents move files: `OneFilePerName`
itself is false then (section 4).

`TakenNamesFailNobody`: `OnlyKillsFail`, under two conditions. `EnoughNames`:
there are not more events than names are tried. `NothingOld`: as above, for an
`enqueue()` whose file is gone raises. The invariant `TryInv` counts: each name that an
enqueuer has tried in vain is the name of another event (`TakenByOthers`), so
there are not as many as `MaxTries`.

*FlushProofs.* What a flush guarantees; each theorem says what it needs.

* `GivenUpLate`, without conditions: no more attempts are counted, in memory or
  on disk, than the key had setbacks (`AttemptsCounted`); an answer that makes the
  key wait is one setback more than was counted before it (`AnswersCounted`). Restarts and
  failing writes only lose attempts.
* `SentInOrder`, if nobody retries events (a retried event comes back with its old
  name, before events that a pass has gone beyond): what the pass has left behind in
  the queue is held back with its key (`LeftBehind`), and what is sent is not
  (`SentFreely`); so no earlier event of that key is left. Kills and several agents do
  no harm, as the listing holds published names only (`ListedWere`).
* `SentOnce`, for one agent that is not killed: what the API acknowledged has left
  the queue or is about to be moved by the agent that has it in hand (`Settled`), and nobody
  else takes it away from there (`HandInQueue`). A kill between the answer and the
  rename sends the event again, and so do two agents: no theorem could say otherwise.
* `BackoffIsHonoured`, for one agent that is not killed, whose database writes succeed
  and whose answers can be read: what a key was told is in the memory of the agent, and
  between two passes in the database (`KeptInMind`). A pass that nothing ends early
  needs that what it listed is still there (`LeftInQueue`).
* `CountersInventNothing`, if nobody retries events (one that is retried and
  given up again is counted twice and is one file in `err`): what is stored, and
  what each agent has in memory less the event in its hand, is at most what has
  left the queue (`NoneInvented`). An event is counted by the agent whose rename
  moved it, so this holds without mutual exclusion, with kills, and with writes
  that go back to an older value.
* `CountersAreExact`, for one agent that is not killed, whose writes succeed,
  whose answers can be read, and without retries: the memory of the agent has all
  that happened but for the event in its hand (`AllCounted`, `HandQueued`), and
  so has the disk outside a pass. A kill or a failing write loses what was not yet
  stored, an unreadable answer skips `store()`, and two agents write over each
  other.

*TaskThreadsProofs.* `EndsInTime`, `EndsOrderly` and `HeartbeatEnds` share one
invariant, `ThreadsInv`. `Roster`: which threads exist, and which of them have
ended, follows from where the main thread is; so main exits only when all have ended.
`Waits`: no thread waits for longer than a second or a request, and one in a tick goes
on at once, for the clock stands still while somebody can go on (`Second`).
`Deadlines`: main is done with the n-th thread before `Due(n + 1)`, since it joins
each for one wait at most; the last of these times is the bound of `StopsInTime`.
`Retrying`: the same for the heartbeat's gap, second by second, and its requests.
`EndsHaveCause` has an invariant of its own, `Caused`: without a SIGTERM, a failed
start or an exception out of a tick, no thread is told to stop, none has ended
and main idles; an error within a tick is not among the causes.
`TicksOnSchedule` has another, `OnTime`: a thread that waits in
its loop never sleeps past `next_run_time` (`Schedule`), and that is the time
`OnSchedule` gives (`DueAt`), also after the server changed the interval within
the tick. As the clock stands still while somebody can go on, no tick begins late.

*ReportProofs.* `ReportOverlooksNobody`: files move from `pdq` to `suc` or `err`, in
the order in which the report lists them, and the other way only by `pd-queue
retry`. So an event that was there when the report began, and has not been
counted, is still ahead of the listings (`Ahead`), and each step of the queue
keeps it ahead (`EventsMoveOn`). The one way around is named in the property,
`NoneMovedBack`. `ReportHasOneOutcome`: what was counted in `suc` stays there
or is deleted (`SentWas`), so that a name found in `err` as well belongs to two
events (`NamedTwice`). `ReportTypesCorrect` states `StatusTypeOK`. All three use
`QueueAtRest`: the report itself changes nothing of the queue but the counters.

*JsonStoreProofs.* `StoreIsAtomic`: `StoreSpec` implements `Register`. A set that is
alone has emptied the file called `.bak`, which nobody else writes to until its
rename, so that what is renamed holds what it was given, whatever a killed set had
left there; a set that ends alone makes the promise hold again after others have
overlapped. A rename changes nothing for a get that is under way, since that one
goes on reading the inode it has opened (`SameToOthers`); what is renamed or written
by a set that is not alone is a step `SetEnds` or `SetDisturbs`.

*DaemonProofs.* `OnlyOneAgent` and `ScriptIsRight` rest on the invariant
`Exclusion`, for the case that starts have not overlapped: at most one process is
between its check and its pid (`OneStart`); the file names whoever is at work
(`Told`); and who has made its check while somebody is at work has read that
pid (`Seen`), so that it will be refused. A kill leaves a stale file, which
the next start removes.
`IdIsKept` rests on `IdInv`: who makes an id found no file, and whoever reads the file
finds it whole unless an agent was killed within the write. `HostStoresAtomically`
uses the invariant of `JsonStoreProofs`, every step of the host being a step of the
store or leaving it alone. `DaemonTypesCorrect` states with the types that the two
agree (`Agree`): a process has the counters open for reading exactly while its queue
object loads them, and for writing only while it saves them or is at work.

Model-checked only: the liveness properties (`AcquireReturns`, `EnqueueEnds`,
`Delivered`, `Stopped`), which rest on fairness and `ENABLED` and are out of
TLAPS's reach. `MutualExclusion`, `RetryLimitKept` and `OneFilePerName` are
false (section 4). Every other property that a run checks
is a theorem, under the conditions given above.

## 6. Not modelled

* HTTP client, configuration, packaging: no state of their own, or pure I/O.
  What they give to the rest (answers, numbers) are constants and choices.
* Vendored libraries (`argparse.py`, `six.py`, `mock.py`, `funcsigs`): two thirds of
  the lines of Python in the repository, and none of them about what an agent does.
  pdagent's own Python code without its tests is about a quarter of those lines, of
  which half is configuration, logging, options and documentation of the code.
* `pdagentd.py -f`, which runs in the foreground and makes no pid file: for it no
  property of `Daemon` holds.
* The content of a heartbeat, the layout of a report, the text of events.
* Failing system calls (a full disk, permissions) other than the database writes
  of `Faults` and the short writes of `ShortWrites`.

## 7. Plan

Every component that keeps state is modelled, and every safety property proved.
What could follow, most useful first: a composition of `TaskThreads` and `PDQueue`
in which an agent that is killed by the end of its process leaves the lock file
behind, and in which one can say how soon an event is delivered; `pdagentd.py -f`
beside an agent that has a pid file.
