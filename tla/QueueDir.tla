------------------------------ MODULE QueueDir ------------------------------
(***************************************************************************)
(* The queue directory of pdagent/pdqueue.py: one file per event, in one   *)
(* of the subdirectories pdq, suc and err, under a name made of the        *)
(* enqueue time and the service key.                                       *)
(*                                                                         *)
(* An event is what one call of enqueue() was given; the model follows its *)
(* file through renames.  Two events may come to have the same name: a     *)
(* rename then replaces the file that has the name at the destination.     *)
(***************************************************************************)
EXTENDS Naturals, FiniteSets

CONSTANTS
  Events,     \* the calls of enqueue(), and files dropped into pdq by others
  Keys,       \* service keys, as positive numbers: file names are sorted
  KeyOf,      \* the service key of each event, NoKey for an unparsable name
  Backlog,    \* the events that were queued before the initial state, with
              \* the time each was enqueued at
  StartTime, MaxTime   \* bounds of the clock

NoKey == 0

ASSUME QueueDirAssumption ==
  /\ Keys \subseteq Nat \ {NoKey}
  /\ KeyOf \in [Events -> Keys \cup {NoKey}]
  /\ StartTime \in Nat \ {0}
  /\ MaxTime \in Nat
  /\ StartTime <= MaxTime
  /\ DOMAIN Backlog \subseteq Events
  /\ \A e \in DOMAIN Backlog : Backlog[e] \in 1 .. StartTime
  /\ \A e, x \in DOMAIN Backlog :
       e # x => KeyOf[e] # KeyOf[x] \/ Backlog[e] # Backlog[x]

VARIABLES
  clock,      \* time.time(); file names and back-off times use the same unit
  dir,        \* dir[e]: the subdirectory of e's file, or why it has none
  name,       \* name[e]: its file name in there, NoName before the link()
  data        \* data[e]: what its file contains

queueVars == <<dir, name, data>>

\* "none": not linked yet; "removed": deleted by cleanup(); "clobbered":
\* another event's file was renamed over it
Places == {"none", "pdq", "suc", "err", "removed", "clobbered"}
\* "other": the content of another event's file
Contents == {"none", "empty", "short", "full", "other"}

\* "%d_%s.txt" % (time, service_key)
Names == Nat \X (Keys \cup {NoKey})
NoName == <<0, NoKey>>
FileName(time, key) == <<time, key>>
StampOf(nm) == nm[1]
SvcKey(nm) == nm[2]
BadFileName(nm) == SvcKey(nm) = NoKey

\* the order of sorted(os.listdir(..)): by time, then by service key
Before(a, b) ==
  \/ StampOf(a) < StampOf(b)
  \/ StampOf(a) = StampOf(b) /\ SvcKey(a) < SvcKey(b)
First(nms) == CHOOSE a \in nms : \A b \in nms \ {a} : Before(a, b)

QueuedFiles(place) == {name[e] : e \in {x \in Events : dir[x] = place}}
FileOf(place, nm) == CHOOSE e \in Events : dir[e] = place /\ name[e] = nm

\* _unsafe_change_event_type(): os.rename() within the queue directory
Rename(nm, from, to) ==
  dir' = [e \in Events |->
            CASE name[e] = nm /\ dir[e] = from -> to
              [] name[e] = nm /\ dir[e] = to   -> "clobbered"
              [] OTHER                         -> dir[e]]

\* os.remove() of a file that was enqueued too long ago
Remove(nm, place) ==
  dir' = [e \in Events |->
            IF name[e] = nm /\ dir[e] = place THEN "removed" ELSE dir[e]]

\* e shares its file name with another event that was published
Reused(e) == \E x \in Events \ {e} : name[x] = name[e]

Queued(e) == e \in DOMAIN Backlog

QueueDirInit ==
  /\ clock = StartTime
  /\ dir = [e \in Events |-> IF Queued(e) THEN "pdq" ELSE "none"]
  /\ name = [e \in Events |->
               IF Queued(e) THEN FileName(Backlog[e], KeyOf[e]) ELSE NoName]
  /\ data = [e \in Events |-> IF Queued(e) THEN "full" ELSE "none"]

ClockTick ==
  /\ clock < MaxTime
  /\ clock' = clock + 1

QueueDirTypeOK ==
  /\ clock \in StartTime .. MaxTime
  /\ dir \in [Events -> Places]
  /\ name \in [Events -> Names]
  /\ data \in [Events -> Contents]
=============================================================================
