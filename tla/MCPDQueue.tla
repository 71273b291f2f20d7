----------------------------- MODULE MCPDQueue ------------------------------
(***************************************************************************)
(* Instances of PDQueue for TLC.  Events are numbered from 1, service keys *)
(* too.                                                                    *)
(***************************************************************************)
EXTENDS PDQueue

\* who enqueues under which key
OneKey == [e \in Events |-> 1]
KeyPerEvent == [e \in Events |-> e]
SecondKeyThenStray ==
  [e \in Events |-> CASE e = 3 -> 2 [] e = 4 -> NoKey [] OTHER -> 1]
StrayLast == [e \in Events |-> IF e = 3 THEN NoKey ELSE 1]

\* events that are queued to begin with, in the order of their numbers
Empty == [e \in {} |-> 0]
OneQueued == [e \in {1} |-> 1]
AllQueued == [e \in Events |-> e]

\* until when the Events API may refuse the events of a key
Forever == [k \in Keys |-> MaxTime]
FirstKeyForever == [k \in Keys |-> IF k = 1 THEN MaxTime ELSE StartTime]
=============================================================================
