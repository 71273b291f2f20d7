------------------------------ MODULE Register ------------------------------
(***************************************************************************)
(* What "persist JSON-based data atomically" (pdagent/jsonstore.py:38)     *)
(* promises: the store is a register.  A set has stored nothing until it   *)
(* ends, and then stores the whole value that it was given; one that is    *)
(* cut off has stored nothing.  A get answers with the value there was     *)
(* when it began, however long it takes.                                   *)
(*                                                                         *)
(* The code serializes nothing, so the promise does not hold for a set     *)
(* that is not alone: such a set may leave anything behind, and may do so  *)
(* under the gets, too.  What it leaves lasts until the next set ends.     *)
(***************************************************************************)
CONSTANTS Procs, Values, None

VARIABLES
  stored,     \* the value stored; None if there is none that can be read
  doing,      \* what a process does: a "set", a "get", or nothing
  value,      \* the value that its set was given, or that its get will answer
  alone       \* whether no other set was under way during its set so far

registerVars == <<stored, doing, value, alone>>

Sets == {p \in Procs : doing[p] = "set"}

RegisterInit ==
  /\ stored = None
  /\ doing = [p \in Procs |-> "idle"]
  /\ value = [p \in Procs |-> None]
  /\ alone = [p \in Procs |-> FALSE]

Begins(p, what, v) ==
  /\ doing[p] = "idle"
  /\ doing' = [doing EXCEPT ![p] = what]
  /\ value' = [value EXCEPT ![p] = v]

Ends(p) ==
  /\ doing' = [doing EXCEPT ![p] = "idle"]
  /\ value' = [value EXCEPT ![p] = None]
  /\ alone' = [alone EXCEPT ![p] = FALSE]

SetBegins(p, v) ==
  /\ Begins(p, "set", v)
  /\ alone' = [q \in Procs |-> q = p /\ Sets = {}]
  /\ UNCHANGED stored

SetEnds(p) ==
  /\ doing[p] = "set"
  /\ stored' \in IF alone[p] THEN {value[p]} ELSE Values \cup {None}
  /\ Ends(p)

\* Before its end a set disturbs others only if it is not alone.
SetDisturbs(p) ==
  /\ doing[p] = "set" /\ ~alone[p]
  /\ stored' \in Values \cup {None}
  /\ value' \in [Procs -> Values \cup {None}]
  /\ \A q \in Procs : doing[q] # "get" => value'[q] = value[q]
  /\ UNCHANGED <<doing, alone>>

GetBegins(p) ==
  /\ Begins(p, "get", stored)
  /\ UNCHANGED <<stored, alone>>

\* A get answers value[p]; a set or a get is cut off.
EndsQuietly(p) ==
  /\ Ends(p)
  /\ UNCHANGED stored

RegisterStep(p) ==
  \/ \E v \in Values : SetBegins(p, v)
  \/ SetEnds(p) \/ SetDisturbs(p)
  \/ GetBegins(p) \/ EndsQuietly(p)

RegisterNext == \E p \in Procs : RegisterStep(p)

RegisterSpec == RegisterInit /\ [][RegisterNext]_registerVars
=============================================================================
