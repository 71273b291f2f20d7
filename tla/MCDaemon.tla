------------------------------ MODULE MCDaemon ------------------------------
(* Daemon with symmetric processes, inodes, ids and counters. *)
EXTENDS Daemon, TLC

Interchangeable ==
  Permutations(Procs) \cup Permutations(Inodes)
    \cup Permutations(Values) \cup Permutations(Ids)
=============================================================================
