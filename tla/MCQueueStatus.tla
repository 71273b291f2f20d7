--------------------------- MODULE MCQueueStatus ----------------------------
(* Instances of QueueStatus for TLC. *)
EXTENDS QueueStatus, MCPDQueue

TwoKeysThenStray == [e \in Events |-> IF e = 3 THEN NoKey ELSE e]
=============================================================================
