----------------------------- MODULE SendEvent ------------------------------
(***************************************************************************)
(* send_event() of pdagent/sendevent.py, the consume callback of flush():  *)
(* what the answer of the Events API, or the lack of one, means for the    *)
(* event and for its service key.                                          *)
(***************************************************************************)

\* "ok" any status below 300; "unknown" 3xx, 600 and above; "unreadable" a
\* body that is JSON but no object, or an error body that cannot be read:
\* send_event() raises
AllAnswers ==
  {"ok", "throttled", "rejected", "error", "unknown",
   "timeout", "unreachable", "certificate", "unreadable"}

\* the event may be the reason; the service key has to wait
MayBeBad == {"error", "timeout"}
ComeAgain == {"throttled", "unreachable", "unknown"}

\* (mutant) 4xx is taken for an answer like any other
ConsumeCodeBelow500(answer) ==
  CASE answer \in {"ok", "rejected"} -> "CONSUMED"
    [] answer = "certificate" -> "STOP_ALL"
    [] answer \in MayBeBad -> "BACKOFF_BAD_ENTRY"
    [] answer \in ComeAgain -> "BACKOFF_NOT_CONSUMED"
    [] OTHER -> "RAISES"

ConsumeCode(answer) ==
  CASE answer = "ok"          -> "CONSUMED"
    [] answer = "rejected"    -> "BAD_ENTRY"
    [] answer = "certificate" -> "STOP_ALL"
    [] answer \in MayBeBad    -> "BACKOFF_BAD_ENTRY"
    [] answer \in ComeAgain   -> "BACKOFF_NOT_CONSUMED"
    [] OTHER                  -> "RAISES"

ConsumeCodes ==
  {"CONSUMED", "BAD_ENTRY", "STOP_ALL", "BACKOFF_BAD_ENTRY", "BACKOFF_NOT_CONSUMED"}
=============================================================================
