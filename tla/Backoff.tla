------------------------------ MODULE Backoff -------------------------------
(***************************************************************************)
(* _BackoffInfo of pdagent/pdqueue.py: which service keys are backed off,  *)
(* until when, and after how many attempts.  A value is a record of three  *)
(* dictionaries over the service keys, 0 standing for "no entry":          *)
(*   prev    _previous_attempts                                            *)
(*   cur     _current_attempts                                             *)
(*   retry   _current_retry_at                                             *)
(***************************************************************************)
EXTENDS Naturals

CONSTANTS
  Keys,
  BackoffInterval,    \* backoff_interval_secs
  RetryLimit          \* retry_limit_for_possible_errors

NoEntries == [k \in Keys |-> 0]
NoInfo == [prev |-> NoEntries, cur |-> NoEntries, retry |-> NoEntries]
EmptyDb == [attempts |-> NoEntries, next_retries |-> NoEntries]
BackoffInfos == [prev : [Keys -> Nat], cur : [Keys -> Nat], retry : [Keys -> Nat]]
BackoffDbs == [attempts : [Keys -> Nat], next_retries : [Keys -> Nat]]

\* update(): entries whose time has come expire, and everything that was
\* current a moment ago becomes the previous attempts
Update(b, time) ==
  [prev  |-> b.cur,
   cur   |-> [k \in Keys |-> IF b.retry[k] > time THEN b.cur[k] ELSE 0],
   retry |-> [k \in Keys |-> IF b.retry[k] > time THEN b.retry[k] ELSE 0]]

\* (mutant) the retry times are not read back
LoadAttemptsOnly(db, time) ==
  Update([prev |-> NoEntries, cur |-> db.attempts, retry |-> NoEntries], time)

\* __init__(): load the database, then update()
Load(db, time) ==
  Update([prev |-> NoEntries, cur |-> db.attempts, retry |-> db.next_retries], time)

\* store() persists the current entries only
ToDb(b) == [attempts |-> b.cur, next_retries |-> b.retry]

Attempt(b, k) == IF b.cur[k] # 0 THEN b.cur[k] ELSE b.prev[k] + 1

\* (mutant) off by one
BreachedEarly(b, k) == Attempt(b, k) >= RetryLimit

ThresholdBreached(b, k) == Attempt(b, k) > RetryLimit

Increment(b, k, time) ==
  [prev  |-> b.prev,
   cur   |-> [b.cur EXCEPT ![k] = b.prev[k] + 1],
   retry |-> [b.retry EXCEPT ![k] = time + BackoffInterval]]

BackedOff(b, k, time) == b.retry[k] > time
=============================================================================
