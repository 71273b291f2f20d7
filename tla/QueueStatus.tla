---------------------------- MODULE QueueStatus -----------------------------
(***************************************************************************)
(* "pd-queue status": get_queue(), then get_stats() of every service key   *)
(* or of one (pdagent/pdqueue.py), while agents, enqueuers and a           *)
(* "pd-queue retry" go on working on the queue.  It takes no lock: the     *)
(* subdirectories are listed one after the other, and events move on in    *)
(* between.                                                                *)
(*                                                                         *)
(* SnapshotStats (how many events, the oldest, the newest) is a function   *)
(* of the file names that were counted; these are what the model keeps.    *)
(***************************************************************************)
EXTENDS PDQueue

VARIABLES
  upc,      \* where the status process is
  ucnt,     \* its counter_info
  uwaits,   \* whether its backoff_info has retry times
  asked,    \* the service keys it was asked about
  counted,  \* counted[place]: the names counted in snapshot_stats
  begun     \* (for the properties) where the events were when it began

statusVars == <<upc, ucnt, uwaits, asked, counted, begun>>
restOfQueue == <<clock, queueVars, senderVars, taskVars, bodb, budget, lockVars,
                 retryVars, historyVars>>

Stages == {"off", "store", "pdq", "suc", "err", "report", "nothing", "raised"}
Listed == {"pdq", "suc", "err"}

StatusInit ==
  /\ PDQueueInit
  /\ upc = "off" /\ ucnt = NoCount /\ uwaits = FALSE /\ asked = {}
  /\ counted = [place \in Listed |-> {}]
  /\ begun = [e \in Events |-> "none"]

\* (mutant) against the flow
UpTheFlow == [store |-> "err", err |-> "suc", suc |-> "pdq", pdq |-> "report"]

\* (mutant) failed before succeeded events
FailedFirst == [store |-> "pdq", pdq |-> "err", err |-> "suc", suc |-> "report"]

\* pending, then succeeded, then failed events
NextStage == [store |-> "pdq", pdq |-> "suc", suc |-> "err", err |-> "report"]

\* PDQueue.__init__() loads both databases ..
StatusStart ==
  /\ upc = "off"
  /\ upc' = "store"
  /\ ucnt' = cntdb
  /\ uwaits' = (Bo!Load(bodb, clock).retry # Bo!NoEntries)
  /\ asked' \in {Keys} \cup {{k} : k \in Keys}
  /\ begun' = dir
  /\ UNCHANGED <<counted, cntdb, restOfQueue>>

\* .. and writes the counters back
StatusStore ==
  /\ upc = "store"
  /\ upc' = NextStage[upc]
  /\ cntdb' = ucnt
  /\ UNCHANGED <<ucnt, uwaits, asked, counted, begun, restOfQueue>>

\* (mutant) badly named files are not skipped
AnyName(place) == {nm \in QueuedFiles(place) : BadFileName(nm) \/ SvcKey(nm) \in asked}

\* add_stat(): badly named files and other service keys are skipped
AddStat(place) == {nm \in QueuedFiles(place) : SvcKey(nm) \in asked}

StatusList ==
  /\ upc \in Listed
  /\ counted' = [counted EXCEPT ![upc] = AddStat(upc)]
  /\ upc' = NextStage[upc]
  /\ UNCHANGED <<ucnt, uwaits, asked, begun, cntdb, restOfQueue>>

NothingCounted == \A place \in Listed : counted[place] = {}

\* The throttled flag is put on the last key of the snapshot, of which there
\* is none if nothing was counted; the header of the table asks for five
\* values and gets four: only "Nothing to report." is ever printed.
StatusReport ==
  /\ upc = "report"
  /\ upc' = IF NothingCounted /\ ~uwaits THEN "nothing" ELSE "raised"
  /\ UNCHANGED <<ucnt, uwaits, asked, counted, begun, cntdb, restOfQueue>>

StatusStep == StatusStart \/ StatusStore \/ StatusList \/ StatusReport

StatusNext ==
  \/ Next /\ UNCHANGED statusVars
  \/ StatusStep

StatusSpec == StatusInit /\ [][StatusNext]_<<vars, statusVars>>

-----------------------------------------------------------------------------
(* Properties *)

\* What is counted has a name, a service key that was asked about, and was
\* counted in a subdirectory that has been listed.
StatusTypeOK ==
  /\ upc \in Stages
  /\ ucnt \in CountRecords
  /\ uwaits \in BOOLEAN
  /\ asked \subseteq Keys
  /\ counted \in [Listed -> SUBSET (Nat \X asked)]
  /\ begun \in [Events -> Places]

Reported == upc \in {"report", "nothing", "raised"}
NoneMovedBack == \A r \in Retriers : rpc[r] \in {"off", "store", "list"}

\* The report overlooks nobody, although it reads the queue without the lock:
\* an event that had its place in the queue when "pd-queue status" began and
\* was not cleaned up since is counted at least once, as pending, succeeded
\* or failed, whatever the agent does with it meanwhile.  An event may slip
\* through only against the flow: if "pd-queue retry" moves it back to pdq
\* when pdq has been listed; and never one that had been sent.
NobodyOverlooked ==
  Reported =>
    \A e \in Events :
      /\ begun[e] \in Listed
      /\ dir[e] \in Listed
      /\ KeyOf[e] \in asked
      /\ begun[e] # "suc" => NoneMovedBack
      => \E place \in Listed : name[e] \in counted[place]

\* No event is reported both as succeeded and as failed, not even when
\* "pd-queue retry" and the agent bring it from err to suc in between.
OneOutcome ==
  Reported =>
    \A nm \in counted["suc"] \cap counted["err"] :
      \E e \in Events : name[e] = nm /\ Reused(e)
=============================================================================
