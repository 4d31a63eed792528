-------------------------------- MODULE Batch --------------------------------
(***************************************************************************)
(* The batch lane: one batch of N items from POST /batch to its close.     *)
(*                                                                         *)
(* BatchWorkflow starts a child JobWorkflow per item, at most MaxInFlight  *)
(* at once, and closes the batch when all have ended.  A child is what     *)
(* JobRunContract allows: its run moves from pending to one outcome, each  *)
(* move mirrored to its item and to the batch's counters.  The API creates *)
(* the batch, may have to fail it, and cancels it.                         *)
(*                                                                         *)
(* Transactions take locks in the order run -> batch -> item.  A mirror, a *)
(* cancel and a finish are two steps each: the run locks taken, then the   *)
(* batch locked and all committed.  The batch's lock is held only within   *)
(* the second step.                                                        *)
(***************************************************************************)
EXTENDS Naturals, FiniteSets

CONSTANTS
    N,           \* items of the batch
    MaxInFlight, \* settings.batch_max_in_flight
    Perils,      \* which of PerilKinds may happen
    MaxPerils    \* how many of them a behaviour may have (a bound)

PerilKinds == {"refuse", "ambiguous", "api_crash", "no_outcome", "not_started",
               "stray", "outage", "operator"}

ASSUME SizesAssumption == N \in Nat \ {0} /\ MaxInFlight \in Nat \ {0}
ASSUME PerilsAssumption == Perils \subseteq PerilKinds /\ MaxPerils \in Nat

Items == 1..N

VARIABLES
    run,       \* job_runs.status of each item's run
    result,    \* whether job_runs.result_path is set, and by which stage
    item,      \* batch_items.status
    batch,     \* batches.status
    completed, \* batches.completed
    failed,    \* batches.failed
    announced, \* the status in the batch's webhook_deliveries row
    request,   \* the POST /batch request
    mirror,    \* the status an open mirror transaction is about to write
    cancelReq, \* the DELETE /batch request: "no", "holds" (its run locks), "done", "over"
    held,      \* the run locks a cancel or a finish holds
    engine,    \* whether the engine has been asked to cancel the workflow
    pc,        \* where BatchWorkflow is
    next,      \* the next item to fan out
    child,     \* the child workflow of each item
    told,      \* children have been cancelled
    noted,     \* BatchWorkflow._cancel_requested
    asked,     \* the cancelled field of the finish_batch call, once made
    finishing, \* a finish_batch attempt is past its run locks
    reply,     \* its answer
    stranded,  \* history: the request died, or finish_batch exhausted its retries
    perils     \* how many perils have happened

rowVars == <<run, result, item, batch, completed, failed, announced>>
apiVars == <<request, cancelReq, engine>>
wfVars  == <<pc, next, child, told, noted, asked, reply>>
txnVars == <<mirror, held, finishing>>
vars == <<rowVars, apiVars, wfVars, txnVars, stranded, perils>>

Active == {"pending", "running", "processing"}
Ended == {"completed", "failed", "cancelled"}
TERMINAL == {"completed", "partial_failure", "cancelled"}

Init ==
    /\ run = [i \in Items |-> "none"] /\ result = [i \in Items |-> "none"]
    /\ item = [i \in Items |-> "none"]
    /\ batch = "none" /\ completed = 0 /\ failed = 0 /\ announced = "none"
    /\ request = "idle" /\ cancelReq = "no" /\ engine = FALSE
    /\ mirror = [i \in Items |-> "none"] /\ held = {} /\ finishing = FALSE
    /\ pc = "none" /\ next = 1 /\ child = [i \in Items |-> "none"]
    /\ told = FALSE /\ noted = FALSE /\ asked = "no" /\ reply = "none"
    /\ stranded = FALSE /\ perils = 0

Peril(k) == k \in Perils /\ perils < MaxPerils /\ perils' = perils + 1

ActiveRuns == {i \in Items : run[i] \in Active}
Unlocked(S) == \A i \in S : mirror[i] = "none" /\ i \notin held

(* Mutant of Live: a place in flight is freed by an outcome only. *)
LiveUntilOutcome == {i \in Items : child[i] = "live" \/ (child[i] = "ended" /\ run[i] \in Active)}

Live == {i \in Items : child[i] = "live"}

Count(items, st) == Cardinality({i \in Items : items[i] = st})

(* Mutant of Recount: an increment instead of a count. *)
RecountByOne(items) ==
    /\ completed' = completed + Cardinality({i \in Items : items[i] = "completed" /\ item[i] # "completed"})
    /\ failed' = failed + Cardinality({i \in Items : items[i] = "failed"})

(* batch_progress.recount, from the items as the transaction sees them. *)
Recount(items) ==
    /\ completed' = Count(items, "completed")
    /\ failed' = Count(items, "failed")

(* ON CONFLICT DO NOTHING: one row, keyed by the first item's run. *)
Announce(st) == announced' = IF announced = "none" THEN st ELSE announced

-----------------------------------------------------------------------------
(* POST /batch *)

CreateBatch ==
    /\ request = "idle"
    /\ request' = "committed"
    /\ run' = [i \in Items |-> "pending"]
    /\ item' = [i \in Items |-> "pending"]
    /\ batch' = "queued"
    /\ UNCHANGED <<result, completed, failed, announced, cancelReq, engine, wfVars,
                   txnVars, stranded, perils>>

StartBatch ==
    /\ request = "committed"
    /\ request' = "started"
    /\ pc' = "fan"
    /\ UNCHANGED <<rowVars, cancelReq, engine, next, child, told, noted, asked, reply,
                   txnVars, stranded, perils>>

(* After the start: running, unless the batch has left "queued" already. *)
MarkRunning ==
    /\ request = "started"
    /\ request' = "over"
    /\ batch' = IF batch = "queued" THEN "running" ELSE batch
    /\ UNCHANGED <<run, result, item, completed, failed, announced, cancelReq, engine,
                   wfVars, txnVars, stranded, perils>>

(* The engine refused the start, or took it and the client saw an error. *)
StartFails ==
    /\ request = "committed"
    /\ \/ Peril("refuse") /\ UNCHANGED pc
       \/ Peril("ambiguous") /\ pc' = "fan"
    /\ request' = "refused"
    /\ UNCHANGED <<rowVars, cancelReq, engine, next, child, told, noted, asked, reply,
                   txnVars, stranded>>

(* Every row is overwritten.  The batch was loaded with completed = 0: the *)
(* ORM sees no change in that column and does not write it.                *)
FailUnstartedBatch ==
    /\ request = "refused"
    /\ Unlocked(Items)
    /\ request' = "failed"
    /\ run' = [i \in Items |-> "failed"]
    /\ item' = [i \in Items |-> "failed"]
    /\ failed' = N
    /\ batch' = "partial_failure"
    /\ Announce("partial_failure")
    /\ UNCHANGED <<result, completed, cancelReq, engine, wfVars, txnVars, stranded, perils>>

ApiDies ==
    /\ request \in {"committed", "started", "refused"}
    /\ Peril("api_crash")
    /\ request' = "over"
    /\ stranded' = (stranded \/ pc = "none")
    /\ UNCHANGED <<rowVars, cancelReq, engine, wfVars, txnVars>>

-----------------------------------------------------------------------------
(* DELETE /batch/{id}: the rows first, the engine told best effort. *)

(* Mutant of CancelTakesRuns: no status test in the UPDATE of the runs. *)
CancelTakesAll ==
    /\ batch \in {"queued", "running"}
    /\ cancelReq = "no"
    /\ Unlocked(Items)
    /\ cancelReq' = "holds"
    /\ held' = Items
    /\ UNCHANGED <<rowVars, request, engine, wfVars, mirror, finishing, stranded, perils>>

(* The route reads the batch without a lock.  No run becomes active, so what *)
(* the UPDATE locks is what is active: held is shared with finish_batch, as  *)
(* both are under way only when there is nothing to lock.                    *)
CancelTakesRuns ==
    /\ batch \in {"queued", "running"}
    /\ cancelReq = "no"
    /\ Unlocked(ActiveRuns)
    /\ cancelReq' = "holds"
    /\ held' = ActiveRuns
    /\ UNCHANGED <<rowVars, request, engine, wfVars, mirror, finishing, stranded, perils>>

(* Mutant of CancelCommits: the batch's status is not read under its lock. *)
CancelCommitsBlind ==
    /\ cancelReq = "holds"
    /\ cancelReq' = IF held = {} THEN "over" ELSE "done"
    /\ run' = [i \in Items |-> IF i \in held THEN "cancelled" ELSE run[i]]
    /\ item' = [i \in Items |-> IF item[i] \in {"pending", "running"} THEN "cancelled" ELSE item[i]]
    /\ batch' = "cancelled"
    /\ Recount(item')
    /\ held' = {}
    /\ UNCHANGED <<result, announced, request, engine, wfVars, mirror, finishing,
                   stranded, perils>>

CancelCommits ==
    /\ cancelReq = "holds"
    /\ held' = {}
    /\ \/ /\ batch \in TERMINAL
          /\ cancelReq' = "no"
          /\ UNCHANGED rowVars
       \/ /\ batch \notin TERMINAL
          /\ cancelReq' = IF held = {} THEN "over" ELSE "done"
          /\ run' = [i \in Items |-> IF i \in held THEN "cancelled" ELSE run[i]]
          /\ item' = [i \in Items |->
                        IF item[i] \in {"pending", "running"} THEN "cancelled" ELSE item[i]]
          /\ batch' = "cancelled"
          /\ Recount(item')
          /\ UNCHANGED <<result, announced>>
    /\ UNCHANGED <<request, engine, wfVars, mirror, finishing, stranded, perils>>

(* cancel_batch_workflow, when it gets through; or an operator's cancel. *)
EngineIsAsked ==
    /\ pc # "none" /\ ~engine
    /\ \/ cancelReq = "done" /\ cancelReq' = "over" /\ UNCHANGED perils
       \/ Peril("operator") /\ UNCHANGED cancelReq
    /\ engine' = TRUE
    /\ UNCHANGED <<rowVars, request, wfVars, txnVars, stranded>>

-----------------------------------------------------------------------------
(* The children: each moves its run, and mirrors the move. *)

(* The moves a child's activities make, by the status they find. *)
Moves(i) ==
    CASE run[i] = "pending" -> {"running"}
      [] run[i] = "running" -> {"processing", "completed", "failed"}
      [] run[i] = "processing" -> {"completed", "failed"}
      [] OTHER -> {}

(* An activity has the run's lock and knows what it will write.  A stray   *)
(* is an attempt the engine gave up on, still running after its workflow.  *)
BeginMirror(i) ==
    /\ run[i] \in Active /\ i \notin held /\ mirror[i] = "none"
    /\ \/ child[i] = "live" /\ UNCHANGED perils
       \/ child[i] = "ended" /\ Peril("stray")
    /\ \E st \in Moves(i) \cup (IF told THEN {"cancelled"} ELSE {}) :
         mirror' = [mirror EXCEPT ![i] = st]
    /\ UNCHANGED <<rowVars, apiVars, wfVars, held, finishing, stranded>>

ItemStatus(st) == IF st = "processing" THEN "running" ELSE st

(* _mirror_batch_item: the batch is locked, the item written, the batch *)
(* recounted, and the run's move committed with it.                     *)
CommitMirror(i) ==
    /\ mirror[i] # "none"
    /\ run' = [run EXCEPT ![i] = mirror[i]]
    /\ result' = IF mirror[i] = "completed"
                   THEN [result EXCEPT ![i] = IF run[i] = "running" THEN "scrape" ELSE "llm"]
                   ELSE result
    /\ item' = [item EXCEPT ![i] = ItemStatus(mirror[i])]
    /\ Recount(item')
    /\ mirror' = [mirror EXCEPT ![i] = "none"]
    /\ UNCHANGED <<batch, announced, apiVars, wfVars, held, finishing, stranded, perils>>

(* A child ends once its run is over, or, by a failure, without an outcome. *)
ChildEnds(i) ==
    /\ child[i] = "live" /\ mirror[i] = "none"
    /\ \/ run[i] \in Ended /\ UNCHANGED perils
       \/ run[i] \in Active /\ Peril("no_outcome")
    /\ child' = [child EXCEPT ![i] = "ended"]
    /\ UNCHANGED <<rowVars, apiVars, pc, next, told, noted, asked, reply, txnVars, stranded>>

-----------------------------------------------------------------------------
(* BatchWorkflow *)

(* A child the engine does not start is logged, and its place freed. *)
FanOut ==
    /\ pc = "fan" /\ next <= N
    /\ Cardinality(Live) < MaxInFlight
    /\ next' = next + 1
    /\ \/ child' = [child EXCEPT ![next] = "live"] /\ UNCHANGED perils
       \/ child' = [child EXCEPT ![next] = "ended"] /\ Peril("not_started")
    /\ UNCHANGED <<rowVars, apiVars, pc, told, noted, asked, reply, txnVars, stranded>>

(* The fan-out is cancelled: children in flight are, the rest never start. *)
CancelFanOut ==
    /\ pc = "fan" /\ engine /\ ~noted
    /\ pc' = "drain" /\ told' = TRUE /\ noted' = TRUE
    /\ UNCHANGED <<rowVars, apiVars, next, child, asked, reply, txnVars, stranded, perils>>

AllDone == Live = {} /\ ((pc = "fan" /\ next > N) \/ pc = "drain")

CallFinish ==
    /\ AllDone
    /\ pc' = "finish"
    /\ asked' = IF noted THEN "cancelled" ELSE "plain"
    /\ UNCHANGED <<rowVars, apiVars, next, child, told, noted, reply, txnVars, stranded, perils>>

Unfinished == ActiveRuns

(* finish_batch, at least once: an attempt may run until the call is answered *)
(* and, as a stray, after that.                                               *)
FinishTakesRuns ==
    /\ asked # "no" /\ ~finishing
    /\ \/ pc = "finish" /\ reply = "none" /\ UNCHANGED perils
       \/ ~(pc = "finish" /\ reply = "none") /\ Peril("stray")
    /\ Unlocked(Unfinished)
    /\ finishing' = TRUE
    /\ held' = Unfinished
    /\ UNCHANGED <<rowVars, apiVars, wfVars, mirror, stranded>>

Answer(st) == reply' \in IF pc = "finish" /\ reply = "none" THEN {st, "none"} ELSE {reply}

FinishFindsClosed ==
    /\ finishing /\ batch \in {"completed", "partial_failure"}
    /\ finishing' = FALSE /\ held' = {}
    /\ Answer(batch)
    /\ UNCHANGED <<rowVars, apiVars, pc, next, child, told, noted, asked, mirror,
                   stranded, perils>>

FinishCloses ==
    /\ finishing /\ batch \notin {"completed", "partial_failure"}
    /\ finishing' = FALSE /\ held' = {}
    /\ LET cancelled == asked = "cancelled" \/ batch = "cancelled"
           left == IF cancelled THEN "cancelled" ELSE "failed"
           over == [i \in Items |-> IF i \in held THEN left ELSE item[i]]
       IN /\ run' = [i \in Items |-> IF i \in held THEN left ELSE run[i]]
          /\ item' = over
          /\ Recount(over)
          /\ batch' = CASE cancelled -> "cancelled"
                        [] ~cancelled /\ Count(over, "completed") = N -> "completed"
                        [] OTHER -> "partial_failure"
          /\ IF cancelled THEN UNCHANGED announced ELSE Announce(batch')
          /\ Answer(batch')
    /\ UNCHANGED <<result, apiVars, pc, next, child, told, noted, asked, mirror, stranded, perils>>

FinishAnswered ==
    /\ pc = "finish" /\ reply # "none"
    /\ pc' = IF reply = "cancelled" /\ noted THEN "cancelled" ELSE "done"
    /\ UNCHANGED <<rowVars, apiVars, next, child, told, noted, asked, reply, txnVars,
                   stranded, perils>>

(* _through_cancel: a cancel is noted while finish_batch is awaited; one    *)
(* delivered with the answer is raised.  Either way the batch was closed.   *)
CancelDuringFinish ==
    /\ pc = "finish" /\ engine /\ ~noted
    /\ noted' = TRUE
    /\ pc' = IF reply = "none" THEN pc ELSE "cancelled"
    /\ UNCHANGED <<rowVars, apiVars, next, child, told, asked, reply, txnVars, stranded, perils>>

(* The call's window closes without an answer. *)
FinishGivesUp ==
    /\ pc = "finish" /\ reply = "none"
    /\ Peril("outage")
    /\ pc' = "failed" /\ stranded' = TRUE
    /\ UNCHANGED <<rowVars, apiVars, next, child, told, noted, asked, reply, txnVars>>

-----------------------------------------------------------------------------
Next ==
    \/ CreateBatch \/ StartBatch \/ MarkRunning \/ StartFails \/ FailUnstartedBatch \/ ApiDies
    \/ CancelTakesRuns \/ CancelCommits \/ EngineIsAsked
    \/ \E i \in Items : BeginMirror(i) \/ CommitMirror(i) \/ ChildEnds(i)
    \/ FanOut \/ CancelFanOut \/ CallFinish \/ FinishTakesRuns \/ FinishFindsClosed
    \/ FinishCloses \/ FinishAnswered \/ CancelDuringFinish \/ FinishGivesUp

(* The engine runs what it has been given, and requests go on; an activity's *)
(* answers are not lost for ever (SF).  No peril, cancel or operator is owed.*)
Fairness ==
    /\ WF_vars(StartBatch) /\ WF_vars(FailUnstartedBatch) /\ WF_vars(CancelCommits)
    /\ WF_vars(FanOut) /\ WF_vars(CallFinish) /\ WF_vars(FinishAnswered)
    /\ WF_vars(pc = "finish" /\ reply = "none" /\ FinishTakesRuns)
    /\ WF_vars(FinishCloses) /\ WF_vars(FinishFindsClosed)
    /\ SF_vars((FinishCloses \/ FinishFindsClosed) /\ reply' # reply)
    /\ \A i \in Items :
         /\ WF_vars(child[i] = "live" /\ BeginMirror(i)) /\ WF_vars(CommitMirror(i))
         /\ WF_vars(run[i] \in Ended /\ ChildEnds(i))

Spec == Init /\ [][Next]_vars /\ Fairness

-----------------------------------------------------------------------------
TypeOK ==
    /\ run \in [Items -> Active \cup Ended \cup {"none"}]
    /\ result \in [Items -> {"none", "scrape", "llm"}]
    /\ item \in [Items -> Ended \cup {"none", "pending", "running"}]
    /\ batch \in TERMINAL \cup {"none", "queued", "running"}
    /\ completed \in 0..N /\ failed \in 0..N
    /\ announced \in {"none", "completed", "partial_failure"}
    /\ mirror \in [Items -> Active \cup Ended \cup {"none"}]
    /\ held \subseteq Items /\ next \in 1..N + 1

(* A start that only looked refused: the request failed a batch whose *)
(* workflow the engine runs.                                          *)
Relabelled == request = "failed" /\ pc # "none"

(* The counters are those of the items, and an item shows what its run is:  *)
(* over mirrors, cancels and the finish in any order, except where a failed *)
(* start relabelled a running batch (recount, _mirror_batch_item).          *)
CountersMatch ==
    /\ ~Relabelled => completed = Count(item, "completed") /\ failed = Count(item, "failed")
    /\ \A i \in Items : item[i] = ItemStatus(run[i])

(* A closed batch has no item left open, and its status is what the items   *)
(* make it; it has told its webhook of the close if and only if it was not  *)
(* cancelled (finish_batch, cancel_batch).                                  *)
ClosedAgrees ==
    /\ batch \in TERMINAL => ActiveRuns = {}
    /\ batch = "completed" => completed = N
    /\ batch = "partial_failure" /\ ~Relabelled => completed < N
    /\ ~Relabelled => announced = IF batch \in {"completed", "partial_failure"} THEN batch ELSE "none"

(* At every moment the batch, its items and their runs say the same. *)
BatchAgrees == TypeOK /\ CountersMatch /\ ClosedAgrees

(* Only a request that failed to start the batch changes what a closed batch *)
(* says; what the counters of a closed batch say, no late mirror changes.    *)
ClosedForGood ==
    [][(batch \in TERMINAL) =>
         \/ <<batch, completed, failed, item>>' = <<batch, completed, failed, item>>
         \/ request' # request]_vars

(* Each item's run is a run of the job lane's contract, whichever of the    *)
(* child, the cancel, the finish or the failed start moves it.              *)
Contract(i) == INSTANCE JobRunContract WITH
    Runs <- {i},
    Subscribed <- {},
    status <- [r \in {i} |-> run[r]],
    resultOf <- [r \in {i} |-> result[r]],
    hooks <- [r \in {i} |-> {}]

ItemsKeepContract == [][\A i \in Items : Contract(i)!Next \/ UNCHANGED <<run[i], result[i]>>]_vars

(* A batch that was committed is closed, unless its request died before the *)
(* start or finish_batch exhausted its retries.                             *)
BatchEnds == (batch = "queued") ~> (batch \in TERMINAL \/ stranded)
=============================================================================
