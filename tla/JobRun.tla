------------------------------- MODULE JobRun -------------------------------
(***************************************************************************)
(* The job lane: one run of a job from POST /jobs to its outcome.          *)
(*                                                                         *)
(* Four actors share a run.  The API request that creates it commits the   *)
(* row and then starts a workflow; API requests cancel or delete it; the   *)
(* workflow (JobWorkflow) drives it by calling activities; workers run     *)
(* those activities, each one a database transaction on the run's row (a   *)
(* FOR UPDATE lock) and, for some, deletions in the object store.          *)
(*                                                                         *)
(* Activities are called at least once: a worker may commit and its answer *)
(* be lost, the engine may give up while an attempt still runs, and that   *)
(* attempt may commit later.  The engine delivers a cancellation between   *)
(* any two workflow steps, or together with a step's result.               *)
(*                                                                         *)
(* Sizes: each stage's objects (result and screenshots) count as one unit  *)
(* of storage, recorded together as the code does in one transaction.      *)
(* Every run belongs to one user, and to a job of its own.                 *)
(***************************************************************************)
EXTENDS Naturals, FiniteSets

CONSTANTS
    Runs,        \* run ids of one user, each the first run of its own job
    Limit,       \* storage_bytes_limit, in units
    Subscribed,  \* the events the jobs' webhook_events admit ({}: no webhook_url)
    Releases,    \* the requests and scripts that may release a run's storage at once
    Perils,      \* which of PerilKinds the environment may do
    MaxPerils    \* how many budgeted perils a behaviour may have (a bound)

Stages == {"scrape", "llm"}
Events == {"job.completed", "job.failed"}

(* "rerun": an attempt runs although the call was answered or given up.    *)
(* "delete": a permanent delete.  The others are budgeted by MaxPerils.    *)
PerilKinds == {"rerun", "delete", "refuse", "ambiguous", "api_crash", "outage",
               "coincide", "abandon", "abort", "wall_abort", "minio"}

ASSUME LimitAssumption == Limit \in Nat
ASSUME SubscribedAssumption == Subscribed \subseteq Events
ASSUME PerilsAssumption == Perils \subseteq PerilKinds /\ MaxPerils \in Nat
ASSUME RunsAssumption == IsFiniteSet(Runs)

VARIABLES
    status,    \* job_runs.status; "none" before the insert, "gone" after the delete
    walled,    \* the stage job_runs.error names as over the storage limit
    resultOf,  \* the stage job_runs.result_path points at
    hooks,     \* the run's webhook_deliveries rows, by event
    ledger,    \* storage_objects rows
    used,      \* user_quotas.storage_bytes_used
    stored,    \* objects in MinIO
    txn,       \* the record_job_objects transaction open on the row (past its quota check)
    request,   \* the POST /jobs request
    deleting,  \* how far each release of the run's storage is
    freed,     \* the ledger rows it has released but not committed
    stale,     \* those of them another release has committed since
    twice,     \* history: units refunded again for rows already gone
    pc,        \* the step JobWorkflow awaits
    ret,       \* the answer to that step, once there is one
    asked,     \* the database activities the workflow has called
    plan,      \* the input of its finish_job_run call
    withLlm,   \* what read_llm_settings answered
    cancelled, \* how the engine's cancellation reached it
    abandoned, \* stages with a worker attempt the engine gave up on
    gaveUp,    \* history: a database activity exhausted its retries
    lost,      \* history: objects deleted by a transaction before (or without) its commit
    perils     \* how many budgeted perils have happened

rowVars   == <<status, walled, resultOf, hooks>>
storeVars == <<ledger, used, stored, lost, txn>>
releaseVars == <<deleting, freed, stale, twice>>
apiVars   == <<request, deleting, freed, stale, twice>>
flowVars  == <<pc, ret, asked, plan, withLlm, cancelled>>
vars == <<rowVars, storeVars, apiVars, flowVars, abandoned, gaveUp, perils>>

Active   == {"pending", "running", "processing"}
Terminal == {"completed", "failed", "cancelled"}
Statuses == Active \cup Terminal \cup {"none", "gone"}

DbSteps == {"started", "settings", "chargeScrape", "processing", "chargeLlm",
            "finish", "refinish"}
Steps == DbSteps \cup {"none", "slot", "scrape", "llm", "done"}
Charge == [scrape |-> "chargeScrape", llm |-> "chargeLlm"]
Work == [scrape |-> "scrape", llm |-> "llm"]

Answers == Statuses \cup {"no answer", "ok", "error", "plain", "extract"}
Plans == [status : Terminal, result : Stages \cup {"none"}, discard : SUBSET Stages]

Objects(r, S) == {r} \X S

Init ==
    /\ status = [r \in Runs |-> "none"]
    /\ walled = [r \in Runs |-> "none"]
    /\ resultOf = [r \in Runs |-> "none"]
    /\ hooks = [r \in Runs |-> {}]
    /\ ledger = {} /\ used = 0 /\ stored = {} /\ lost = {}
    /\ txn = [r \in Runs |-> "none"]
    /\ request = [r \in Runs |-> "idle"]
    /\ deleting = [r \in Runs |-> [d \in Releases |-> "no"]]
    /\ freed = [r \in Runs |-> [d \in Releases |-> {}]]
    /\ stale = [r \in Runs |-> [d \in Releases |-> {}]]
    /\ twice = 0
    /\ pc = [r \in Runs |-> "none"]
    /\ ret = [r \in Runs |-> "no answer"]
    /\ asked = [r \in Runs |-> {}]
    /\ plan = [r \in Runs |-> [status |-> "failed", result |-> "none", discard |-> {}]]
    /\ withLlm = [r \in Runs |-> FALSE]
    /\ cancelled = [r \in Runs |-> "no"]
    /\ abandoned = [r \in Runs |-> {}]
    /\ gaveUp = [r \in Runs |-> FALSE]
    /\ perils = 0

(* A peril of kind k, taken from the budget. *)
Peril(k) ==
    /\ k \in Perils
    /\ perils < MaxPerils
    /\ perils' = perils + 1

-----------------------------------------------------------------------------
(* The API: create_job, its failed start, cancel_job. *)

Announce(r, e) == hooks' = [hooks EXCEPT ![r] = @ \cup ({e} \cap Subscribed)]

(* The row is committed before anything is dispatched.  admit() refuses a *)
(* user at the storage limit.                                              *)
CreateRun(r) ==
    /\ request[r] = "idle"
    /\ used < Limit
    /\ request' = [request EXCEPT ![r] = "committed"]
    /\ status' = [status EXCEPT ![r] = "pending"]
    /\ UNCHANGED <<walled, resultOf, hooks, storeVars, releaseVars, flowVars,
                   abandoned, gaveUp, perils>>

Call(r, step) ==
    /\ pc' = [pc EXCEPT ![r] = step]
    /\ ret' = [ret EXCEPT ![r] = "no answer"]
    /\ asked' = [asked EXCEPT ![r] = @ \cup ({step} \cap DbSteps)]

StartWorkflow(r) ==
    /\ request[r] = "committed"
    /\ request' = [request EXCEPT ![r] = "over"]
    /\ Call(r, "started")
    /\ UNCHANGED <<rowVars, storeVars, releaseVars, plan, withLlm, cancelled,
                   abandoned, gaveUp, perils>>

(* The schedule could not be armed or the engine refused the start. *)
StartRefused(r) ==
    /\ request[r] = "committed"
    /\ Peril("refuse")
    /\ request' = [request EXCEPT ![r] = "refused"]
    /\ UNCHANGED <<rowVars, storeVars, releaseVars, flowVars, abandoned, gaveUp>>

(* The engine started the workflow but the client saw an error. *)
StartAmbiguous(r) ==
    /\ request[r] = "committed"
    /\ Peril("ambiguous")
    /\ request' = [request EXCEPT ![r] = "refused"]
    /\ Call(r, "started")
    /\ UNCHANGED <<rowVars, storeVars, releaseVars, plan, withLlm, cancelled,
                   abandoned, gaveUp>>

(* fail_unstarted_run: an UPDATE by primary key that does not look at the *)
(* status; on a deleted row it raises and the request ends.                *)
FailUnstartedRun(r) ==
    /\ request[r] = "refused"
    /\ txn[r] = "none"
    /\ request' = [request EXCEPT ![r] = "over"]
    /\ IF status[r] = "gone"
         THEN UNCHANGED <<status, walled, hooks>>
         ELSE /\ status' = [status EXCEPT ![r] = "failed"]
              /\ walled' = [walled EXCEPT ![r] = "none"]
              /\ Announce(r, "job.failed")
    /\ UNCHANGED <<resultOf, storeVars, releaseVars, flowVars, abandoned, gaveUp, perils>>

(* The API process dies after the commit: nothing starts or fails the run. *)
ApiDies(r) ==
    /\ request[r] \in {"committed", "refused"}
    /\ Peril("api_crash")
    /\ request' = [request EXCEPT ![r] = "over"]
    /\ UNCHANGED <<rowVars, storeVars, releaseVars, flowVars, abandoned, gaveUp>>

(* cancel_active_runs: the status test is in the UPDATE itself. *)
CancelRun(r) ==
    /\ status[r] \in Active
    /\ txn[r] = "none"
    /\ status' = [status EXCEPT ![r] = "cancelled"]
    /\ UNCHANGED <<walled, resultOf, hooks, storeVars, apiVars, flowVars, abandoned,
                   gaveUp, perils>>

(* A release of the run's storage: the user's permanent delete, an         *)
(* administrator's, the deletion of the user, cleanup_old_runs.  First     *)
(* half: enumerate the ledger rows, delete their objects (those in kept    *)
(* could not be), release the rows.  No lock keeps two releases apart.     *)
BeginDelete(r, d) ==
    /\ "delete" \in Perils
    /\ status[r] \notin {"none", "gone"}
    /\ deleting[r][d] = "no"
    /\ LET rows == {s \in Stages : <<r, s>> \in ledger} IN
       \E kept \in SUBSET rows :
         /\ IF kept = {} THEN UNCHANGED perils ELSE Peril("minio")
         /\ deleting' = [deleting EXCEPT ![r][d] = IF kept = {} THEN "purge" ELSE "refuse"]
         /\ freed' = [freed EXCEPT ![r][d] = rows \ kept]
         /\ stored' = stored \ Objects(r, rows \ kept)
         /\ lost' = lost \cup Objects(r, rows \ kept)
    /\ UNCHANGED <<rowVars, ledger, used, txn, request, stale, twice, flowVars, abandoned,
                   gaveUp>>

(* Mutant of Refund: LEAST for GREATEST. *)
RefundLeast(n) == used' = IF used > n THEN 0 ELSE used - n

Refund(n) == used' = IF used > n THEN used - n ELSE 0

(* The release d commits: rows leave the ledger, and what d released is    *)
(* refunded, the rows another release has committed meanwhile included.    *)
Take(r, d, rows) ==
    /\ ledger' = ledger \ Objects(r, rows)
    /\ freed' = [freed EXCEPT ![r] =
                   [e \in Releases |-> IF e = d THEN {} ELSE @[e] \ rows]]
    /\ stale' = [stale EXCEPT ![r] =
                   [e \in Releases |-> IF e = d THEN {} ELSE @[e] \cup (freed[r][e] \cap rows)]]
    /\ Refund(Cardinality(freed[r][d]) + Cardinality(stale[r][d]))
    /\ twice' = twice + Cardinality(stale[r][d])
    /\ deleting' = [deleting EXCEPT ![r][d] = "no"]

(* Second half: every object went, so the job is deleted; the cascade      *)
(* takes the run, its deliveries and whatever ledger rows it has by now.   *)
CommitDelete(r, d) ==
    /\ deleting[r][d] = "purge"
    /\ txn[r] = "none"
    /\ Take(r, d, Stages)
    /\ status' = [status EXCEPT ![r] = "gone"]
    /\ hooks' = [hooks EXCEPT ![r] = {}]
    /\ UNCHANGED <<walled, resultOf, stored, lost, txn, request, flowVars, abandoned,
                   gaveUp, perils>>

(* Second half when an object stayed: what was freed stays freed, 503. *)
RefuseDelete(r, d) ==
    /\ deleting[r][d] = "refuse"
    /\ Take(r, d, freed[r][d])
    /\ UNCHANGED <<rowVars, stored, lost, txn, request, flowVars, abandoned, gaveUp, perils>>

(* The release rolls back: its objects are gone all the same.  A cleanup   *)
(* that kept an object and freed nothing ends so of itself.                *)
AbortDelete(r, d) ==
    /\ deleting[r][d] \in {"purge", "refuse"}
    /\ \/ Peril("abort")
       \/ deleting[r][d] = "refuse" /\ freed[r][d] = {} /\ UNCHANGED perils
    /\ deleting' = [deleting EXCEPT ![r][d] = "no"]
    /\ freed' = [freed EXCEPT ![r][d] = {}]
    /\ stale' = [stale EXCEPT ![r][d] = {}]
    /\ UNCHANGED <<rowVars, storeVars, request, twice, flowVars, abandoned, gaveUp>>

-----------------------------------------------------------------------------
(* The workers: activities/job_runs.py, each a transaction on the row. *)

(* An attempt at the call c may run: the workflow awaits it, or rerun. *)
Attempt(r, c) ==
    /\ c \in asked[r]
    /\ txn[r] = "none"
    /\ (pc[r] = c /\ ret[r] = "no answer") \/ "rerun" \in Perils

(* The engine takes the answer only if the workflow still awaits the call. *)
Answer(r, c, a) == ret' = IF pc[r] = c THEN [ret EXCEPT ![r] = a] ELSE ret

(* Mutant of Moved: the mirror does not test the state it moves from. *)
MovedAny(r, from, to) == IF status[r] \in Active THEN to ELSE status[r]

(* _move: the status after a mirror from -> to. *)
Moved(r, from, to) == IF status[r] = from THEN to ELSE status[r]

(* Mutant of Mirror: a retry that moves nothing answers "gone". *)
MirrorOnce(r, c, from, to) ==
    /\ Attempt(r, c)
    /\ status' = [status EXCEPT ![r] = Moved(r, from, to)]
    /\ Answer(r, c, IF status[r] = from THEN to ELSE "gone")
    /\ UNCHANGED <<walled, resultOf, hooks, storeVars, apiVars, pc, asked, plan, withLlm,
                   cancelled, abandoned, gaveUp, perils>>

Mirror(r, c, from, to) ==
    /\ Attempt(r, c)
    /\ status' = [status EXCEPT ![r] = Moved(r, from, to)]
    /\ Answer(r, c, Moved(r, from, to))
    /\ UNCHANGED <<walled, resultOf, hooks, storeVars, apiVars, pc, asked, plan, withLlm,
                   cancelled, abandoned, gaveUp, perils>>

JobRunStarted(r) == Mirror(r, "started", "pending", "running")
JobRunProcessing(r) == Mirror(r, "processing", "running", "processing")

(* The job's LLM step as it is now: none, one, or one whose key was        *)
(* deleted.  A read, without the row's lock.                               *)
ReadLlmSettings(r) ==
    /\ pc[r] = "settings" /\ ret[r] = "no answer"
    /\ \E a \in IF status[r] = "gone" THEN {"plain"} ELSE {"plain", "extract", "error"} :
         ret' = [ret EXCEPT ![r] = a]
    /\ UNCHANGED <<rowVars, storeVars, apiVars, pc, asked, plan, withLlm, cancelled,
                   abandoned, gaveUp, perils>>

(* Mutant of Unrecorded: the ledger is not consulted. *)
UnrecordedAny(r, S) == Objects(r, S)

(* discard_unrecorded: an object the ledger holds is charged and stays. *)
Unrecorded(r, S) == Objects(r, S) \ ledger

OverLimit == used + 1 > Limit

(* record_job_objects on a run no longer active: the objects are dropped. *)
RecordOnStoppedRun(r, s) ==
    /\ Attempt(r, Charge[s])
    /\ status[r] \notin Active
    /\ stored' = stored \ Unrecorded(r, {s})
    /\ Answer(r, Charge[s], status[r])
    /\ UNCHANGED <<rowVars, ledger, used, lost, txn, apiVars, pc, asked, plan, withLlm,
                   cancelled, abandoned, gaveUp, perils>>

(* Over the storage limit: the objects are deleted and the run fails, with *)
(* no webhook row.                                                         *)
RecordAtWall(r, s) ==
    /\ Attempt(r, Charge[s])
    /\ status[r] \in Active
    /\ OverLimit
    /\ stored' = stored \ Unrecorded(r, {s})
    /\ status' = [status EXCEPT ![r] = "failed"]
    /\ walled' = [walled EXCEPT ![r] = s]
    /\ Answer(r, Charge[s], "failed")
    /\ UNCHANGED <<resultOf, hooks, ledger, used, lost, txn, apiVars, pc, asked, plan,
                   withLlm, cancelled, abandoned, gaveUp, perils>>

(* The same, the worker or the database failing between the deletion and   *)
(* the commit.                                                             *)
RecordAtWallDies(r, s) ==
    /\ Attempt(r, Charge[s])
    /\ status[r] \in Active
    /\ OverLimit
    /\ Peril("wall_abort")
    /\ stored' = stored \ Unrecorded(r, {s})
    /\ lost' = lost \cup Unrecorded(r, {s})
    /\ UNCHANGED <<rowVars, ledger, used, txn, apiVars, flowVars, abandoned, gaveUp>>

(* Within the limit.  The check reads the counter without a lock on it, so *)
(* the other runs' charges may commit between the check and this commit.   *)
BeginCharge(r, s) ==
    /\ Attempt(r, Charge[s])
    /\ status[r] \in Active
    /\ ~OverLimit
    /\ txn' = [txn EXCEPT ![r] = s]
    /\ UNCHANGED <<rowVars, ledger, used, stored, lost, apiVars, flowVars, abandoned,
                   gaveUp, perils>>

(* record_object: charged only when the row is new. *)
CommitCharge(r) ==
    /\ txn[r] \in Stages
    /\ ledger' = ledger \cup {<<r, txn[r]>>}
    /\ used' = IF <<r, txn[r]>> \in ledger THEN used ELSE used + 1
    /\ txn' = [txn EXCEPT ![r] = "none"]
    /\ Answer(r, Charge[txn[r]], status[r])
    /\ UNCHANGED <<rowVars, stored, lost, apiVars, pc, asked, plan, withLlm, cancelled,
                   abandoned, gaveUp, perils>>

AbortCharge(r) ==
    /\ txn[r] \in Stages
    /\ Peril("abort")
    /\ txn' = [txn EXCEPT ![r] = "none"]
    /\ UNCHANGED <<rowVars, ledger, used, stored, lost, apiVars, flowVars, abandoned, gaveUp>>

(* Mutant of EventOf: failures write no row. *)
EventOfSuccess == [completed |-> "job.completed", failed |-> "no event", cancelled |-> "no event"]

EventOf == [completed |-> "job.completed", failed |-> "job.failed", cancelled |-> "no event"]

(* finish_job_run: discard, then move an active run to its outcome and     *)
(* write the webhook row with it.                                          *)
Finish(r, c, to) ==
    /\ Attempt(r, c)
    /\ stored' = stored \ Unrecorded(r, to.discard)
    /\ IF status[r] \in Active
         THEN /\ status' = [status EXCEPT ![r] = to.status]
              /\ resultOf' = [resultOf EXCEPT ![r] =
                                IF to.status = "completed" THEN to.result ELSE @]
              /\ Announce(r, EventOf[to.status])
              /\ Answer(r, c, to.status)
         ELSE /\ UNCHANGED <<status, resultOf, hooks>>
              /\ Answer(r, c, status[r])
    /\ UNCHANGED <<walled, ledger, used, lost, txn, apiVars, pc, asked, plan, withLlm,
                   cancelled, abandoned, gaveUp, perils>>

InternalError == [status |-> "failed", result |-> "none", discard |-> {}]

FinishJobRun(r) == Finish(r, "finish", plan[r]) \/ Finish(r, "refinish", InternalError)

(* The scrape and LLM workers.  An attempt that was timed out, or failed   *)
(* after an upload, is an abandoned one: its objects may appear any time.  *)
WorkDone(r, s) ==
    /\ pc[r] = Work[s] /\ ret[r] = "no answer"
    /\ stored' = stored \cup {<<r, s>>}
    /\ ret' = [ret EXCEPT ![r] = "ok"]
    /\ UNCHANGED <<rowVars, ledger, used, lost, txn, apiVars, pc, asked, plan, withLlm,
                   cancelled, abandoned, gaveUp, perils>>

WorkFails(r, s) ==
    /\ pc[r] = Work[s] /\ ret[r] = "no answer"
    /\ ret' = [ret EXCEPT ![r] = "error"]
    /\ UNCHANGED <<rowVars, storeVars, apiVars, pc, asked, plan, withLlm, cancelled,
                   abandoned, gaveUp, perils>>

AbandonAttempt(r, s) ==
    /\ pc[r] = Work[s] /\ ret[r] = "no answer"
    /\ s \notin abandoned[r]
    /\ Peril("abandon")
    /\ abandoned' = [abandoned EXCEPT ![r] = @ \cup {s}]
    /\ UNCHANGED <<rowVars, storeVars, apiVars, flowVars, gaveUp>>

AbandonedWrite(r, s) ==
    /\ s \in abandoned[r]
    /\ <<r, s>> \notin stored
    /\ stored' = stored \cup {<<r, s>>}
    /\ UNCHANGED <<rowVars, ledger, used, lost, txn, apiVars, flowVars, abandoned, gaveUp,
                   perils>>

-----------------------------------------------------------------------------
(* The workflow: JobWorkflow._run between two awaits. *)

CancelNoted(r) == cancelled[r] = "noted"

(* Awaiting the call c with its answer at hand. *)
Has(r, c) == pc[r] = c /\ ret[r] # "no answer"

FlowOnly == UNCHANGED <<rowVars, storeVars, apiVars, abandoned, gaveUp, perils>>
SameChoices == UNCHANGED <<withLlm, cancelled>>

Goto(r, step) == Call(r, step) /\ UNCHANGED plan

End(r) == Goto(r, "done")

(* Mutant of AskFinish: the discard list is left out. *)
AskFinishKeeping(r, st, res, drop) ==
    /\ Call(r, "finish")
    /\ plan' = [plan EXCEPT ![r] = [status |-> st, result |-> res, discard |-> {}]]

AskFinish(r, st, res, drop) ==
    /\ Call(r, "finish")
    /\ plan' = [plan EXCEPT ![r] = [status |-> st, result |-> res, discard |-> drop]]

AfterStarted(r) ==
    /\ Has(r, "started")
    /\ \/ ret[r] # "running" /\ End(r)
       \/ ret[r] = "running" /\ CancelNoted(r) /\ AskFinish(r, "cancelled", "none", {})
       \/ ret[r] = "running" /\ ~CancelNoted(r) /\ Goto(r, "slot")
    /\ SameChoices /\ FlowOnly

(* A slot, a limiter that failed open, or a wait past its cap. *)
HostSlotTaken(r) ==
    /\ pc[r] = "slot"
    /\ Goto(r, "scrape")
    /\ SameChoices /\ FlowOnly

AfterScrape(r) ==
    /\ Has(r, "scrape")
    /\ \/ ret[r] = "error" /\ AskFinish(r, "failed", "none", {})
       \/ ret[r] = "ok" /\ CancelNoted(r) /\ AskFinish(r, "cancelled", "none", {"scrape"})
       \/ ret[r] = "ok" /\ ~CancelNoted(r) /\ Goto(r, "settings")
    /\ SameChoices /\ FlowOnly

AfterSettings(r) ==
    /\ Has(r, "settings")
    /\ \/ ret[r] = "error" /\ AskFinish(r, "failed", "none", {"scrape"})
       \/ ret[r] # "error" /\ Goto(r, "chargeScrape")
    /\ withLlm' = [withLlm EXCEPT ![r] = ret[r] = "extract"]
    /\ UNCHANGED cancelled /\ FlowOnly

AfterChargeScrape(r) ==
    /\ Has(r, "chargeScrape")
    /\ \/ ret[r] # "running" /\ End(r)
       \/ ret[r] = "running" /\ ~withLlm[r] /\ AskFinish(r, "completed", "scrape", {})
       \/ ret[r] = "running" /\ withLlm[r] /\ CancelNoted(r)
            /\ AskFinish(r, "cancelled", "none", {})
       \/ ret[r] = "running" /\ withLlm[r] /\ ~CancelNoted(r) /\ Goto(r, "processing")
    /\ SameChoices /\ FlowOnly

AfterProcessing(r) ==
    /\ Has(r, "processing")
    /\ \/ ret[r] # "processing" /\ End(r)
       \/ ret[r] = "processing" /\ Goto(r, "llm")
    /\ SameChoices /\ FlowOnly

(* Mutant of AfterLlm: completes without recording the extraction. *)
AfterLlmUncharged(r) ==
    /\ Has(r, "llm")
    /\ \/ ret[r] = "error" /\ AskFinish(r, "failed", "none", {})
       \/ ret[r] = "ok" /\ CancelNoted(r) /\ AskFinish(r, "cancelled", "none", {"llm"})
       \/ ret[r] = "ok" /\ ~CancelNoted(r) /\ AskFinish(r, "completed", "llm", {})
    /\ SameChoices /\ FlowOnly

AfterLlm(r) ==
    /\ Has(r, "llm")
    /\ \/ ret[r] = "error" /\ AskFinish(r, "failed", "none", {})
       \/ ret[r] = "ok" /\ CancelNoted(r) /\ AskFinish(r, "cancelled", "none", {"llm"})
       \/ ret[r] = "ok" /\ ~CancelNoted(r) /\ Goto(r, "chargeLlm")
    /\ SameChoices /\ FlowOnly

AfterChargeLlm(r) ==
    /\ Has(r, "chargeLlm")
    /\ \/ ret[r] # "processing" /\ End(r)
       \/ ret[r] = "processing" /\ AskFinish(r, "completed", "llm", {})
    /\ SameChoices /\ FlowOnly

AfterFinish(r) ==
    /\ Has(r, "finish") \/ Has(r, "refinish")
    /\ End(r)
    /\ SameChoices /\ FlowOnly

(* A database activity's schedule-to-close window passes.  _record fails   *)
(* the run; any other ActivityError reaches run(), which fails it without  *)
(* a discard; one raised before the try, or by that last call, ends the    *)
(* workflow.                                                               *)
GiveUp(r) ==
    /\ pc[r] \in DbSteps
    /\ Peril("outage")
    /\ gaveUp' = [gaveUp EXCEPT ![r] = TRUE]
    /\ \/ pc[r] \in {"started", "refinish"} /\ End(r)
       \/ pc[r] \in {"settings", "processing", "finish"} /\ Goto(r, "refinish")
       \/ \E s \in Stages : pc[r] = Charge[s] /\ AskFinish(r, "failed", "none", {s})
    /\ UNCHANGED <<rowVars, storeVars, apiVars, withLlm, cancelled, abandoned>>

(* The engine's cancellation, sent by the API after the row or by an       *)
(* operator.  _finish notes it and lets the step end ...                   *)
CancelNotedByStep(r) ==
    /\ pc[r] \notin {"none", "slot", "done"}
    /\ cancelled[r] = "no"
    /\ cancelled' = [cancelled EXCEPT ![r] = "noted"]
    /\ UNCHANGED <<pc, ret, asked, plan, withLlm>> /\ FlowOnly

(* ... the wait for a host slot is the one place it interrupts ...         *)
CancelDuringSlotWait(r) ==
    /\ pc[r] = "slot"
    /\ cancelled[r] = "no"
    /\ cancelled' = [cancelled EXCEPT ![r] = "noted"]
    /\ AskFinish(r, "cancelled", "none", {})
    /\ UNCHANGED withLlm /\ FlowOnly

(* ... and when it comes with the step's own result, _finish re-raises it  *)
(* unnoted: _run turns it into a cancel around the scrape ("nothing was    *)
(* scraped"), elsewhere it ends the workflow.                              *)
CancelWithResult(r) ==
    /\ cancelled[r] = "no"
    /\ pc[r] \in DbSteps \cup {"scrape", "llm"}
    /\ ret[r] # "no answer"
    /\ Peril("coincide")
    /\ cancelled' = [cancelled EXCEPT ![r] = "escaped"]
    /\ IF pc[r] = "scrape" THEN AskFinish(r, "cancelled", "none", {}) ELSE End(r)
    /\ UNCHANGED <<rowVars, storeVars, apiVars, withLlm, abandoned, gaveUp>>

-----------------------------------------------------------------------------
Request(r) == StartWorkflow(r) \/ FailUnstartedRun(r)

Delete(r) == \E d \in Releases : CommitDelete(r, d) \/ RefuseDelete(r, d)

Worker(r) ==
    \/ JobRunStarted(r) \/ JobRunProcessing(r) \/ ReadLlmSettings(r)
    \/ FinishJobRun(r) \/ CommitCharge(r)
    \/ \E s \in Stages : \/ RecordOnStoppedRun(r, s) \/ RecordAtWall(r, s)
                         \/ BeginCharge(r, s) \/ WorkDone(r, s) \/ WorkFails(r, s)

Workflow(r) ==
    \/ AfterStarted(r) \/ HostSlotTaken(r) \/ AfterScrape(r) \/ AfterSettings(r)
    \/ AfterChargeScrape(r) \/ AfterProcessing(r) \/ AfterLlm(r) \/ AfterChargeLlm(r)
    \/ AfterFinish(r)

Environment(r) ==
    \/ CreateRun(r) \/ StartRefused(r) \/ StartAmbiguous(r) \/ ApiDies(r)
    \/ CancelRun(r) \/ AbortCharge(r)
    \/ GiveUp(r) \/ CancelNotedByStep(r) \/ CancelDuringSlotWait(r) \/ CancelWithResult(r)
    \/ \E s \in Stages : \/ RecordAtWallDies(r, s) \/ AbandonAttempt(r, s)
                         \/ AbandonedWrite(r, s)
    \/ \E d \in Releases : BeginDelete(r, d) \/ AbortDelete(r, d)

Next == \E r \in Runs : Request(r) \/ Delete(r) \/ Worker(r) \/ Workflow(r) \/ Environment(r)

Spec == Init /\ [][Next]_vars

(* An answer to the awaited call, or the charge it opens. *)
Serve(r) ==
    \/ Worker(r) /\ ret'[r] # ret[r]
    \/ ret[r] = "no answer" /\ \E s \in Stages : pc[r] = Charge[s] /\ BeginCharge(r, s)

(* Requests run to their end, workers are up, the engine dispatches steps. *)
(* Attempts wait for the row lock in Postgres's queue, hence the strong    *)
(* fairness.  Nothing the environment does is fair.                        *)
Fairness ==
    \A r \in Runs : /\ SF_vars(Request(r)) /\ SF_vars(Delete(r)) /\ SF_vars(Serve(r))
                    /\ WF_vars(CommitCharge(r)) /\ WF_vars(Workflow(r))

FairSpec == Spec /\ Fairness

-----------------------------------------------------------------------------
(* Properties *)

RowTypes ==
    /\ status \in [Runs -> Statuses]
    /\ walled \in [Runs -> Stages \cup {"none"}]
    /\ resultOf \in [Runs -> Stages \cup {"none"}]
    /\ hooks \in [Runs -> SUBSET Events]

StoreTypes ==
    /\ ledger \in SUBSET (Runs \X Stages)
    /\ used \in Nat
    /\ stored \in SUBSET (Runs \X Stages)
    /\ lost \in SUBSET (Runs \X Stages)
    /\ txn \in [Runs -> Stages \cup {"none"}]

ApiTypes ==
    /\ request \in [Runs -> {"idle", "committed", "refused", "over"}]
    /\ deleting \in [Runs -> [Releases -> {"no", "purge", "refuse"}]]
    /\ freed \in [Runs -> [Releases -> SUBSET Stages]]
    /\ stale \in [Runs -> [Releases -> SUBSET Stages]]
    /\ twice \in Nat

FlowTypes ==
    /\ pc \in [Runs -> Steps]
    /\ ret \in [Runs -> Answers]
    /\ asked \in [Runs -> SUBSET DbSteps]
    /\ plan \in [Runs -> Plans]
    /\ withLlm \in [Runs -> BOOLEAN]
    /\ cancelled \in [Runs -> {"no", "noted", "escaped"}]

TypeOK ==
    /\ RowTypes /\ StoreTypes /\ ApiTypes /\ FlowTypes
    /\ abandoned \in [Runs -> SUBSET Stages]
    /\ gaveUp \in [Runs -> BOOLEAN]
    /\ perils \in Nat

(* A completed run's result is charged to its owner, whatever answers were *)
(* lost, retried or late on the way: no result is handed out for free.     *)
(* A permanent delete that could not finish is the one way to lose the row. *)
CompletedIsCharged ==
    \A r \in Runs : status[r] = "completed" =>
        /\ resultOf[r] # "none"
        /\ <<r, resultOf[r]>> \in ledger \cup lost

(* A ledger row stands for an object that exists: discard_unrecorded never *)
(* deletes a charged object, however a retry, a cancel and a charge cross. *)
(* The exception is an object deleted by a transaction that did not commit.*)
ChargedIsStored == ledger \subseteq stored \cup lost

(* storage_bytes_used is behind the rows by no more than what releases     *)
(* that overlapped have refunded twice: no other crossing of charges,      *)
(* retries, refunds and cascades lets a user hold uncounted bytes.         *)
CounterCoversLedger == used + twice >= Cardinality(ledger)

(* As long as nothing is permanently deleted the counter is exactly the    *)
(* sum of the rows, retried charges included (ledger.py's claim).          *)
CounterIsSum == used = Cardinality(ledger)

(* Webhook rows and outcomes commit together: a completed run, and a run   *)
(* failed otherwise than by the storage wall, has its delivery row.        *)
OutcomeAnnounced ==
    \A r \in Runs :
        /\ status[r] = "completed" => Subscribed \cap {"job.completed"} \subseteq hooks[r]
        /\ status[r] = "failed" /\ walled[r] = "none" =>
              Subscribed \cap {"job.failed"} \subseteq hooks[r]

(* A workflow that has ended has stopped its run, so the run's quota slot  *)
(* is free: unless the database was down past a call's retries, or a       *)
(* cancellation escaped with a step's result.                              *)
EndedRunIsStopped ==
    \A r \in Runs : pc[r] = "done" /\ status[r] \in Active =>
        gaveUp[r] \/ cancelled[r] = "escaped"

(* An ended run leaves no uncharged object behind on any of its paths      *)
(* (completed, cancelled, failed, walled): its discards are complete,      *)
(* unless a step was given up on or a worker attempt abandoned.            *)
NoOrphans ==
    \A r \in Runs :
        /\ pc[r] = "done" /\ txn[r] = "none" /\ status[r] # "gone"
        /\ \A d \in Releases : deleting[r][d] = "no"
        /\ ~gaveUp[r] /\ cancelled[r] # "escaped" /\ abandoned[r] = {}
        => \A s \in Stages : <<r, s>> \in stored => <<r, s>> \in ledger

(* The client's contract. *)
Contract == INSTANCE JobRunContract
ContractHolds == Contract!Spec

(* Every run the API accepts ends and gives its slot back, whatever is     *)
(* retried, refused, aborted, abandoned or deleted on the way.  What keeps *)
(* a slot for good is a database down past a call's retries, an API that   *)
(* died before its start, and a cancel that escaped with a step's result.  *)
RunEnds ==
    \A r \in Runs :
        status[r] \in Active ~>
            \/ status[r] \notin Active
            \/ gaveUp[r]
            \/ cancelled[r] = "escaped"
            \/ request[r] = "over" /\ pc[r] = "none"
=============================================================================
