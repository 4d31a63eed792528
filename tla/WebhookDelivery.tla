--------------------------- MODULE WebhookDelivery ---------------------------
(***************************************************************************)
(* Webhook deliveries: one webhook_deliveries row per event, delivered by  *)
(* one workflow per row.  The row holds what is owed (status, attempt      *)
(* count, time of the next attempt); the workflow calls an activity for    *)
(* each attempt and sleeps in between; a sweep Schedule starts a workflow  *)
(* for any pending row overdue; an administrator may re-arm a row.         *)
(*                                                                         *)
(* An attempt locks the row, POSTs while it holds the lock, and commits.   *)
(* It may die before its commit, its answer may be lost after it, and the  *)
(* engine may time it out (and call it again) while it is still running.   *)
(*                                                                         *)
(* Time is relative: every row has the time left until it is due, every    *)
(* workflow the time left to sleep, and Tick moves all of them together.   *)
(***************************************************************************)
EXTENDS Integers, FiniteSets

CONSTANTS
    Rows,         \* delivery ids
    MaxAttempts,  \* webhook_max_attempts
    Backoff,      \* BACKOFF_SECONDS, by attempts made, in ticks
    Grace,        \* SWEEP_GRACE, in ticks
    SweepBatch,   \* SWEEP_BATCH
    MaxPerils     \* how many perils (see Peril) may befall each row (a bound)

Attempts == 0 .. MaxAttempts

ASSUME AttemptsAssumption == MaxAttempts \in Nat \ {0} /\ MaxPerils \in [Rows -> Nat]
ASSUME BackoffAssumption == Backoff \in [Attempts -> Nat]
ASSUME SweepAssumption == Grace \in Nat /\ SweepBatch \in Nat \ {0}

VARIABLES
    status,    \* the row: "none", "pending", "delivered", "exhausted", "gone" (deleted)
    attempts,  \* its attempt count
    due,       \* ticks until its next_attempt_at (negative: past)
    start,     \* whether its writer still owes it an immediate start
    flow,      \* its workflow: "none" (never started, or closed), "asking", "asleep"
    nap,       \* ticks left of the sleep
    poster,    \* the attempt holding the row's lock: "none", "awaited", "stray"
    found,     \* ids a sweep has read and not yet started
    loaded,    \* the row as an administrator's retry has loaded it
    accepted,  \* history: POSTs the receiver accepted
    unrecorded,\* history: acceptances whose commit was lost
    rearmed,   \* history: retries by hand
    blocked,   \* history: the SSRF check refused the URL
    perils     \* how many perils have befallen the row

rowVars  == <<status, attempts, due>>
flowVars == <<flow, nap>>
history  == <<accepted, unrecorded, rearmed, blocked>>
vars == <<rowVars, start, flowVars, poster, found, loaded, history, perils>>

NotLoaded == [status |-> "none", attempts |-> 0]

Init ==
    /\ status = [d \in Rows |-> "none"]
    /\ attempts = [d \in Rows |-> 0]
    /\ due = [d \in Rows |-> 0]
    /\ start = [d \in Rows |-> FALSE]
    /\ flow = [d \in Rows |-> "none"]
    /\ nap = [d \in Rows |-> 0]
    /\ poster = [d \in Rows |-> "none"]
    /\ found = {}
    /\ loaded = [d \in Rows |-> NotLoaded]
    /\ accepted = [d \in Rows |-> 0]
    /\ unrecorded = [d \in Rows |-> 0]
    /\ rearmed = [d \in Rows |-> 0]
    /\ blocked = [d \in Rows |-> FALSE]
    /\ perils = [d \in Rows |-> 0]

(* One of the budgeted perils: a start, an answer or a commit lost, a      *)
(* timeout, a sweep that fails, a retry by hand, a deletion.               *)
Peril(d) ==
    /\ perils[d] < MaxPerils[d]
    /\ perils' = [perils EXCEPT ![d] = @ + 1]

Unlocked(d) == poster[d] = "none"

-----------------------------------------------------------------------------
(* The row's writer: the transaction that ends a run, batch or crawl. *)

WriteRow(d) ==
    /\ status[d] = "none"
    /\ status' = [status EXCEPT ![d] = "pending"]
    /\ start' = [start EXCEPT ![d] = TRUE]
    /\ UNCHANGED <<attempts, due, flowVars, poster, found, loaded, history, perils>>

(* A start for the row's workflow id: one that runs is left as it is, a    *)
(* closed one does not block it.                                           *)
Started(d) == flow' = [flow EXCEPT ![d] = IF @ = "none" THEN "asking" ELSE @]

StartPending(d) ==
    /\ start[d]
    /\ start' = [start EXCEPT ![d] = FALSE]
    /\ IF status[d] = "pending" THEN Started(d) ELSE UNCHANGED flow
    /\ UNCHANGED <<rowVars, nap, poster, found, loaded, history, perils>>

StartLost(d) ==
    /\ start[d]
    /\ Peril(d)
    /\ start' = [start EXCEPT ![d] = FALSE]
    /\ UNCHANGED <<rowVars, flowVars, poster, found, loaded, history>>

(* The cascade from the job, batch or crawl the row belongs to. *)
DeleteRow(d) ==
    /\ status[d] \in {"pending", "delivered", "exhausted"}
    /\ Unlocked(d)
    /\ Peril(d)
    /\ status' = [status EXCEPT ![d] = "gone"]
    /\ UNCHANGED <<attempts, due, start, flowVars, poster, found, loaded, history>>

-----------------------------------------------------------------------------
(* attempt_webhook_delivery *)

(* The workflow's answer to an outcome: wait, or end. *)
Answered(d, retryIn) ==
    /\ flow' = [flow EXCEPT ![d] = IF status'[d] = "pending" THEN "asleep" ELSE "none"]
    /\ nap' = [nap EXCEPT ![d] = IF status'[d] = "pending" THEN retryIn ELSE 0]

(* Mutant of Attemptable: the locked row's status is not checked. *)
AttemptableAny(d) == status[d] # "gone"

Attemptable(d) == status[d] = "pending"

(* The row is gone, or no longer pending: the delivery ends. *)
AttemptGone(d) ==
    /\ flow[d] = "asking" /\ Unlocked(d)
    /\ ~Attemptable(d)
    /\ flow' = [flow EXCEPT ![d] = "none"]
    /\ UNCHANGED <<rowVars, start, nap, poster, found, loaded, history, perils>>

(* The SSRF check refuses the URL: final, and not counted as an attempt. *)
AttemptBlocked(d) ==
    /\ flow[d] = "asking" /\ Unlocked(d)
    /\ Attemptable(d)
    /\ Peril(d)
    /\ status' = [status EXCEPT ![d] = "exhausted"]
    /\ blocked' = [blocked EXCEPT ![d] = TRUE]
    /\ flow' = [flow EXCEPT ![d] = "none"]
    /\ UNCHANGED <<attempts, due, start, nap, poster, found, loaded, accepted, unrecorded, rearmed>>

(* The lock is taken, and the POST goes out. *)
BeginAttempt(d) ==
    /\ flow[d] = "asking" /\ Unlocked(d)
    /\ Attemptable(d)
    /\ poster' = [poster EXCEPT ![d] = "awaited"]
    /\ UNCHANGED <<rowVars, start, flowVars, found, loaded, history, perils>>

(* Mutant of Spent: gives up one attempt early. *)
SpentEarly(n) == n + 1 >= MaxAttempts

Spent(n) == n >= MaxAttempts

(* _apply_backoff's delay after the n-th attempt. *)
Wait(n) == Backoff[n]

(* The attempt's transaction on the row, the receiver's answer in hand. *)
CommitAttempt(d, ok) ==
    /\ poster[d] # "none"
    /\ poster' = [poster EXCEPT ![d] = "none"]
    /\ attempts' = [attempts EXCEPT ![d] = @ + 1]
    /\ status' = [status EXCEPT ![d] =
                    IF ok THEN "delivered"
                    ELSE IF Spent(attempts[d] + 1) THEN "exhausted" ELSE @]
    /\ due' = [due EXCEPT ![d] = IF status'[d] = "pending" THEN Wait(attempts[d] + 1) ELSE @]
    /\ accepted' = [accepted EXCEPT ![d] = IF ok THEN @ + 1 ELSE @]

(* Mutant of RetryIn: the wait is read before the backoff is applied. *)
RetryInStale(d) == IF due[d] > 0 THEN due[d] ELSE 0

(* retry_in_seconds *)
RetryIn(d) == IF due'[d] > 0 THEN due'[d] ELSE 0

EndAttempt(d, ok) ==
    /\ poster[d] = "awaited"
    /\ CommitAttempt(d, ok)
    /\ Answered(d, RetryIn(d))
    /\ UNCHANGED <<start, found, loaded, unrecorded, rearmed, blocked, perils>>

(* The commit stands, its answer is lost: the engine calls again at once. *)
EndAttemptUnheard(d, ok) ==
    /\ poster[d] = "awaited"
    /\ Peril(d)
    /\ CommitAttempt(d, ok)
    /\ UNCHANGED <<start, flowVars, found, loaded, unrecorded, rearmed, blocked>>

(* An attempt the engine no longer waits for runs to its end all the same. *)
EndStrayAttempt(d, ok) ==
    /\ poster[d] = "stray"
    /\ CommitAttempt(d, ok)
    /\ UNCHANGED <<start, flowVars, found, loaded, unrecorded, rearmed, blocked, perils>>

(* The worker or the database fails before the commit, after the POST. *)
AttemptDies(d, ok) ==
    /\ poster[d] # "none"
    /\ Peril(d)
    /\ poster' = [poster EXCEPT ![d] = "none"]
    /\ accepted' = [accepted EXCEPT ![d] = IF ok THEN @ + 1 ELSE @]
    /\ unrecorded' = [unrecorded EXCEPT ![d] = IF ok THEN @ + 1 ELSE @]
    /\ UNCHANGED <<rowVars, start, flowVars, found, loaded, rearmed, blocked>>

(* start_to_close passes: the engine calls again, the attempt runs on. *)
AttemptTimesOut(d) ==
    /\ poster[d] = "awaited"
    /\ Peril(d)
    /\ poster' = [poster EXCEPT ![d] = "stray"]
    /\ UNCHANGED <<rowVars, start, flowVars, found, loaded, history>>

(* schedule_to_close passes: the workflow fails, the row stays pending. *)
WindowPasses(d) ==
    /\ flow[d] = "asking"
    /\ Peril(d)
    /\ flow' = [flow EXCEPT ![d] = "none"]
    /\ poster' = [poster EXCEPT ![d] = IF @ = "awaited" THEN "stray" ELSE @]
    /\ UNCHANGED <<rowVars, start, nap, found, loaded, history>>

Wake(d) ==
    /\ flow[d] = "asleep" /\ nap[d] = 0
    /\ flow' = [flow EXCEPT ![d] = "asking"]
    /\ UNCHANGED <<rowVars, start, nap, poster, found, loaded, history, perils>>

-----------------------------------------------------------------------------
(* The sweep, the administrator and the clock. *)

(* Mutant of Overdue: only rows never attempted. *)
OverdueFirst(d) == status[d] = "pending" /\ due[d] < -Grace /\ attempts[d] = 0

Overdue(d) == status[d] = "pending" /\ due[d] < -Grace

(* sweep_pending_webhooks reads at most a batch, the longest due first ... *)
SweepReads ==
    /\ found = {}
    /\ LET overdue == {d \in Rows : Overdue(d)} IN
       \E batch \in SUBSET overdue :
         /\ batch # {}
         /\ Cardinality(batch) <= SweepBatch
         /\ batch # overdue => Cardinality(batch) = SweepBatch
         /\ \A d \in batch, e \in overdue \ batch : due[d] <= due[e]
         /\ found' = batch
    /\ UNCHANGED <<rowVars, start, flowVars, poster, loaded, history, perils>>

(* ... and starts them one by one, whatever they have become ... *)
SweepStarts(d) ==
    /\ d \in found
    /\ found' = found \ {d}
    /\ Started(d)
    /\ UNCHANGED <<rowVars, start, nap, poster, loaded, history, perils>>

(* ... until a start fails: the rest waits for the next sweep. *)
SweepFails(d) ==
    /\ d \in found
    /\ Peril(d)
    /\ found' = {}
    /\ UNCHANGED <<rowVars, start, flowVars, poster, loaded, history>>

RetryLoads(d) ==
    /\ status[d] \in {"pending", "delivered", "exhausted"}
    /\ loaded[d] = NotLoaded
    /\ Peril(d)
    /\ loaded' = [loaded EXCEPT ![d] = [status |-> status[d], attempts |-> attempts[d]]]
    /\ UNCHANGED <<rowVars, start, flowVars, poster, found, history>>

(* The update names only the columns that differ from the row as loaded;   *)
(* on a deleted row it fails.  The start that follows is best effort.      *)
RetryWrites(d) ==
    /\ loaded[d] # NotLoaded
    /\ Unlocked(d)
    /\ loaded' = [loaded EXCEPT ![d] = NotLoaded]
    /\ IF status[d] = "gone"
         THEN UNCHANGED <<rowVars, start, rearmed>>
         ELSE /\ status' = [status EXCEPT ![d] =
                              IF loaded[d].status = "pending" THEN @ ELSE "pending"]
              /\ attempts' = [attempts EXCEPT ![d] = IF loaded[d].attempts = 0 THEN @ ELSE 0]
              /\ due' = [due EXCEPT ![d] = 0]
              /\ start' = [start EXCEPT ![d] = TRUE]
              /\ rearmed' = [rearmed EXCEPT ![d] = @ + 1]
    /\ UNCHANGED <<flowVars, poster, found, accepted, unrecorded, blocked, perils>>

(* Nothing is told apart beyond one tick past the grace. *)
Tick ==
    /\ \E d \in Rows : due[d] >= -Grace \/ nap[d] > 0
    /\ due' = [d \in Rows |-> IF due[d] >= -Grace THEN due[d] - 1 ELSE due[d]]
    /\ nap' = [d \in Rows |-> IF nap[d] > 0 THEN nap[d] - 1 ELSE 0]
    /\ UNCHANGED <<status, attempts, start, flow, poster, found, loaded, history, perils>>

-----------------------------------------------------------------------------
Attempt(d) ==
    \/ AttemptGone(d) \/ BeginAttempt(d)
    \/ \E ok \in BOOLEAN : EndAttempt(d, ok) \/ EndStrayAttempt(d, ok)

Sweep == SweepReads \/ \E d \in Rows : SweepStarts(d)

Environment(d) ==
    \/ WriteRow(d) \/ StartLost(d) \/ DeleteRow(d) \/ AttemptBlocked(d)
    \/ AttemptTimesOut(d) \/ WindowPasses(d) \/ SweepFails(d) \/ RetryLoads(d)
    \/ \E ok \in BOOLEAN : EndAttemptUnheard(d, ok) \/ AttemptDies(d, ok)

Next ==
    \/ Tick \/ Sweep
    \/ \E d \in Rows :
         Attempt(d) \/ Wake(d) \/ StartPending(d) \/ RetryWrites(d) \/ Environment(d)

Spec == Init /\ [][Next]_vars

(* Workers are up, timers fire, the sweep's Schedule keeps firing and time *)
(* passes.  The receiver may refuse for ever.                              *)
Fairness ==
    /\ WF_vars(Tick) /\ WF_vars(Sweep)
    /\ \A d \in Rows : WF_vars(Attempt(d)) /\ WF_vars(Wake(d))

FairSpec == Spec /\ Fairness

-----------------------------------------------------------------------------
(* Properties *)

TypeOK ==
    /\ status \in [Rows -> {"none", "pending", "delivered", "exhausted", "gone"}]
    /\ attempts \in [Rows -> Attempts]
    /\ due \in [Rows -> Int]
    /\ start \in [Rows -> BOOLEAN]
    /\ flow \in [Rows -> {"none", "asking", "asleep"}]
    /\ nap \in [Rows -> Nat]
    /\ poster \in [Rows -> {"none", "awaited", "stray"}]
    /\ found \subseteq Rows
    /\ loaded \in [Rows -> [status : {"none", "pending", "delivered", "exhausted"},
                            attempts : Attempts]]
    /\ accepted \in [Rows -> Nat]
    /\ unrecorded \in [Rows -> Nat]
    /\ rearmed \in [Rows -> Nat]
    /\ blocked \in [Rows -> BOOLEAN]
    /\ perils \in [Rows -> Nat]

(* A receiver that accepted an event is not sent it again, by a retried    *)
(* attempt, a stray one or a second workflow, unless the acceptance was    *)
(* never committed or an administrator asked for it.                       *)
AcceptedOnce == \A d \in Rows : accepted[d] <= 1 + unrecorded[d] + rearmed[d]

(* A row is given up only when its attempts are spent, and is delivered    *)
(* only if the receiver took it: no crossing of attempts ends it early.    *)
(* A retry by hand that loaded the row before it ended resets the count of *)
(* a row it does not re-arm.                                               *)
OutcomeEarned ==
    \A d \in Rows :
        /\ status[d] = "delivered" => accepted[d] > 0
        /\ status[d] = "exhausted" /\ rearmed[d] = 0 => blocked[d] \/ attempts[d] = MaxAttempts

(* A delivery does not sleep past its row's next attempt: the workflow's   *)
(* timer and next_attempt_at agree, unless the row was re-armed by hand.   *)
SleepMatchesRow ==
    \A d \in Rows :
        flow[d] = "asleep" /\ status[d] = "pending" /\ rearmed[d] = 0 =>
            nap[d] = IF due[d] > 0 THEN due[d] ELSE 0

(* A delivered row is not reopened by a late or repeated attempt: only a   *)
(* retry by hand, or its deletion, changes it.                             *)
DeliveredIsFinal ==
    [][\A d \in Rows :
        status[d] = "delivered" /\ status'[d] # "delivered" =>
            status'[d] = "gone" \/ loaded[d].status \in {"delivered", "exhausted"}]_vars

(* Every row written is delivered, given up or deleted, whatever start,    *)
(* answer, workflow or sweep is lost: "the row, not the start, is what     *)
(* guarantees delivery" (core/webhook_delivery.py).                        *)
PendingEnds == \A d \in Rows : status[d] = "pending" ~> status[d] # "pending"

=============================================================================
