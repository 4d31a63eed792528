------------------------------- MODULE Schedule -------------------------------
(***************************************************************************)
(* Recurring jobs of one user: the jobs rows the API edits, the engine's   *)
(* Schedules that should follow them, the ticks those fire and the         *)
(* admission of each tick against the user's meters.                       *)
(*                                                                         *)
(* A request reads a row, commits what it changed of it and then tells the *)
(* engine; a transaction that admits or arms holds the user's lock, so it  *)
(* is one step.  An admission reads the job before it waits for that lock. *)
(* The meters count rows (quota_run_units, quota_active_submissions), so   *)
(* what is deleted with a job is counted no more.  Ticks and requests are  *)
(* bounded; the month does not end.                                        *)
(***************************************************************************)
EXTENDS Naturals, FiniteSets

CONSTANTS
    Jobs,        \* jobs of the user
    Old,         \* those whose schedule v1's deleted loop armed
    Cap,         \* scheduled_jobs_limit
    Concurrent,  \* concurrent_jobs_limit
    Monthly,     \* monthly_runs_limit
    Crawls,      \* names for the crawls that run at once
    Ticks,       \* ticks of a behaviour, 1..n (a bound)
    MaxAsks,     \* asks of a tick before WAIT_CAP (scaled)
    MaxRequests, \* requests and migrations of a behaviour (a bound)
    Perils,      \* which of PerilKinds may happen
    MaxPerils    \* how many of them a behaviour may have (a bound)

PerilKinds == {"lost", "outage", "refuse", "ambiguous", "api_crash", "full"}

ASSUME LimitsAssumption ==
    {Cap, Concurrent, Monthly, MaxAsks, MaxRequests, MaxPerils} \subseteq Nat
ASSUME SetsAssumption ==
    /\ Old \subseteq Jobs /\ Cardinality(Old) <= Cap
    /\ Perils \subseteq PerilKinds /\ IsFiniteSet(Jobs) /\ IsFiniteSet(Ticks)
    /\ IsFiniteSet(Crawls)

VARIABLES
    row,      \* jobs.schedule_status, schedule_cron (0: NULL), schedule_lane
    clock,    \* the engine's Schedule of each job: its cron (0: none), paused
    request,  \* the POSTs, PATCHes and DELETEs in flight, in the order they came
    made,     \* how many of these there have been
    mover,    \* scripts.migrate_schedule: what it is doing
    listed,   \* v1 schedules it has listed and not come to
    tick,     \* the ticks' workflows
    loose,    \* ticks still open when their Schedule was deleted
    run,      \* the job_runs row of each tick
    first,    \* the run a POST makes with its job
    others,   \* active submissions that are one run or batch and no job's above
    crawling, \* the crawls queued or running
    left,     \* the pages each may still claim
    pages,    \* crawl_pages rows
    pipes,    \* pipeline runs that are running
    blocks,   \* those with a running block
    units,    \* rows of the other submissions that the month counts
    drift,    \* history: jobs whose Schedule may differ from the row until it is put again
    rearmed,  \* history: jobs the script armed without asking for the cap
    stranded, \* history: ticks whose admission exhausted its retries
    perils    \* how many perils have happened

apiVars == <<row, clock, request, made, loose, drift>>
moverVars == <<mover, listed, rearmed>>
tickVars == <<tick, run, stranded>>
otherVars == <<others, crawling, left, pages, pipes, blocks, units>>
meterVars == <<first, otherVars>>
vars == <<apiVars, moverVars, tickVars, meterVars, perils>>

NoJob == [status |-> "absent", cron |-> 0, lane |-> "none"]
Unscheduled == [status |-> "none", cron |-> 0, lane |-> "none"]
NoClock == [cron |-> 0, paused |-> FALSE]
Idle == [at |-> "none"]

Init ==
    /\ row = [j \in Jobs |-> IF j \in Old THEN [status |-> "active", cron |-> 1, lane |-> "v1"]
                             ELSE NoJob]
    /\ clock = [j \in Jobs |-> NoClock] /\ loose = {}
    /\ request = [q \in 1..MaxRequests |-> Idle] /\ made = 0
    /\ mover = Idle /\ listed = Old
    /\ tick = [t \in Ticks |-> Idle] /\ run = [t \in Ticks |-> "none"]
    /\ first = [j \in Jobs |-> "none"] /\ others = 0 /\ crawling = {} /\ left = [c \in Crawls |-> 0]
    /\ pages = 0 /\ pipes = 0 /\ blocks = 0 /\ units = 0
    /\ drift = {} /\ rearmed = {} /\ stranded = {} /\ perils = 0

Peril(k) == k \in Perils /\ perils < MaxPerils /\ perils' = perils + 1

Active == {j \in Jobs : row[j].status = "active"}
Pending == {t \in Ticks : run[t] = "pending"}
Starting == {j \in Jobs : first[j] = "pending"}
Exists(j) == row[j].status \notin {"absent", "gone"}
Open(t) == tick[t].at \notin {"none", "over"}
InFlight(j) == {q \in 1..MaxRequests : request[q].at # "none" /\ request[q].job = j}

(* check_scheduled_jobs_quota: the job being armed is not counted twice. *)
CapAllows(j) == Cardinality(Active \ {j}) < Cap

(* A run deleted with its job has no row to end. *)
Ended(r) == IF r = "none" THEN "none" ELSE "ended"

(* What was admitted holds a slot until it ends; a pipeline's run holds one *)
(* while a block of it runs.                                                *)
Slots == others + Cardinality(crawling) + Cardinality(Pending) + Cardinality(Starting)
ConcurrentFull == Slots + blocks >= Concurrent

(* Rows inserted at an admission; a crawl's pages are inserted as they are  *)
(* claimed.                                                                 *)
Admitted == units + Cardinality({t \in Ticks : run[t] # "none"})
                  + Cardinality({j \in Jobs : first[j] # "none"})
MonthAllows(n) == Admitted + pages + n <= Monthly
MonthlyFull == ~MonthAllows(1)

-----------------------------------------------------------------------------
(* PATCH and DELETE /jobs/{id}, and POST /jobs with a schedule_cron *)

(* Beside another writer of the same Schedule, which put comes last is open. *)
Begin(q) ==
    LET j == q.job IN
    /\ made < MaxRequests /\ made' = made + 1
    /\ request' = [request EXCEPT ![made + 1] = q]
    /\ drift' = IF InFlight(j) # {} \/ (mover.at \in {"put", "commit"} /\ mover.job = j)
                THEN drift \cup {j} ELSE drift
    /\ mover' = IF mover.at = "reconcile" THEN [mover EXCEPT !.quiet = @ \ {j}] ELSE mover

(* _apply_schedule_changes, on the row as the session read it. *)
OnV2(r) == IF r.lane = "none" \/ r.status = "active" THEN [r EXCEPT !.lane = "v2"] ELSE r
WithCron(r, c) == OnV2([r EXCEPT !.cron = c, !.status = IF @ = "none" THEN "active" ELSE @])
WithStatus(r, s) == OnV2([r EXCEPT !.status = s])

Wanted(r) == {Unscheduled} \cup {WithCron(r, c) : c \in IF r.cron = 0 THEN {1} ELSE {1, 2}}
             \cup {WithStatus(r, s) : s \in IF r.cron = 0 THEN {} ELSE {"active", "paused"}}

Arms(q) == q.want.status = "active" /\ q.read.status # "active"

BeginPatch(j) ==
    /\ Exists(j)
    /\ \E want \in Wanted(row[j]) \ {row[j]} :
         Begin([at |-> "commit", job |-> j, read |-> row[j], want |-> want])
    /\ UNCHANGED <<row, clock, loose, listed, rearmed, tickVars, meterVars, perils>>

(* The session writes the fields that differ from what it read, whatever the *)
(* row says by now.                                                          *)
Write(r, from, to) ==
    [status |-> IF to.status = from.status THEN r.status ELSE to.status,
     cron |-> IF to.cron = from.cron THEN r.cron ELSE to.cron,
     lane |-> IF to.lane = from.lane THEN r.lane ELSE to.lane]

PatchRow(n) ==
    LET q == request[n] IN
    /\ row' = [row EXCEPT ![q.job] = Write(@, q.read, q.want)]
    /\ request' = [request EXCEPT ![n] =
            IF "v2" \in {q.read.lane, q.want.lane} THEN [q EXCEPT !.at = "sync"] ELSE Idle]

(* A row deleted since it was read takes no update. *)
CommitPatch(n) ==
    /\ request[n].at = "commit"
    /\ IF ~Exists(request[n].job) \/ (Arms(request[n]) /\ ~CapAllows(request[n].job))
       THEN request' = [request EXCEPT ![n] = Idle] /\ UNCHANGED row
       ELSE PatchRow(n)
    /\ UNCHANGED <<clock, made, loose, drift, moverVars, tickVars, meterVars, perils>>

(* POST: the row and its first run, under the lock its admission took. *)
CreateJob(j) ==
    LET new == [status |-> "active", cron |-> 1, lane |-> "v2"] IN
    /\ row[j] = NoJob
    /\ ~MonthlyFull /\ ~ConcurrentFull /\ CapAllows(j)
    /\ row' = [row EXCEPT ![j] = new]
    /\ first' = [first EXCEPT ![j] = "pending"]
    /\ Begin([at |-> "create", job |-> j, read |-> Unscheduled, want |-> new])
    /\ UNCHANGED <<clock, loose, listed, rearmed, tickVars, otherVars, perils>>

(* schedules.sync: the Schedule as the session's row says. *)
ClockOf(r) ==
    IF r.lane = "v2" /\ r.cron # 0 /\ r.status \in {"active", "paused"}
    THEN [cron |-> r.cron, paused |-> r.status # "active"] ELSE NoClock

(* A Schedule made anew does not know the ticks of the one deleted. *)
Put(j, c) ==
    /\ clock' = [clock EXCEPT ![j] = c]
    /\ loose' = IF c.cron = 0 THEN loose \cup {t \in Ticks : Open(t) /\ tick[t].job = j} ELSE loose

Sync(n) ==
    LET q == request[n] IN
    /\ q.at \in {"sync", "create"}
    /\ Put(q.job, ClockOf(q.want))
    /\ request' = [request EXCEPT ![n] = Idle]
    /\ UNCHANGED <<row, made, drift, moverVars, tickVars, meterVars, perils>>

(* Mutant of Undoes: only a write that arms is undone. *)
UndoesArming(q) == Arms(q)

(* The engine would not fire what the row says. *)
Undoes(q) == q.want.status = "active" /\ (Arms(q) \/ q.want.cron # q.read.cron)

(* A PATCH that moves an active schedule to v2 and leaves it active undoes    *)
(* nothing.  Its lane was v1, or none: what PATCHes that overlapped may leave. *)
HandsOver(q) ==
    q.read.lane # "v2" /\ q.read.status = "active" /\ q.want = [q.read EXCEPT !.lane = "v2"]

(* The engine cannot be reached, or does it and its answer is lost. *)
SyncFails(n) ==
    LET q == request[n] IN
    /\ q.at \in {"sync", "create"}
    /\ \/ /\ Peril("refuse") /\ UNCHANGED <<clock, loose>>
          /\ drift' = IF q.at = "sync" /\ HandsOver(q) THEN drift \cup {q.job} ELSE drift
       \/ Peril("ambiguous") /\ Put(q.job, ClockOf(q.want)) /\ drift' = drift \cup {q.job}
    /\ request' = [request EXCEPT ![n] =
            IF q.at = "create" THEN [q EXCEPT !.at = "pause"]
            ELSE IF Undoes(q) THEN [q EXCEPT !.at = "restore"] ELSE Idle]
    /\ UNCHANGED <<row, made, moverVars, tickVars, meterVars>>

(* A PATCH puts the schedule back as it was. *)
Restore(n) ==
    LET q == request[n] IN
    /\ q.at = "restore"
    /\ row' = IF Exists(q.job) THEN [row EXCEPT ![q.job] = Write(@, q.want, q.read)] ELSE row
    /\ request' = [request EXCEPT ![n] = Idle]
    /\ UNCHANGED <<clock, made, loose, drift, moverVars, tickVars, meterVars, perils>>

(* A POST leaves its job paused and fails its first run. *)
PauseNew(n) ==
    LET q == request[n] IN
    /\ q.at = "pause"
    /\ row' = IF Exists(q.job) THEN [row EXCEPT ![q.job].status = "paused"] ELSE row
    /\ first' = [first EXCEPT ![q.job] = Ended(@)]
    /\ request' = [request EXCEPT ![n] = Idle]
    /\ UNCHANGED <<clock, made, loose, drift, moverVars, tickVars, otherVars, perils>>

BeginDelete(j) ==
    /\ Exists(j)
    /\ Begin([at |-> "forget", job |-> j, read |-> row[j], want |-> row[j]])
    /\ UNCHANGED <<row, clock, loose, listed, rearmed, tickVars, meterVars, perils>>

(* An object could not be removed, or the process died before it was: the *)
(* job stays as it is.                                                     *)
KeepsJob(n) ==
    /\ request[n].at = "forget"
    /\ request' = [request EXCEPT ![n] = Idle]
    /\ UNCHANGED <<row, clock, made, loose, drift, moverVars, tickVars, meterVars, perils>>

(* schedules.forget, before the row goes: best effort, and only on v2. *)
Forget(n) ==
    LET q == request[n] IN
    /\ q.at = "forget"
    /\ \/ q.read.lane # "v2" /\ UNCHANGED <<clock, loose, drift, perils>>
       \/ q.read.lane = "v2" /\ Put(q.job, NoClock) /\ UNCHANGED <<drift, perils>>
       \/ /\ q.read.lane = "v2" /\ Peril("refuse") /\ UNCHANGED <<clock, loose>>
          /\ drift' = drift \cup {q.job}
    /\ request' = [request EXCEPT ![n] = [q EXCEPT !.at = "drop"]]
    /\ UNCHANGED <<row, made, moverVars, tickVars, meterVars>>

(* The delete cascades to the job's runs. *)
Drop(n) ==
    LET j == request[n].job IN
    /\ request[n].at = "drop"
    /\ row' = [row EXCEPT ![j].status = "gone", ![j].cron = 0]
    /\ first' = [first EXCEPT ![j] = "none"]
    /\ run' = [t \in Ticks |-> IF tick[t].at # "none" /\ tick[t].job = j THEN "none" ELSE run[t]]
    /\ request' = [request EXCEPT ![n] = Idle]
    /\ UNCHANGED <<clock, made, loose, drift, moverVars, tick, stranded, otherVars, perils>>

ApiDies(n) ==
    /\ request[n].at \notin {"none", "commit", "forget"} /\ Peril("api_crash")
    /\ request' = [request EXCEPT ![n] = Idle]
    /\ drift' = drift \cup {request[n].job}
    /\ UNCHANGED <<row, clock, made, loose, moverVars, tickVars, meterVars>>

-----------------------------------------------------------------------------
(* scripts.migrate_schedule, one invocation at a time *)

(* --all: each schedule listed as v1 is paused, whatever it is by now. *)
MigratePauses(j) ==
    /\ mover = Idle /\ j \in listed /\ Exists(j) /\ listed' = listed \ {j}
    /\ made < MaxRequests /\ made' = made + 1
    /\ mover' = [at |-> "put", job |-> j, read |-> row[j]]
    /\ row' = [row EXCEPT ![j].status = "paused"]
    /\ drift' = IF InFlight(j) # {} THEN drift \cup {j} ELSE drift
    /\ UNCHANGED <<clock, request, loose, rearmed, tickVars, meterVars, perils>>

(* The script ends and leaves the job paused, at least when no cron is left *)
(* to build a Schedule from.                                                *)
MigratePuts ==
    /\ mover.at = "put"
    /\ \/ /\ mover.read.cron # 0
          /\ Put(mover.job, [cron |-> mover.read.cron, paused |-> mover.read.status # "active"])
          /\ mover' = [mover EXCEPT !.at = "commit"] /\ UNCHANGED perils
       \/ /\ Peril("refuse") \/ (mover.read.cron = 0 /\ UNCHANGED perils)
          /\ mover' = Idle /\ UNCHANGED <<clock, loose>>
    /\ UNCHANGED <<row, request, made, drift, listed, rearmed, tickVars, meterVars>>

MigrateCommits ==
    LET j == mover.job
        held == [mover.read EXCEPT !.status = "paused"]
    IN /\ mover.at = "commit"
       /\ row' = IF Exists(j) THEN [row EXCEPT ![j] = Write(@, held, [mover.read EXCEPT !.lane = "v2"])]
                 ELSE row
       /\ rearmed' = IF row'[j].status = "active" THEN rearmed \cup {j} ELSE rearmed
       /\ mover' = Idle
       /\ UNCHANGED <<clock, request, made, loose, drift, listed, tickVars, meterVars, perils>>

(* --reconcile: every v2 schedule is put, every other Schedule deleted. *)
ReconcileReads ==
    /\ mover = Idle /\ drift # {}
    /\ mover' = [at |-> "reconcile", read |-> row, quiet |-> {j \in Jobs : InFlight(j) = {}}]
    /\ UNCHANGED <<apiVars, listed, rearmed, tickVars, meterVars, perils>>

Reconcile ==
    /\ mover.at = "reconcile"
    /\ clock' = [j \in Jobs |-> ClockOf(mover.read[j])]
    /\ loose' = loose \cup {t \in Ticks : Open(t) /\ clock'[tick[t].job].cron = 0}
    /\ drift' = Jobs \ mover.quiet
    /\ mover' = Idle
    /\ UNCHANGED <<row, request, made, listed, rearmed, tickVars, meterVars, perils>>

-----------------------------------------------------------------------------
(* The engine fires; ScheduledJobWorkflow asks for admission *)

(* SKIP: not while an earlier tick of this Schedule is open.  The admission's *)
(* read is taken with the firing: whatever stops a row is committed before the *)
(* engine is told, so to have fired before that and read after is no different. *)
Fire(t) ==
    /\ tick[t] = Idle /\ \A u \in Ticks : u < t => tick[u] # Idle
    /\ \E j \in Jobs :
         /\ clock[j].cron # 0 /\ ~clock[j].paused
         /\ \A u \in Ticks \ loose : Open(u) => tick[u].job # j
         /\ tick' = [tick EXCEPT ![t] = [at |-> "locked", job |-> j, asks |-> 0, read |-> row[j]]]
    /\ UNCHANGED <<apiVars, moverVars, run, stranded, meterVars, perils>>

AdmitReads(t) ==
    /\ tick[t].at = "retry"
    /\ tick' = [tick EXCEPT ![t].at = "locked", ![t].read = row[tick[t].job]]
    /\ UNCHANGED <<apiVars, moverVars, run, stranded, meterVars, perils>>

Goes(t, at) == tick' = [tick EXCEPT ![t] = IF at = "over" THEN [at |-> "over", job |-> @.job]
                                            ELSE [@ EXCEPT !.at = at, !.read = NoJob]]

(* The transaction has committed; its answer arrives, or the call is retried. *)
Answered(t, at) ==
    \/ Goes(t, at) /\ UNCHANGED perils
    \/ Goes(t, "retry") /\ Peril("lost")

Stopped(t) == tick[t].read.lane # "v2" \/ tick[t].read.status # "active" \/ tick[t].read.cron = 0

(* Mutant of LastChance: the cap is on the last wait, not on their sum. *)
LastChanceNever(t) == FALSE

LastChance(t) == tick[t].asks >= MaxAsks

(* The run of an earlier attempt of this tick, whatever its job says now. *)
AdmitFound(t) ==
    /\ tick[t].at = "locked" /\ run[t] # "none"
    /\ Answered(t, IF run[t] = "failed" THEN "over" ELSE "child")
    /\ UNCHANGED <<apiVars, moverVars, run, stranded, meterVars>>

(* Stopped, or skipped, which the job's row tells: no run either way. *)
AdmitRefused(t) ==
    /\ tick[t].at = "locked" /\ run[t] = "none"
    /\ \/ Stopped(t)
       \/ Exists(tick[t].job) /\ (MonthlyFull \/ (ConcurrentFull /\ LastChance(t)))
    /\ Answered(t, "over")
    /\ UNCHANGED <<apiVars, moverVars, run, stranded, meterVars>>

(* The job was deleted after it was read: neither a skip nor a run can be *)
(* written, and the call is retried.                                       *)
AdmitVanished(t) ==
    /\ tick[t].at = "locked" /\ run[t] = "none" /\ ~Stopped(t) /\ ~Exists(tick[t].job)
    /\ Goes(t, "retry")
    /\ UNCHANGED <<apiVars, moverVars, run, stranded, meterVars, perils>>

(* A wait the row tells already is written to nothing, not even a job. *)
AdmitWaits(t) ==
    /\ tick[t].at = "locked" /\ run[t] = "none"
    /\ ~Stopped(t) /\ ~MonthlyFull /\ ConcurrentFull /\ ~LastChance(t)
    /\ Answered(t, "sleep")
    /\ UNCHANGED <<apiVars, moverVars, run, stranded, meterVars>>

(* Storage is full: a failed run, which the month counts. *)
AdmitFails(t) ==
    /\ tick[t].at = "locked" /\ run[t] = "none"
    /\ ~Stopped(t) /\ Exists(tick[t].job) /\ ~MonthlyFull /\ Peril("full")
    /\ run' = [run EXCEPT ![t] = "failed"]
    /\ \E at \in {"over", "retry"} : Goes(t, at)
    /\ UNCHANGED <<apiVars, moverVars, stranded, meterVars>>

Admit(t) ==
    /\ Exists(tick[t].job)
    /\ run' = [run EXCEPT ![t] = "pending"]
    /\ Answered(t, "child")
    /\ UNCHANGED <<apiVars, moverVars, stranded, meterVars>>

(* Mutant of AdmitRuns: a tick that waited is not metered again. *)
AdmitRunsUnmetered(t) ==
    /\ tick[t].at = "locked" /\ run[t] = "none" /\ ~Stopped(t)
    /\ tick[t].asks > 0 \/ ~(MonthlyFull \/ ConcurrentFull)
    /\ Admit(t)

AdmitRuns(t) ==
    /\ tick[t].at = "locked" /\ run[t] = "none" /\ ~Stopped(t)
    /\ ~MonthlyFull /\ ~ConcurrentFull
    /\ Admit(t)

(* The call's window closes: the tick's workflow fails, its run, if any, stays. *)
GivesUp(t) ==
    /\ tick[t].at \in {"retry", "locked"} /\ Peril("outage")
    /\ Goes(t, "over")
    /\ stranded' = stranded \cup {t}
    /\ UNCHANGED <<apiVars, moverVars, run, meterVars>>

Wakes(t) ==
    /\ tick[t].at = "sleep"
    /\ tick' = [tick EXCEPT ![t].at = "locked", ![t].read = row[tick[t].job],
                            ![t].asks = IF @ < MaxAsks THEN @ + 1 ELSE @]
    /\ UNCHANGED <<apiVars, moverVars, run, stranded, meterVars, perils>>

(* The child JobWorkflow ends its run, or finds it cancelled or gone. *)
ChildEnds(t) ==
    /\ tick[t].at = "child"
    /\ Goes(t, "over")
    /\ run' = [run EXCEPT ![t] = Ended(@)]
    /\ UNCHANGED <<apiVars, moverVars, stranded, meterVars, perils>>

-----------------------------------------------------------------------------
(* The owner and the user's other submissions *)

CancelRun(t) ==
    /\ run[t] = "pending" /\ made < MaxRequests /\ made' = made + 1
    /\ run' = [run EXCEPT ![t] = "ended"]
    /\ UNCHANGED <<row, clock, request, loose, drift, moverVars, tick, stranded,
                   meterVars, perils>>

(* A created job's first run ends, is cancelled, or its workflow could not *)
(* be started.                                                             *)
FirstEnds(j) ==
    /\ first[j] = "pending" /\ first' = [first EXCEPT ![j] = "ended"]
    /\ UNCHANGED <<apiVars, moverVars, tickVars, otherVars, perils>>

(* The lanes' admit(): n rows, or the most a crawl may claim, and one slot. *)
AdmitOther(n) ==
    /\ made < MaxRequests /\ made' = made + 1
    /\ MonthAllows(n) /\ ~ConcurrentFull
    /\ UNCHANGED <<row, clock, request, loose, drift, moverVars, tickVars, first, perils>>

(* A run of another job, or a batch of n. *)
Submit(n) ==
    /\ AdmitOther(n)
    /\ others' = others + 1 /\ units' = units + n
    /\ UNCHANGED <<crawling, left, pages, pipes, blocks>>

SubmitCrawl(c, n) ==
    /\ AdmitOther(n) /\ c \notin crawling
    /\ crawling' = crawling \cup {c} /\ left' = [left EXCEPT ![c] = n]
    /\ UNCHANGED <<others, pages, pipes, blocks, units>>

SubmitPipeline ==
    /\ AdmitOther(1)
    /\ pipes' = pipes + 1 /\ units' = units + 1
    /\ UNCHANGED <<others, crawling, left, pages, blocks>>

OthersMove == UNCHANGED <<apiVars, moverVars, tickVars, first, perils>>

SubmissionEnds ==
    /\ others > 0 /\ others' = others - 1
    /\ OthersMove /\ UNCHANGED <<crawling, left, pages, pipes, blocks, units>>

(* A page is claimed without asking the month again. *)
ClaimPage(c) ==
    /\ c \in crawling /\ left[c] > 0
    /\ left' = [left EXCEPT ![c] = @ - 1] /\ pages' = pages + 1
    /\ OthersMove /\ UNCHANGED <<others, crawling, pipes, blocks, units>>

CrawlEnds(c) ==
    /\ c \in crawling /\ crawling' = crawling \ {c} /\ left' = [left EXCEPT ![c] = 0]
    /\ OthersMove /\ UNCHANGED <<others, pages, pipes, blocks, units>>

(* A block begins, or begins again after its wait, without asking for a slot. *)
BlockRuns ==
    /\ blocks < pipes /\ blocks' = blocks + 1
    /\ OthersMove /\ UNCHANGED <<others, crawling, left, pages, pipes, units>>

(* It ends or waits for another attempt. *)
BlockStops ==
    /\ blocks > 0 /\ blocks' = blocks - 1
    /\ OthersMove /\ UNCHANGED <<others, crawling, left, pages, pipes, units>>

PipelineEnds ==
    /\ pipes > blocks /\ pipes' = pipes - 1
    /\ OthersMove /\ UNCHANGED <<others, crawling, left, pages, blocks, units>>

(* Other jobs, batches and crawls deleted, and old runs cleaned up. *)
RowsDeleted ==
    /\ made < MaxRequests /\ made' = made + 1
    /\ units' \in 0..units /\ pages' \in 0..pages /\ <<units', pages'>> # <<units, pages>>
    /\ UNCHANGED <<row, clock, request, loose, drift, moverVars, tickVars, first, others, crawling,
                   left, pipes, blocks, perils>>

Submissions ==
    \/ \E n \in 1..Monthly : Submit(n) \/ (\E c \in Crawls : SubmitCrawl(c, n))
    \/ SubmissionEnds \/ (\E c \in Crawls : ClaimPage(c) \/ CrawlEnds(c))
    \/ SubmitPipeline \/ BlockRuns \/ BlockStops \/ PipelineEnds \/ RowsDeleted

TickSteps(t) ==
    \/ AdmitReads(t) \/ AdmitFound(t) \/ AdmitRefused(t) \/ AdmitWaits(t) \/ AdmitFails(t)
    \/ AdmitVanished(t) \/ AdmitRuns(t) \/ Wakes(t) \/ ChildEnds(t)

RequestSteps(n) ==
    \/ CommitPatch(n) \/ Sync(n) \/ SyncFails(n) \/ Restore(n) \/ PauseNew(n)
    \/ KeepsJob(n) \/ Forget(n) \/ Drop(n) \/ ApiDies(n)

Next ==
    \/ \E j \in Jobs : BeginPatch(j) \/ BeginDelete(j) \/ CreateJob(j) \/ MigratePauses(j) \/ FirstEnds(j)
    \/ \E n \in 1..MaxRequests : RequestSteps(n)
    \/ MigratePuts \/ MigrateCommits \/ ReconcileReads \/ Reconcile
    \/ \E t \in Ticks : Fire(t) \/ TickSteps(t) \/ GivesUp(t) \/ CancelRun(t)
    \/ Submissions

Spec == Init /\ [][Next]_vars /\ \A t \in Ticks : WF_vars(TickSteps(t))

-----------------------------------------------------------------------------
(* Properties *)

TypeOK ==
    /\ row \in [Jobs -> [status : {"absent", "none", "active", "paused", "gone"}, cron : 0..2,
                         lane : {"none", "v1", "v2"}]]
    /\ clock \in [Jobs -> [cron : 0..2, paused : BOOLEAN]]
    /\ run \in [Ticks -> {"none", "pending", "failed", "ended"}]
    /\ UNION {drift, rearmed, listed} \subseteq Jobs /\ loose \cup stranded \subseteq Ticks
    /\ first \in [Jobs -> {"none", "pending", "ended"}]
    /\ crawling \subseteq Crawls /\ left \in [Crawls -> Nat] /\ blocks <= pipes
    /\ {others, pages, pipes, blocks, units, made, perils} \subseteq Nat

(* However requests, ticks, retried admissions, deletes and the migration    *)
(* interleave with the other lanes, what an admission granted stays within   *)
(* the user's meters: submissions in flight, rows of the month and schedules *)
(* armed.  What nothing admits may pass them: a running block's slot, a page *)
(* claimed under a crawl's old check, a schedule the migration put back      *)
(* (core/quota.py admit, check_scheduled_jobs_quota; the two quota views;    *)
(* routers/crawls.py check_crawl_quota; migrate_schedule.py).                *)
MetersHold ==
    /\ TypeOK
    /\ Slots <= Concurrent
    /\ Admitted <= Monthly
    /\ Cardinality(Active \ rearmed) <= Cap

(* A schedule the row says is armed is one the engine fires at the row's cron, *)
(* after every request on it has ended, failed calls included, and a job       *)
(* deleted off v2 leaves none, unless a crash, a lost answer, a second writer, *)
(* a failed move to v2 or a failed forget has set them apart since the last    *)
(* reconciliation (routers/jobs.py patch_jobs, create_job, cancel_job).        *)
EngineFollowsRow ==
    \A j \in Jobs \ drift :
        InFlight(j) = {} /\ mover.at \notin {"put", "commit"} /\ row[j].lane = "v2"
            => /\ row[j].status = "active" => clock[j] = [cron |-> row[j].cron, paused |-> FALSE]
               /\ row[j].status = "gone" => clock[j] = NoClock

(* A tick does not wait for ever for a slot, and a run it was admitted to ends *)
(* and frees its own, unless its workflow failed on an admission that was not  *)
(* answered (ScheduledJobWorkflow.run, its wait and its cap).                  *)
TicksEnd ==
    \A t \in Ticks : (Open(t) \/ run[t] = "pending") ~>
                     (t \in stranded \/ (tick[t].at = "over" /\ run[t] # "pending"))
=============================================================================
