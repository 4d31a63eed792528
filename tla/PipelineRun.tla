----------------------------- MODULE PipelineRun -----------------------------
(***************************************************************************)
(* One run of a pipeline version: POST .../runs, the block loop of         *)
(* PipelineWorkflow with its mirrors, the owner's cancel and the engine's. *)
(*                                                                         *)
(* Each mirror is one transaction under the run's row lock.  A call may be *)
(* served again when its answer is lost, so an action that serves one      *)
(* either moves the workflow on or leaves it where it is.  A cancel from   *)
(* the engine is delivered once: as a note the workflow takes at its next  *)
(* boundary, or together with an answer, when it is raised instead.        *)
(***************************************************************************)
EXTENDS Naturals, Sequences, FiniteSets

CONSTANTS
    N,           \* blocks of the pipeline
    MaxAttempts, \* maximum_attempts of a block's retry policy (scaled)
    Limit,       \* the storage left, in objects
    Perils,      \* which of PerilKinds may happen
    MaxPerils    \* how many of them a behaviour may have (a bound)

PerilKinds == {"refuse", "ambiguous", "api_crash", "operator", "coincide", "outage",
               "attempt_lost", "overrun"}

ASSUME SizesAssumption == {N, MaxAttempts} \subseteq Nat \ {0} /\ Limit \in Nat
ASSUME PerilsAssumption == Perils \subseteq PerilKinds /\ MaxPerils \in Nat

Blocks == 1..N
Types == {"scrape", "clean", "validate", "webhook"}

VARIABLES
    type,      \* the blocks' types, fixed by the version
    run,       \* pipeline_runs.status
    cancelReq, \* pipeline_runs.cancel_requested_at is set
    result,    \* the block whose output pipeline_runs.result_path names (0: none)
    note,      \* pipeline_runs.error holds the storage wall's note
    block,     \* pipeline_run_blocks.status
    output,    \* the block whose object output_ref names (0: none)
    stored,    \* blocks whose object is in the object store
    charged,   \* blocks whose object is in the ledger
    request,   \* the POST request
    telling,   \* the cancel route is about to tell the engine
    engine,    \* the workflow's cancel: "no", "asked", "heard"
    pc,        \* the await PipelineWorkflow is at
    at,        \* the block it is at
    noted,     \* PipelineWorkflow._cancel_requested
    wall,      \* its local of the same name is set
    act,       \* the block's activity: "idle", "trying", "resting" or its end
    tries,     \* attempts made of the block's activity
    told,      \* history: attempts begun of the webhook block's
    stop,      \* the activity's cancellation was requested
    late,      \* writes of mirrors that outlived their attempt: of a block, to a status
    overdue,   \* history: the blocks of those writes
    unheard,   \* the block, if any, begun by a mirror whose answer was lost
    stranded,  \* history: the run lost what would have ended it
    perils     \* how many perils have happened

runVars == <<run, cancelReq, result, note>>
blockVars == <<block, output>>
storeVars == <<stored, charged>>
apiVars == <<request, telling>>
wfVars == <<at, noted, wall>>
actVars == <<act, tries, told, stop>>
lateVars == <<late, overdue, unheard>>
vars == <<type, runVars, blockVars, storeVars, apiVars, engine, pc, wfVars, actVars,
          lateVars, stranded, perils>>

Peril(k) == k \in Perils /\ perils < MaxPerils /\ perils' = perils + 1

Content(b) == type[b] \in {"scrape", "clean"}
Effect(b) == ~Content(b)

(* A source, a chain after it, at most one webhook (the validator's rules). *)
Runnable == {t \in [Blocks -> Types] :
    /\ \A b \in Blocks : (t[b] = "scrape") <=> (b = 1)
    /\ Cardinality({b \in Blocks : t[b] = "webhook"}) <= 1}

Init ==
    /\ type \in Runnable
    /\ run = "none" /\ cancelReq = FALSE /\ result = 0 /\ note = FALSE
    /\ block = [b \in Blocks |-> "pending"] /\ output = [b \in Blocks |-> 0]
    /\ stored = {} /\ charged = {}
    /\ request = "idle" /\ telling = FALSE /\ engine = "no"
    /\ pc = "none" /\ at = 1 /\ noted = FALSE /\ wall = FALSE
    /\ act = "idle" /\ tries = 0 /\ told = 0 /\ stop = FALSE
    /\ late = {} /\ overdue = {} /\ unheard = {} /\ stranded = FALSE /\ perils = 0

-----------------------------------------------------------------------------
(* The API *)

CreateRun ==
    /\ request = "idle"
    /\ request' = "committed"
    /\ run' = "running"
    /\ UNCHANGED <<type, cancelReq, result, note, blockVars, storeVars, telling, engine, pc,
                   wfVars, actVars, lateVars, stranded, perils>>

StartWorkflow ==
    /\ request = "committed"
    /\ \/ request' = "over" /\ pc' = "begin" /\ UNCHANGED perils
       \/ request' = "refused" /\ Peril("refuse") /\ UNCHANGED pc
       \/ request' = "refused" /\ Peril("ambiguous") /\ pc' = "begin"
    /\ UNCHANGED <<type, runVars, blockVars, storeVars, telling, engine, wfVars, actVars,
                   lateVars, stranded>>

(* The rows as the request holds them are written over whatever they say. *)
FailStart ==
    /\ request = "refused"
    /\ request' = "failed"
    /\ run' = "failed"
    /\ block' = [b \in Blocks |-> "skipped"]
    /\ note' = FALSE
    /\ UNCHANGED <<type, cancelReq, result, output, storeVars, telling, engine, pc, wfVars,
                   actVars, lateVars, stranded, perils>>

ApiDies ==
    /\ request \in {"committed", "refused"}
    /\ Peril("api_crash")
    /\ request' = "over"
    /\ stranded' = (stranded \/ pc = "none")
    /\ UNCHANGED <<type, runVars, blockVars, storeVars, telling, engine, pc, wfVars, actVars,
                   lateVars>>

CancelRun ==
    /\ run = "running" /\ ~cancelReq
    /\ cancelReq' = TRUE /\ telling' = TRUE
    /\ UNCHANGED <<type, run, result, note, blockVars, storeVars, request, engine, pc, wfVars,
                   actVars, lateVars, stranded, perils>>

(* Best effort: the engine may be down, or not have the workflow. *)
EngineIsAsked ==
    /\ engine = "no" /\ pc # "none"
    /\ \/ telling /\ telling' = FALSE /\ UNCHANGED perils
       \/ Peril("operator") /\ UNCHANGED telling
    /\ engine' = "asked"
    /\ UNCHANGED <<type, runVars, blockVars, storeVars, request, pc, wfVars, actVars, lateVars,
                   stranded>>

-----------------------------------------------------------------------------
(* The transactions of the activities *)

(* mirror_block_status refuses to start a block of a run that should stop. *)
MayBegin == run = "running" /\ ~cancelReq

WriteBlock(b, st) ==
    /\ block' = [block EXCEPT ![b] = st]
    /\ output' = IF st \in {"completed", "failed"}
                   THEN [output EXCEPT ![b] = IF st = "failed" THEN 0
                                              ELSE IF Content(b) THEN b
                                              ELSE output[b - 1]]
                   ELSE output

(* mirror_run_status: only a running run takes the status, but the pending *)
(* blocks of any stopped run are skipped.                                  *)
WriteRun(st) ==
    /\ IF run = "running"
         THEN /\ run' = st
              /\ result' = IF st = "completed"
                             THEN CHOOSE b \in Blocks : /\ Content(b)
                                    /\ \A c \in b + 1..N : Effect(c)
                             ELSE 0
              /\ note' = (st = "completed" /\ wall)
         ELSE UNCHANGED <<run, result, note>>
    /\ block' = IF run' \in {"failed", "cancelled"}
                  THEN [b \in Blocks |-> IF block[b] = "pending" THEN "skipped" ELSE block[b]]
                  ELSE block
    /\ UNCHANGED <<cancelReq, output>>

(* The calls whose cancellation is caught as the block's. *)
InsideTry == {"slot", "act", "record"}

(* The workflow takes an answer and goes on to p; or a cancel comes with it. *)
Heard(p) ==
    \/ pc' = p /\ UNCHANGED <<engine, perils, stranded>>
    \/ /\ engine = "asked" /\ Peril("coincide")
       /\ engine' = "heard"
       /\ pc' = IF pc \in InsideTry THEN "stopped" ELSE "gone"
       /\ stranded' = (pc' = "gone" \/ stranded)

(* The same for a call that is served again when its answer is lost. *)
Answered(p) == Heard(p) \/ (pc' = pc /\ UNCHANGED <<engine, perils, stranded>>)

(* The attempt that serves a mirror outlives it: its write comes later. *)
Overrun(b, st) ==
    /\ Peril("overrun")
    /\ late' = late \cup {[of |-> b, to |-> st]} /\ overdue' = overdue \cup {b} /\ UNCHANGED unheard

LateWrite ==
    \E w \in late :
      /\ late' = late \ {w}
      /\ IF w.to = "running" /\ ~MayBegin THEN UNCHANGED blockVars ELSE WriteBlock(w.of, w.to)
      /\ UNCHANGED <<type, runVars, storeVars, apiVars, engine, pc, wfVars, actVars, overdue,
                     unheard, stranded, perils>>

-----------------------------------------------------------------------------
(* The block loop *)

(* The mirror decides whether the block begins. *)
BeginBlock ==
    /\ pc = "begin"
    /\ \/ ~MayBegin /\ Answered("cut") /\ UNCHANGED <<blockVars, lateVars, actVars>>
       \/ /\ MayBegin
          /\ WriteBlock(at, "running")
          /\ Answered(IF type[at] = "scrape" THEN "slot" ELSE "act")
          /\ act' = "trying" /\ tries' = 1 /\ stop' = FALSE
          /\ told' = IF type[at] = "webhook" THEN 1 ELSE told
          /\ unheard' = IF pc' = pc THEN {at} ELSE {}
          /\ UNCHANGED <<late, overdue>>
       \/ /\ Overrun(at, "running")
          /\ UNCHANGED <<blockVars, actVars, engine, pc, stranded>>
    /\ UNCHANGED <<type, runVars, storeVars, apiVars, wfVars>>

(* wait_for_host_slot returns, holding a lease or not. *)
SlotTaken ==
    /\ pc = "slot" /\ pc' = "act"
    /\ UNCHANGED <<type, runVars, blockVars, storeVars, apiVars, engine, wfVars, actVars,
                   lateVars, stranded, perils>>

(* A worker's attempt: what it stores, it stores before it answers. *)
AttemptSucceeds ==
    /\ pc = "act" /\ act = "trying"
    /\ act' = "done"
    /\ stored' = IF Content(at) THEN stored \cup {at} ELSE stored
    /\ UNCHANGED <<type, runVars, blockVars, charged, apiVars, engine, pc, wfVars, tries, told, stop,
                   lateVars, stranded, perils>>

(* A last attempt, an error that is not retried, or no budget left. *)
ActivityFails ==
    /\ pc = "act" /\ act = "trying"
    /\ act' = "failed"
    /\ UNCHANGED <<type, runVars, blockVars, storeVars, apiVars, engine, pc, wfVars, tries, told, stop,
                   lateVars, stranded, perils>>

(* An attempt fails and another is due; a webhook's mirrors the wait.  An     *)
(* activity whose cancel was requested is not tried again, and the engine may *)
(* report either the failure or the cancel.                                   *)
AttemptFails ==
    /\ pc = "act" /\ act = "trying" /\ tries < MaxAttempts
    /\ act' \in IF stop THEN {"failed", "stopped"} ELSE {"resting"}
    /\ \/ /\ UNCHANGED <<lateVars, perils>>
          /\ IF type[at] = "webhook" THEN WriteBlock(at, "waiting") ELSE UNCHANGED blockVars
       \/ type[at] = "webhook" /\ Overrun(at, "waiting") /\ UNCHANGED blockVars
    /\ UNCHANGED <<type, runVars, storeVars, apiVars, engine, pc, wfVars, tries, told, stop, stranded>>

(* The worker dies in it, or its answer is lost: with what it stored. *)
AttemptLost ==
    /\ pc = "act" /\ act = "trying" /\ tries < MaxAttempts
    /\ Peril("attempt_lost")
    /\ act' \in IF stop THEN {"failed", "stopped"} ELSE {"resting"}
    /\ stored' = IF Content(at) THEN stored \cup {at} ELSE stored
    /\ UNCHANGED <<type, runVars, blockVars, charged, apiVars, engine, pc, wfVars, tries, told, stop,
                   lateVars, stranded>>

(* Mutant of AttemptBegins: a webhook's later attempts ask nobody. *)
AttemptBeginsBlind ==
    /\ pc = "act" /\ act = "resting"
    /\ act' = "trying" /\ tries' = tries + 1
    /\ IF type[at] = "webhook" THEN told' = told + 1 /\ WriteBlock(at, "running")
                               ELSE UNCHANGED <<told, blockVars>>
    /\ UNCHANGED <<type, runVars, storeVars, apiVars, engine, pc, wfVars, stop, lateVars,
                   stranded, perils>>

(* A webhook's next attempt mirrors itself running first, and gives up on a *)
(* run that should stop; the others know nothing of the run.                *)
AttemptBegins ==
    /\ pc = "act" /\ act = "resting"
    /\ IF type[at] = "webhook" /\ ~MayBegin
         THEN act' = "stopped" /\ UNCHANGED <<tries, told, blockVars>>
         ELSE /\ act' = "trying" /\ tries' = tries + 1
              /\ IF type[at] = "webhook" THEN told' = told + 1 /\ WriteBlock(at, "running")
                                         ELSE UNCHANGED <<told, blockVars>>
    /\ UNCHANGED <<type, runVars, storeVars, apiVars, engine, pc, wfVars, stop, lateVars,
                   stranded, perils>>

(* _execute returns or raises; a content block's objects are charged next. *)
ActivityAnswered ==
    /\ pc = "act" /\ act \in {"done", "failed", "stopped"}
    /\ Heard(CASE act = "done" -> IF Content(at) THEN "record" ELSE "settle"
               [] OTHER -> act)
    /\ act' = "idle" /\ tries' = 0 /\ stop' = FALSE
    /\ UNCHANGED <<type, runVars, blockVars, storeVars, apiVars, wfVars, told, lateVars>>

(* Mutant of RecordStorage: it answers without a commit. *)
RecordNothing ==
    /\ pc = "record"
    /\ Answered("settle")
    /\ wall' = (wall \/ Cardinality(charged) > Limit)
    /\ UNCHANGED <<type, runVars, blockVars, storeVars, apiVars, at, noted, actVars, lateVars>>

RecordStorage ==
    /\ pc = "record"
    /\ charged' = charged \cup {at}
    /\ Answered("settle")
    /\ wall' = IF pc' = "settle" THEN wall \/ Cardinality(charged') > Limit ELSE wall
    /\ UNCHANGED <<type, runVars, blockVars, stored, apiVars, at, noted, actVars, lateVars>>

(* A cancel noted by now is honoured at this boundary. *)
SettleBlock ==
    /\ pc = "settle"
    /\ \/ /\ WriteBlock(at, "completed") /\ UNCHANGED lateVars
          /\ Answered(IF at = N THEN "complete" ELSE IF noted THEN "cut" ELSE "begin")
       \/ Overrun(at, "completed") /\ UNCHANGED <<blockVars, engine, pc, stranded>>
    /\ at' = IF pc' = "begin" THEN at + 1 ELSE at
    /\ UNCHANGED <<type, runVars, storeVars, apiVars, noted, wall, actVars>>

(* The block failed, or was stopped: mirrored, before the run's own end is. *)
BlockFailed ==
    /\ pc \in {"failed", "stopped"}
    /\ \/ /\ WriteBlock(at, "failed") /\ UNCHANGED lateVars
          /\ Answered(IF pc = "failed" THEN "fail" ELSE "cut")
       \/ Overrun(at, "failed") /\ UNCHANGED <<blockVars, engine, pc, stranded>>
    /\ UNCHANGED <<type, runVars, storeVars, apiVars, wfVars, actVars>>

(* Mutant of EndRun: the last mirror of a completed run does not come. *)
EndRunUnlessDone ==
    /\ pc \in {"fail", "cut"}
    /\ WriteRun(CASE pc = "fail" -> "failed" [] OTHER -> "cancelled")
    /\ Answered("over")
    /\ UNCHANGED <<type, storeVars, apiVars, wfVars, actVars, lateVars>>

EndRun ==
    /\ pc \in {"complete", "fail", "cut"}
    /\ WriteRun(CASE pc = "complete" -> "completed" [] pc = "fail" -> "failed"
                  [] OTHER -> "cancelled")
    /\ Answered("over")
    /\ UNCHANGED <<type, storeVars, apiVars, wfVars, actVars, lateVars>>

(* A database call's window closes.  Charging is inside the try; a mirror's *)
(* failure ends the workflow.                                               *)
CallGivesUp ==
    /\ pc \in {"begin", "record", "settle", "failed", "stopped", "complete", "fail", "cut"}
    /\ Peril("outage")
    /\ pc' = IF pc = "record" THEN "failed" ELSE "gone"
    /\ stranded' = (stranded \/ pc # "record")
    /\ UNCHANGED <<type, runVars, blockVars, storeVars, apiVars, engine, wfVars, actVars,
                   lateVars>>

(* The engine's cancel, while a call is under way: the wait for a host ends, *)
(* an effect block's activity is told, anything else is finished first.      *)
CancelHeard ==
    /\ engine = "asked" /\ pc \notin {"none", "over", "gone"}
    /\ engine' = "heard"
    /\ noted' = TRUE
    /\ pc' = IF pc = "slot" THEN "stopped" ELSE pc
    /\ IF pc = "act" /\ Effect(at) /\ act \in {"trying", "resting"}
         THEN /\ stop' = TRUE
              /\ act' = IF act = "resting" THEN "stopped" ELSE act
         ELSE UNCHANGED <<stop, act>>
    /\ UNCHANGED <<type, runVars, blockVars, storeVars, apiVars, at, wall, tries, told, lateVars,
                   stranded, perils>>

-----------------------------------------------------------------------------
Next ==
    \/ CreateRun \/ StartWorkflow \/ FailStart \/ ApiDies \/ CancelRun \/ EngineIsAsked
    \/ LateWrite \/ BeginBlock \/ SlotTaken \/ AttemptSucceeds \/ ActivityFails \/ AttemptFails
    \/ AttemptLost \/ AttemptBegins \/ ActivityAnswered \/ RecordStorage \/ SettleBlock
    \/ BlockFailed \/ EndRun \/ CallGivesUp \/ CancelHeard

(* A call's answer is not lost for ever: the workflow moves on. *)
MovesOn == (BeginBlock \/ RecordStorage \/ SettleBlock \/ BlockFailed \/ EndRun) /\ pc' # pc

(* The request goes on; the engine and the workers, on what they were given. *)
(* At most one of the disjuncts is enabled; no cancel and no peril is owed.  *)
Fairness ==
    /\ WF_vars(StartWorkflow \/ FailStart)
    /\ WF_vars(SlotTaken \/ AttemptSucceeds \/ AttemptBegins \/ ActivityAnswered \/ MovesOn)

Spec == Init /\ [][Next]_vars /\ Fairness

-----------------------------------------------------------------------------
TypeOK ==
    /\ run \in {"none", "running", "completed", "failed", "cancelled"}
    /\ block \in [Blocks -> {"pending", "running", "waiting", "completed", "failed", "skipped"}]
    /\ output \in [Blocks -> 0..N] /\ result \in 0..N
    /\ stored \subseteq Blocks /\ charged \subseteq Blocks
    /\ engine \in {"no", "asked", "heard"} /\ at \in Blocks
    /\ act \in {"idle", "trying", "resting", "done", "failed", "stopped"}
    /\ tries \in 0..MaxAttempts /\ told \in 0..MaxAttempts

(* What is charged is stored; what a completed block hands on, and what a   *)
(* completed run names as its result, is charged; and a run that took the   *)
(* storage past its limit says so (record_storage, mirror_*_status, wall).  *)
OutputsAreCharged ==
    /\ TypeOK
    /\ charged \subseteq stored
    /\ \A b \in Blocks : output[b] # 0 => output[b] \in charged
    /\ run = "completed" => /\ result \in charged
                            /\ note <=> Cardinality(charged) > Limit

(* Every behaviour is one the contract allows. *)
Promise == INSTANCE PipelineContract WITH
    cancelled <- cancelReq,
    deliveries <- told,
    block <- [b \in Blocks |-> IF block[b] \in {"running", "waiting"} THEN "active" ELSE block[b]],
    failedStart <- request = "failed"

KeepsPromise == Promise!Spec

(* A run whose rows were committed ends, however it was cancelled: unless   *)
(* its request died before the start, a mirror exhausted its retries, or a  *)
(* cancel was raised together with a mirror's answer (_finish).             *)
RunEnds == (run = "running") ~> (run # "running" \/ stranded)
=============================================================================
