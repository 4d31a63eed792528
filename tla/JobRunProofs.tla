---------------------------- MODULE JobRunProofs ----------------------------
(***************************************************************************)
(* Theorems about JobRun, for every set of runs, limit, subscription and   *)
(* set of perils: the flow of a run, its outcome and webhook row, what it  *)
(* is charged for, what is stored and what is left behind, the storage     *)
(* counter, and the client's contract.                                     *)
(***************************************************************************)
EXTENDS JobRun, TLAPS, FiniteSetTheorems

-----------------------------------------------------------------------------
(* Types *)

LEMMA StagesFinite == IsFiniteSet(Stages) /\ Cardinality(Stages) = 2
<1>1. Stages = {"scrape"} \cup {"llm"}
  BY DEF Stages
<1>2. IsFiniteSet({"scrape"}) /\ Cardinality({"scrape"}) = 1
  BY FS_Singleton
<1>3. "llm" \notin {"scrape"}
  OBVIOUS
<1> QED BY <1>1, <1>2, <1>3, FS_AddElement

LEMMA InitType == Init => TypeOK
<1> SUFFICES ASSUME Init PROVE TypeOK
  OBVIOUS
<1> USE DEF Init, Stages
<1>1. RowTypes
  BY DEF RowTypes, Statuses
<1>2. StoreTypes
  BY DEF StoreTypes
<1>3. ApiTypes
  BY DEF ApiTypes
<1>4. FlowTypes
  BY DEF FlowTypes, Steps, Answers, Plans, Terminal
<1>5. abandoned \in [Runs -> SUBSET Stages] /\ gaveUp \in [Runs -> BOOLEAN] /\ perils \in Nat
  OBVIOUS
<1> QED BY <1>1, <1>2, <1>3, <1>4, <1>5 DEF TypeOK

LEMMA RequestType ==
  ASSUME TypeOK, NEW r \in Runs, Request(r)
  PROVE  TypeOK'
<1> USE DEF TypeOK, RowTypes, StoreTypes, ApiTypes, FlowTypes, rowVars, storeVars,
            apiVars, releaseVars, flowVars
<1>1. CASE StartWorkflow(r)
  BY <1>1 DEF StartWorkflow, Call, Steps, DbSteps, Answers
<1>2. CASE FailUnstartedRun(r)
  <2>1. status' \in [Runs -> Statuses] /\ walled' \in [Runs -> Stages \cup {"none"}]
    BY <1>2 DEF FailUnstartedRun, Statuses, Terminal
  <2>2. hooks' \in [Runs -> SUBSET Events]
    <3> HIDE DEF StoreTypes, ApiTypes, FlowTypes
    <3> QED BY <1>2 DEF FailUnstartedRun, Announce, Events
  <2>3. request' \in [Runs -> {"idle", "committed", "refused", "over"}]
    BY <1>2 DEF FailUnstartedRun
  <2> QED BY <1>2, <2>1, <2>2, <2>3 DEF FailUnstartedRun
<1> QED BY <1>1, <1>2 DEF Request

LEMMA DeleteType ==
  ASSUME TypeOK, NEW r \in Runs, Delete(r)
  PROVE  TypeOK'
<1> USE DEF TypeOK, RowTypes, StoreTypes, ApiTypes, FlowTypes, rowVars, storeVars,
            apiVars, releaseVars, flowVars
<1>1. ASSUME NEW d \in Releases, NEW rows, Take(r, d, rows)
      PROVE  /\ used' \in Nat /\ twice' \in Nat
             /\ ledger' \in SUBSET (Runs \X Stages)
             /\ deleting' \in [Runs -> [Releases -> {"no", "purge", "refuse"}]]
             /\ freed' \in [Runs -> [Releases -> SUBSET Stages]]
             /\ stale' \in [Runs -> [Releases -> SUBSET Stages]]
  <2>1. freed[r][d] \in SUBSET Stages /\ stale[r][d] \in SUBSET Stages
    OBVIOUS
  <2>2. Cardinality(freed[r][d]) \in Nat /\ Cardinality(stale[r][d]) \in Nat
    BY <2>1, FS_Subset, StagesFinite, FS_CardinalityType
  <2>3. used' \in Nat /\ twice' \in Nat /\ ledger' \in SUBSET (Runs \X Stages)
    BY <1>1, <2>2 DEF Take, Refund
  <2>4. deleting' \in [Runs -> [Releases -> {"no", "purge", "refuse"}]]
    BY <1>1 DEF Take
  <2>5. [e \in Releases |-> IF e = d THEN {} ELSE freed[r][e] \ rows] \in [Releases -> SUBSET Stages]
    OBVIOUS
  <2>6. [e \in Releases |-> IF e = d THEN {} ELSE stale[r][e] \cup (freed[r][e] \cap rows)]
           \in [Releases -> SUBSET Stages]
    OBVIOUS
  <2> QED BY <1>1, <2>3, <2>4, <2>5, <2>6 DEF Take
<1>2. ASSUME NEW d \in Releases, CommitDelete(r, d) PROVE TypeOK'
  BY <1>1, <1>2 DEF CommitDelete, Statuses
<1>3. ASSUME NEW d \in Releases, RefuseDelete(r, d) PROVE TypeOK'
  BY <1>1, <1>3 DEF RefuseDelete
<1> QED BY <1>2, <1>3 DEF Delete

LEMMA AnswerType ==
  ASSUME ret \in [Runs -> Answers], NEW r \in Runs, NEW a \in Answers,
         \/ ret' = [ret EXCEPT ![r] = a]
         \/ \E c : Answer(r, c, a)
  PROVE  ret' \in [Runs -> Answers]
BY DEF Answer

LEMMA StatusIsAnswer == Statuses \subseteq Answers
BY DEF Answers

LEMMA WorkerType ==
  ASSUME TypeOK, NEW r \in Runs, Worker(r)
  PROVE  TypeOK'
<1> USE DEF TypeOK, RowTypes, StoreTypes, ApiTypes, FlowTypes, rowVars, storeVars,
            apiVars, releaseVars, flowVars
<1>1. CASE JobRunStarted(r)
  BY <1>1 DEF JobRunStarted, Mirror, Answer, Moved, Answers, Statuses, Active
<1>2. CASE JobRunProcessing(r)
  BY <1>2 DEF JobRunProcessing, Mirror, Answer, Moved, Answers, Statuses, Active
<1>3. CASE ReadLlmSettings(r)
  <2>1. {"plain", "extract", "error"} \subseteq Answers
    BY DEF Answers
  <2>2. ret' \in [Runs -> Answers]
    BY ZenonT(60), <1>3, <2>1, AnswerType DEF ReadLlmSettings
  <2> QED BY <1>3, <2>2 DEF ReadLlmSettings
<1>4. CASE FinishJobRun(r)
  <2>1. ASSUME NEW c, NEW to \in Plans, Finish(r, c, to)
        PROVE  TypeOK'
    <3>1. to.status \in Terminal /\ to.result \in Stages \cup {"none"}
      BY DEF Plans
    <3>2. hooks' \in [Runs -> SUBSET Events]
      <4> HIDE DEF StoreTypes, ApiTypes, FlowTypes
      <4> QED BY <2>1, SubscribedAssumption DEF Finish, Announce
    <3>3. status' \in [Runs -> Statuses]
      BY <2>1, <3>1 DEF Finish, Statuses
    <3>4. resultOf' \in [Runs -> Stages \cup {"none"}]
      <4> HIDE DEF StoreTypes, ApiTypes, FlowTypes
      <4> QED BY <2>1, <3>1 DEF Finish
    <3>5. ret' \in [Runs -> Answers]
      <4>1. to.status \in Answers /\ status[r] \in Answers
        BY <3>1, StatusIsAnswer DEF Statuses
      <4> QED BY <2>1, <4>1, AnswerType DEF Finish
    <3>6. stored' \in SUBSET (Runs \X Stages)
      BY <2>1 DEF Finish, Unrecorded
    <3> QED BY <2>1, <3>2, <3>3, <3>4, <3>5, <3>6 DEF Finish
  <2>2. plan[r] \in Plans /\ InternalError \in Plans
    BY DEF InternalError, Plans, Terminal
  <2> QED BY <1>4, <2>1, <2>2 DEF FinishJobRun
<1>5. CASE CommitCharge(r)
  <2>1. ret' \in [Runs -> Answers]
    BY <1>5, StatusIsAnswer, AnswerType DEF CommitCharge
  <2>2. ledger' \in SUBSET (Runs \X Stages) /\ used' \in Nat
    BY <1>5 DEF CommitCharge
  <2>3. txn' \in [Runs -> Stages \cup {"none"}]
    BY <1>5 DEF CommitCharge
  <2> QED BY <1>5, <2>1, <2>2, <2>3 DEF CommitCharge
<1>6. ASSUME NEW s \in Stages, RecordOnStoppedRun(r, s)
      PROVE  TypeOK'
  BY <1>6 DEF RecordOnStoppedRun, Answer, Answers, Unrecorded
<1>7. ASSUME NEW s \in Stages, RecordAtWall(r, s)
      PROVE  TypeOK'
  BY <1>7 DEF RecordAtWall, Answer, Answers, Statuses, Terminal, Unrecorded
<1>8. ASSUME NEW s \in Stages, BeginCharge(r, s)
      PROVE  TypeOK'
  BY <1>8 DEF BeginCharge
<1>9. ASSUME NEW s \in Stages, WorkDone(r, s)
      PROVE  TypeOK'
  <2>1. ret' \in [Runs -> Answers]
    BY <1>9, AnswerType DEF WorkDone, Answers
  <2>2. stored' \in SUBSET (Runs \X Stages)
    <3>1. <<r, s>> \in Runs \X Stages
      BY <1>9
    <3> HIDE DEF RowTypes, ApiTypes, FlowTypes
    <3> QED BY <1>9, <3>1 DEF WorkDone
  <2> QED BY <1>9, <2>1, <2>2 DEF WorkDone
<1>10. ASSUME NEW s \in Stages, WorkFails(r, s)
       PROVE  TypeOK'
  <2>1. ret' \in [Runs -> Answers]
    BY <1>10, AnswerType DEF WorkFails, Answers
  <2> QED BY <1>10, <2>1 DEF WorkFails
<1> QED BY <1>1, <1>2, <1>3, <1>4, <1>5, <1>6, <1>7, <1>8, <1>9, <1>10 DEF Worker

(* What a call of the workflow writes. *)
StepTypes ==
    /\ pc \in [Runs -> Steps]
    /\ ret \in [Runs -> Answers]
    /\ asked \in [Runs -> SUBSET DbSteps]
    /\ plan \in [Runs -> Plans]

LEMMA CallType ==
  ASSUME StepTypes, NEW r \in Runs, NEW step \in Steps, Call(r, step)
  PROVE  /\ pc' \in [Runs -> Steps]
         /\ ret' \in [Runs -> Answers]
         /\ asked' \in [Runs -> SUBSET DbSteps]
BY DEF Call, StepTypes, Answers

LEMMA GotoType ==
  ASSUME StepTypes, NEW r \in Runs, NEW step \in Steps, Goto(r, step)
  PROVE  StepTypes'
BY CallType DEF Goto, StepTypes

LEMMA AskFinishType ==
  ASSUME StepTypes, NEW r \in Runs, NEW st \in Terminal, NEW res \in Stages \cup {"none"},
         NEW drop \in SUBSET Stages, AskFinish(r, st, res, drop)
  PROVE  StepTypes'
<1>1. "finish" \in Steps
  BY DEF Steps, DbSteps
<1>2. [status |-> st, result |-> res, discard |-> drop] \in Plans
  BY DEF Plans
<1> QED BY <1>1, <1>2, CallType DEF AskFinish, StepTypes

LEMMA WorkflowType ==
  ASSUME TypeOK, NEW r \in Runs, Workflow(r)
  PROVE  TypeOK'
<1> USE DEF TypeOK, FlowTypes, StepTypes, SameChoices
<1>1. ASSUME FlowOnly PROVE RowTypes' /\ StoreTypes' /\ ApiTypes' /\ abandoned' = abandoned
                            /\ gaveUp' = gaveUp /\ perils' = perils
  BY <1>1 DEF FlowOnly, rowVars, storeVars,
     apiVars, releaseVars, RowTypes, StoreTypes, ApiTypes
<1>2. FlowOnly => abandoned' \in [Runs -> SUBSET Stages] /\ gaveUp' \in [Runs -> BOOLEAN]
                  /\ perils' \in Nat
  BY <1>1
<1>3. ASSUME NEW step \in Steps, Goto(r, step)
      PROVE  StepTypes'
  BY <1>3, GotoType
<1>4. ASSUME NEW st \in Terminal, NEW res \in Stages \cup {"none"}, NEW drop \in SUBSET Stages,
             AskFinish(r, st, res, drop)
      PROVE  StepTypes'
  BY <1>4, AskFinishType
<1>5. CASE AfterStarted(r)
  BY SMTT(30), <1>5, <1>1, <1>3, <1>4 DEF AfterStarted, End, Steps, Terminal
<1>6. CASE HostSlotTaken(r)
  BY <1>6, <1>1, <1>3 DEF HostSlotTaken, Steps
<1>7. CASE AfterScrape(r)
  BY <1>7, <1>1, <1>3, <1>4 DEF AfterScrape, Steps, DbSteps, Terminal, Stages
<1>8. CASE AfterSettings(r)
  <2>1. withLlm' \in [Runs -> BOOLEAN]
    BY <1>8 DEF AfterSettings
  <2> QED BY <1>8, <1>1, <1>3, <1>4, <2>1 DEF AfterSettings, Steps, DbSteps, Terminal, Stages
<1>9. CASE AfterChargeScrape(r)
  BY <1>9, <1>1, <1>3, <1>4 DEF AfterChargeScrape, End, Steps, DbSteps, Terminal, Stages
<1>10. CASE AfterProcessing(r)
  BY <1>10, <1>1, <1>3 DEF AfterProcessing, End, Steps
<1>11. CASE AfterLlm(r)
  BY <1>11, <1>1, <1>3, <1>4 DEF AfterLlm, Steps, DbSteps, Terminal, Stages
<1>12. CASE AfterChargeLlm(r)
  BY <1>12, <1>1, <1>3, <1>4 DEF AfterChargeLlm, End, Steps, Terminal, Stages
<1>13. CASE AfterFinish(r)
  BY <1>13, <1>1, <1>3 DEF AfterFinish, End, Steps
<1> QED BY <1>5, <1>6, <1>7, <1>8, <1>9, <1>10, <1>11, <1>12, <1>13 DEF Workflow

LEMMA EnvironmentType ==
  ASSUME TypeOK, NEW r \in Runs, Environment(r)
  PROVE  TypeOK'
<1> USE DEF TypeOK, RowTypes, StoreTypes, ApiTypes, FlowTypes, rowVars, storeVars,
            apiVars, releaseVars, flowVars
<1>1. ASSUME NEW k, Peril(k) PROVE perils' \in Nat
  BY <1>1 DEF Peril
<1>2. CASE CreateRun(r)
  BY <1>2 DEF CreateRun, Statuses, Active
<1>3. CASE StartRefused(r) \/ ApiDies(r)
  BY <1>1, <1>3 DEF StartRefused, ApiDies
<1>4. CASE StartAmbiguous(r)
  BY <1>1, <1>4 DEF StartAmbiguous, Call, Steps, DbSteps, Answers
<1>5. CASE CancelRun(r)
  BY <1>5 DEF CancelRun, Statuses, Terminal
<1>6. ASSUME NEW d \in Releases, BeginDelete(r, d)
      PROVE  TypeOK'
  <2>1. PICK kept \in SUBSET {s \in Stages : <<r, s>> \in ledger} :
             /\ IF kept = {} THEN UNCHANGED perils ELSE Peril("minio")
             /\ deleting' = [deleting EXCEPT ![r][d] = IF kept = {} THEN "purge" ELSE "refuse"]
             /\ freed' = [freed EXCEPT ![r][d] = {s \in Stages : <<r, s>> \in ledger} \ kept]
             /\ stored' = stored \ Objects(r, {s \in Stages : <<r, s>> \in ledger} \ kept)
             /\ lost' = lost \cup Objects(r, {s \in Stages : <<r, s>> \in ledger} \ kept)
    BY <1>6 DEF BeginDelete
  <2>2. stored' \in SUBSET (Runs \X Stages) /\ lost' \in SUBSET (Runs \X Stages)
    BY <2>1 DEF Objects
  <2>3. perils' \in Nat
    BY <1>1, <2>1
  <2>4. deleting' \in [Runs -> [Releases -> {"no", "purge", "refuse"}]]
        /\ freed' \in [Runs -> [Releases -> SUBSET Stages]]
    BY <2>1
  <2> QED BY <1>6, <2>2, <2>3, <2>4 DEF BeginDelete
<1>7. ASSUME NEW d \in Releases, AbortDelete(r, d)
      PROVE  TypeOK'
  <2>1. perils' \in Nat
    BY <1>1, <1>7 DEF AbortDelete
  <2>2. /\ deleting' \in [Runs -> [Releases -> {"no", "purge", "refuse"}]]
        /\ freed' \in [Runs -> [Releases -> SUBSET Stages]]
        /\ stale' \in [Runs -> [Releases -> SUBSET Stages]]
    BY <1>7 DEF AbortDelete
  <2> QED BY <1>7, <2>1, <2>2 DEF AbortDelete
<1>8. CASE AbortCharge(r)
  BY <1>1, <1>8 DEF AbortCharge
<1>9. CASE GiveUp(r)
  <2>1. StepTypes
    BY DEF StepTypes
  <2>3. StepTypes'
    <3>1. CASE End(r) \/ Goto(r, "refinish")
      BY <2>1, <3>1, GotoType DEF End, Steps, DbSteps
    <3>2. ASSUME NEW s \in Stages, AskFinish(r, "failed", "none", {s})
          PROVE  StepTypes'
      <4>1. "failed" \in Terminal /\ "none" \in Stages \cup {"none"} /\ {s} \in SUBSET Stages
        BY DEF Terminal
      <4> QED BY <2>1, <3>2, <4>1, AskFinishType
    <3> QED BY <1>9, <3>1, <3>2 DEF GiveUp
  <2>4. gaveUp' \in [Runs -> BOOLEAN] /\ perils' \in Nat
    BY <1>1, <1>9 DEF GiveUp
  <2> QED BY <1>9, <2>3, <2>4 DEF GiveUp, StepTypes
<1>10. CASE CancelNotedByStep(r)
  BY <1>10 DEF CancelNotedByStep, FlowOnly
<1>11. CASE CancelDuringSlotWait(r)
  BY <1>11 DEF CancelDuringSlotWait, FlowOnly, AskFinish, Call, Steps, DbSteps, Answers,
     Plans, Terminal
<1>12. CASE CancelWithResult(r)
  <2>1. StepTypes
    BY DEF StepTypes
  <2>2. StepTypes'
    <3>1. CASE End(r)
      BY <2>1, <3>1, GotoType DEF End, Steps
    <3>2. CASE AskFinish(r, "cancelled", "none", {})
      <4>1. "cancelled" \in Terminal /\ "none" \in Stages \cup {"none"} /\ {} \in SUBSET Stages
        BY DEF Terminal
      <4> QED BY <2>1, <3>2, <4>1, AskFinishType
    <3> QED BY <1>12, <3>1, <3>2 DEF CancelWithResult
  <2>3. cancelled' \in [Runs -> {"no", "noted", "escaped"}] /\ perils' \in Nat
    BY <1>1, <1>12 DEF CancelWithResult
  <2> QED BY <1>12, <2>2, <2>3 DEF CancelWithResult, StepTypes
<1>13. ASSUME NEW s \in Stages, RecordAtWallDies(r, s)
       PROVE  TypeOK'
  BY <1>1, <1>13 DEF RecordAtWallDies, Unrecorded, Objects
<1>14. ASSUME NEW s \in Stages, AbandonAttempt(r, s)
       PROVE  TypeOK'
  <2>1. abandoned' \in [Runs -> SUBSET Stages] /\ perils' \in Nat
    BY <1>1, <1>14 DEF AbandonAttempt
  <2> QED BY <1>14, <2>1 DEF AbandonAttempt
<1>15. ASSUME NEW s \in Stages, AbandonedWrite(r, s)
       PROVE  TypeOK'
  <2>1. stored' \in SUBSET (Runs \X Stages)
    BY <1>15 DEF AbandonedWrite
  <2> QED BY <1>15, <2>1 DEF AbandonedWrite
<1> QED BY <1>2, <1>3, <1>4, <1>5, <1>6, <1>7, <1>8, <1>9, <1>10, <1>11, <1>12, <1>13, <1>14,
           <1>15 DEF Environment

LEMMA NextType == TypeOK /\ [Next]_vars => TypeOK'
<1> SUFFICES ASSUME TypeOK, [Next]_vars PROVE TypeOK'
  OBVIOUS
<1>1. CASE UNCHANGED vars
  BY <1>1 DEF vars, rowVars, storeVars,
     apiVars, releaseVars, flowVars, TypeOK, RowTypes, StoreTypes,
     ApiTypes, FlowTypes
<1>2. ASSUME NEW r \in Runs,
             Request(r) \/ Delete(r) \/ Worker(r) \/ Workflow(r) \/ Environment(r)
      PROVE  TypeOK'
  BY <1>2, RequestType, DeleteType, WorkerType, WorkflowType, EnvironmentType
<1> QED BY <1>1, <1>2 DEF Next

(* Every variable keeps its type, whatever perils strike. *)
THEOREM TypeCorrect == Spec => []TypeOK
<1> QED BY InitType, NextType, PTL DEF Spec

-----------------------------------------------------------------------------
(* The inductive invariant *)

(* Some release of the run's storage is under way.                         *)
Releasing(r) == \E d \in Releases : deleting[r][d] # "no"

(* A call is asked for only after the calls before it in the workflow, and *)
(* the workflow starts only after the row is there.                        *)
InOrder(r) ==
    /\ (request[r] = "idle") <=> (status[r] = "none")
    /\ Releasing(r) => status[r] # "none"
    /\ request[r] \in {"idle", "committed"} => pc[r] = "none"
    /\ pc[r] = "none" => asked[r] = {}
    /\ pc[r] \in DbSteps => pc[r] \in asked[r]
    /\ "finish" \in asked[r] => pc[r] \in {"finish", "refinish", "done"}
    /\ "chargeScrape" \in asked[r] =>
          pc[r] \notin {"none", "started", "slot", "scrape", "settings"}
    /\ "processing" \in asked[r] =>
          pc[r] \notin {"none", "started", "slot", "scrape", "settings", "chargeScrape"}
    /\ "chargeLlm" \in asked[r] => pc[r] \in {"chargeLlm", "finish", "refinish", "done"}

(* The row is at least as far as the workflow's awaited step says. *)
Reached(r) ==
    /\ status[r] = "processing" => "processing" \in asked[r]
    /\ pc[r] \notin {"none", "started", "done"} => status[r] # "pending"
    /\ "chargeScrape" \in asked[r] \/ "chargeLlm" \in asked[r] => status[r] # "pending"
    /\ pc[r] \in {"llm", "chargeLlm"} => status[r] # "running"

(* An answer that ends the workflow is given only on a stopped run. *)
Answered(r) ==
    /\ pc[r] = "started" /\ ret[r] # "no answer" =>
          status[r] # "pending" /\ (ret[r] # "running" => status[r] \notin Active)
    /\ pc[r] = "chargeScrape" /\ ret[r] \notin {"no answer", "running"} =>
          status[r] \notin Active
    /\ pc[r] = "processing" /\ ret[r] # "no answer" =>
          status[r] # "running" /\ (ret[r] # "processing" => status[r] \notin Active)
    /\ pc[r] = "chargeLlm" /\ ret[r] \notin {"no answer", "processing"} =>
          status[r] \notin Active
    /\ pc[r] \in {"finish", "refinish"} /\ ret[r] # "no answer" => status[r] \notin Active
    /\ pc[r] = "done" /\ status[r] \in Active => gaveUp[r] \/ cancelled[r] = "escaped"

Charged(r, s) == status[r] = "gone" \/ <<r, s>> \in ledger \cup lost

(* A completion is planned only once its result is charged ... *)
PaidFirst(r) ==
    /\ \A s \in Stages : pc[r] = Charge[s] /\ ret[r] \in Active => Charged(r, s)
    /\ "finish" \in asked[r] /\ plan[r].status = "completed" =>
          plan[r].result \in Stages /\ Charged(r, plan[r].result)
    /\ status[r] = "completed" => resultOf[r] \in Stages /\ Charged(r, resultOf[r])

(* ... and names the result of the last stage the run went through. *)
RightResult(r) ==
    "finish" \in asked[r] /\ plan[r].status = "completed" =>
        /\ status[r] # "pending"
        /\ plan[r].result = "scrape" => "processing" \notin asked[r]
        /\ plan[r].result = "llm" => status[r] # "running"

(* What an active run may still charge is there to be charged. *)
InStore(r, s) == <<r, s>> \in stored \cup lost

Chargeable(r) ==
    /\ \A s \in Stages : Charge[s] \in asked[r] /\ status[r] \in Active => InStore(r, s)
    /\ (pc[r] = "scrape" /\ ret[r] = "ok") \/ pc[r] = "settings" => InStore(r, "scrape")
    /\ pc[r] = "llm" /\ ret[r] = "ok" => InStore(r, "llm")
    /\ \A s \in Stages : txn[r] = s => Charge[s] \in asked[r] /\ status[r] \in Active

(* Released rows are still rows, and their objects are gone. *)
Released(r) == \A d \in Releases : Objects(r, freed[r][d]) \subseteq ledger \cap lost

FlowInv == \A r \in Runs : InOrder(r) /\ Reached(r) /\ Answered(r)
PayInv == \A r \in Runs : Released(r) /\ PaidFirst(r) /\ RightResult(r)

-----------------------------------------------------------------------------
(* A step of one run touches nothing of the others *)

Step(r) == Request(r) \/ Delete(r) \/ Worker(r) \/ Workflow(r) \/ Environment(r)

SameRun(q) ==
    /\ status'[q] = status[q] /\ resultOf'[q] = resultOf[q]
    /\ txn'[q] = txn[q] /\ freed'[q] = freed[q] /\ deleting'[q] = deleting[q]
    /\ request'[q] = request[q]
    /\ pc'[q] = pc[q] /\ ret'[q] = ret[q] /\ asked'[q] = asked[q] /\ plan'[q] = plan[q]
    /\ cancelled'[q] = cancelled[q] /\ gaveUp'[q] = gaveUp[q]

SameObjects(q) ==
    \A s \in Stages :
        /\ <<q, s>> \in ledger' <=> <<q, s>> \in ledger
        /\ <<q, s>> \in stored' <=> <<q, s>> \in stored
        /\ <<q, s>> \in lost' <=> <<q, s>> \in lost

LEMMA RequestLocal ==
  ASSUME TypeOK, NEW r \in Runs, NEW q \in Runs, q # r, Request(r)
  PROVE  SameRun(q) /\ SameObjects(q)
<1> USE DEF TypeOK, RowTypes, ApiTypes, FlowTypes, rowVars, storeVars,
            apiVars, releaseVars, flowVars
<1>1. CASE StartWorkflow(r)
  BY <1>1 DEF StartWorkflow, Call, SameRun, SameObjects
<1>2. CASE FailUnstartedRun(r)
  BY <1>2 DEF FailUnstartedRun, Announce, SameRun, SameObjects
<1> QED BY <1>1, <1>2 DEF Request

LEMMA DeleteLocal ==
  ASSUME TypeOK, NEW r \in Runs, NEW q \in Runs, q # r, Delete(r)
  PROVE  SameRun(q) /\ SameObjects(q)
<1> USE DEF TypeOK, RowTypes, ApiTypes, FlowTypes, rowVars, storeVars,
            apiVars, releaseVars, flowVars
<1>1. ASSUME NEW d \in Releases, CommitDelete(r, d) PROVE SameRun(q) /\ SameObjects(q)
  BY <1>1 DEF CommitDelete, Take, Objects, SameRun, SameObjects
<1>2. ASSUME NEW d \in Releases, RefuseDelete(r, d) PROVE SameRun(q) /\ SameObjects(q)
  BY <1>2 DEF RefuseDelete, Take, Objects, SameRun, SameObjects
<1> QED BY <1>1, <1>2 DEF Delete

LEMMA WorkerLocal ==
  ASSUME TypeOK, NEW r \in Runs, NEW q \in Runs, q # r, Worker(r)
  PROVE  SameRun(q) /\ SameObjects(q)
<1> USE DEF TypeOK, RowTypes, StoreTypes, ApiTypes, FlowTypes, rowVars, storeVars,
            apiVars, releaseVars, flowVars, SameRun, SameObjects, Answer
<1>1. CASE JobRunStarted(r)
  BY <1>1 DEF JobRunStarted, Mirror
<1>2. CASE JobRunProcessing(r)
  BY <1>2 DEF JobRunProcessing, Mirror
<1>3. CASE ReadLlmSettings(r)
  BY <1>3 DEF ReadLlmSettings
<1>4. ASSUME NEW c, NEW to, Finish(r, c, to)
      PROVE  SameRun(q) /\ SameObjects(q)
  BY <1>4 DEF Finish, Unrecorded, Objects, Announce
<1>5. CASE CommitCharge(r)
  BY <1>5 DEF CommitCharge
<1>6. ASSUME NEW s \in Stages, RecordOnStoppedRun(r, s)
      PROVE  SameRun(q) /\ SameObjects(q)
  BY <1>6 DEF RecordOnStoppedRun, Unrecorded, Objects
<1>7. ASSUME NEW s \in Stages, RecordAtWall(r, s)
      PROVE  SameRun(q) /\ SameObjects(q)
  BY <1>7 DEF RecordAtWall, Unrecorded, Objects
<1>8. ASSUME NEW s \in Stages, BeginCharge(r, s)
      PROVE  SameRun(q) /\ SameObjects(q)
  BY <1>8 DEF BeginCharge
<1>9. ASSUME NEW s \in Stages, WorkDone(r, s)
      PROVE  SameRun(q) /\ SameObjects(q)
  BY <1>9 DEF WorkDone
<1>10. ASSUME NEW s \in Stages, WorkFails(r, s)
       PROVE  SameRun(q) /\ SameObjects(q)
  BY <1>10 DEF WorkFails
<1> QED BY <1>1, <1>2, <1>3, <1>4, <1>5, <1>6, <1>7, <1>8, <1>9, <1>10 DEF Worker, FinishJobRun

(* What one step of the workflow leaves alone, whatever its branch. *)
LEMMA WorkflowOnly ==
  ASSUME NEW r \in Runs, Workflow(r)
  PROVE  /\ FlowOnly
         /\ cancelled' = cancelled
         /\ \/ \E step : Goto(r, step)
            \/ \E st, res, drop : AskFinish(r, st, res, drop)
BY DEF Workflow, SameChoices, AfterStarted, HostSlotTaken, AfterScrape, AfterSettings,
   AfterChargeScrape, AfterProcessing, AfterLlm, AfterChargeLlm, AfterFinish, End

LEMMA CallLocal ==
  ASSUME TypeOK, NEW r \in Runs, NEW q \in Runs, q # r,
         \/ \E step : Goto(r, step)
         \/ \E st, res, drop : AskFinish(r, st, res, drop)
  PROVE  pc'[q] = pc[q] /\ ret'[q] = ret[q] /\ asked'[q] = asked[q] /\ plan'[q] = plan[q]
BY DEF TypeOK, FlowTypes, Goto, AskFinish, Call

LEMMA WorkflowLocal ==
  ASSUME TypeOK, NEW r \in Runs, NEW q \in Runs, q # r, Workflow(r)
  PROVE  SameRun(q) /\ SameObjects(q)
BY WorkflowOnly, CallLocal
   DEF FlowOnly, SameRun, SameObjects, rowVars, storeVars, apiVars, releaseVars

LEMMA EnvironmentLocal ==
  ASSUME TypeOK, NEW r \in Runs, NEW q \in Runs, q # r, Environment(r)
  PROVE  SameRun(q) /\ SameObjects(q)
<1> USE DEF TypeOK, RowTypes, StoreTypes, ApiTypes, FlowTypes, rowVars, storeVars,
            apiVars, releaseVars, flowVars, SameRun, SameObjects
<1>1. CASE CreateRun(r)
  BY <1>1 DEF CreateRun
<1>2. CASE StartRefused(r) \/ ApiDies(r)
  BY <1>2 DEF StartRefused, ApiDies
<1>3. CASE StartAmbiguous(r)
  BY <1>3 DEF StartAmbiguous, Call
<1>4. CASE CancelRun(r)
  BY <1>4 DEF CancelRun
<1>5. ASSUME NEW d \in Releases, BeginDelete(r, d)
      PROVE  SameRun(q) /\ SameObjects(q)
  BY <1>5 DEF BeginDelete, Objects
<1>6. ASSUME NEW d \in Releases, AbortDelete(r, d)
      PROVE  SameRun(q) /\ SameObjects(q)
  BY <1>6 DEF AbortDelete
<1>7. CASE AbortCharge(r)
  BY <1>7 DEF AbortCharge
<1>8. CASE GiveUp(r)
  BY <1>8, CallLocal DEF GiveUp, End
<1>9. CASE CancelNotedByStep(r)
  BY <1>9 DEF CancelNotedByStep, FlowOnly
<1>10. CASE CancelDuringSlotWait(r)
  BY <1>10, CallLocal DEF CancelDuringSlotWait, FlowOnly
<1>11. CASE CancelWithResult(r)
  BY ZenonT(60), <1>11, CallLocal DEF CancelWithResult, End
<1>12. ASSUME NEW s \in Stages, RecordAtWallDies(r, s)
       PROVE  SameRun(q) /\ SameObjects(q)
  BY <1>12 DEF RecordAtWallDies, Unrecorded, Objects
<1>13. ASSUME NEW s \in Stages, AbandonAttempt(r, s)
       PROVE  SameRun(q) /\ SameObjects(q)
  BY <1>13 DEF AbandonAttempt
<1>14. ASSUME NEW s \in Stages, AbandonedWrite(r, s)
       PROVE  SameRun(q) /\ SameObjects(q)
  BY <1>14 DEF AbandonedWrite
<1> QED BY <1>1, <1>2, <1>3, <1>4, <1>5, <1>6, <1>7, <1>8, <1>9, <1>10, <1>11, <1>12, <1>13, <1>14
        DEF Environment

LEMMA StepsAreLocal ==
  ASSUME TypeOK, NEW r \in Runs, NEW q \in Runs, q # r, Step(r)
  PROVE  SameRun(q) /\ SameObjects(q)
BY RequestLocal, DeleteLocal, WorkerLocal, WorkflowLocal, EnvironmentLocal DEF Step

-----------------------------------------------------------------------------
(* What each step does to its run *)

LEMMA DbStepKinds ==
    /\ "started" \in DbSteps /\ "settings" \in DbSteps /\ "chargeScrape" \in DbSteps
    /\ "processing" \in DbSteps /\ "chargeLlm" \in DbSteps /\ "finish" \in DbSteps
    /\ "refinish" \in DbSteps
    /\ "slot" \notin DbSteps /\ "scrape" \notin DbSteps /\ "llm" \notin DbSteps
    /\ "done" \notin DbSteps /\ "none" \notin DbSteps
BY DEF DbSteps

LEMMA GotoEffect ==
  ASSUME TypeOK, NEW r \in Runs, NEW step, Goto(r, step)
  PROVE  /\ pc'[r] = step /\ ret'[r] = "no answer" /\ plan'[r] = plan[r]
         /\ step \in DbSteps => asked'[r] = asked[r] \cup {step}
         /\ step \notin DbSteps => asked'[r] = asked[r]
<1>1. /\ pc'[r] = step /\ ret'[r] = "no answer" /\ plan'[r] = plan[r]
      /\ asked'[r] = asked[r] \cup ({step} \cap DbSteps)
  BY DEF TypeOK, FlowTypes, Goto, Call
<1>2. step \in DbSteps => {step} \cap DbSteps = {step}
  OBVIOUS
<1>3. step \notin DbSteps => {step} \cap DbSteps = {} /\ asked[r] \cup {} = asked[r]
  OBVIOUS
<1> QED BY <1>1, <1>2, <1>3

LEMMA AskFinishEffect ==
  ASSUME TypeOK, NEW r \in Runs, NEW st, NEW res, NEW drop, AskFinish(r, st, res, drop)
  PROVE  /\ pc'[r] = "finish" /\ ret'[r] = "no answer"
         /\ asked'[r] = asked[r] \cup {"finish"}
         /\ plan'[r].status = st /\ plan'[r].result = res
<1>1. /\ pc'[r] = "finish" /\ ret'[r] = "no answer"
      /\ asked'[r] = asked[r] \cup {"finish"}
  BY DEF TypeOK, FlowTypes, AskFinish, Call, DbSteps
<1>2. plan'[r] = [status |-> st, result |-> res, discard |-> drop]
  BY DEF TypeOK, FlowTypes, AskFinish
<1>3. plan'[r].status = st
  BY ONLY <1>2
<1>4. plan'[r].result = res
  BY ONLY <1>2
<1> QED BY <1>1, <1>3, <1>4

Ends(r) == pc'[r] = "done" /\ asked'[r] = asked[r] /\ plan'[r] = plan[r]

Asks(r, step) == pc'[r] = step /\ asked'[r] = asked[r] \cup {step} /\ plan'[r] = plan[r]

Does(r, step) == pc'[r] = step /\ asked'[r] = asked[r] /\ plan'[r] = plan[r]

Stops(r) == pc'[r] = "finish" /\ asked'[r] = asked[r] \cup {"finish"} /\ plan'[r].status # "completed"

Completes(r, s) ==
    /\ pc'[r] = "finish" /\ asked'[r] = asked[r] \cup {"finish"}
    /\ plan'[r].status = "completed" /\ plan'[r].result = s

LEMMA CallEffect ==
  ASSUME TypeOK, NEW r \in Runs
  PROVE  /\ End(r) => Ends(r) /\ ret'[r] = "no answer"
         /\ \A step \in DbSteps : Goto(r, step) => Asks(r, step) /\ ret'[r] = "no answer"
         /\ \A step \in {"slot", "scrape", "llm"} :
               Goto(r, step) => Does(r, step) /\ ret'[r] = "no answer"
<1>1. End(r) => Ends(r) /\ ret'[r] = "no answer"
  BY GotoEffect, DbStepKinds DEF End, Ends
<1>2. \A step \in DbSteps : Goto(r, step) => Asks(r, step) /\ ret'[r] = "no answer"
  BY GotoEffect DEF Asks
<1>3. \A step \in {"slot", "scrape", "llm"} :
          Goto(r, step) => Does(r, step) /\ ret'[r] = "no answer"
  BY GotoEffect, DbStepKinds DEF Does
<1> QED BY <1>1, <1>2, <1>3

LEMMA StopEffect ==
  ASSUME TypeOK, NEW r \in Runs, NEW st \in {"failed", "cancelled"}, NEW res, NEW drop,
         AskFinish(r, st, res, drop)
  PROVE  Stops(r) /\ ret'[r] = "no answer"
BY AskFinishEffect DEF Stops

LEMMA CompleteEffect ==
  ASSUME TypeOK, NEW r \in Runs, NEW s, NEW drop, AskFinish(r, "completed", s, drop)
  PROVE  Completes(r, s) /\ ret'[r] = "no answer"
BY AskFinishEffect DEF Completes

(* The workflow between two awaits: from which answers it goes where. *)
WorkflowEffectOf(r) ==
    \/ pc[r] = "started" /\ ret[r] \notin {"running", "no answer"} /\ Ends(r)
    \/ pc[r] = "started" /\ ret[r] = "running" /\ (Stops(r) \/ Does(r, "slot"))
    \/ pc[r] = "slot" /\ Does(r, "scrape")
    \/ pc[r] = "scrape" /\ Stops(r)
    \/ pc[r] = "scrape" /\ ret[r] = "ok" /\ Asks(r, "settings")
    \/ pc[r] = "settings" /\ (Stops(r) \/ Asks(r, "chargeScrape"))
    \/ pc[r] = "chargeScrape" /\ ret[r] \notin {"running", "no answer"} /\ Ends(r)
    \/ pc[r] = "chargeScrape" /\ ret[r] = "running"
         /\ (Completes(r, "scrape") \/ Stops(r) \/ Asks(r, "processing"))
    \/ pc[r] = "processing" /\ ret[r] \notin {"processing", "no answer"} /\ Ends(r)
    \/ pc[r] = "processing" /\ ret[r] = "processing" /\ Does(r, "llm")
    \/ pc[r] = "llm" /\ Stops(r)
    \/ pc[r] = "llm" /\ ret[r] = "ok" /\ Asks(r, "chargeLlm")
    \/ pc[r] = "chargeLlm" /\ ret[r] \notin {"processing", "no answer"} /\ Ends(r)
    \/ pc[r] = "chargeLlm" /\ ret[r] = "processing" /\ Completes(r, "llm")
    \/ pc[r] \in {"finish", "refinish"} /\ ret[r] # "no answer" /\ Ends(r)

LEMMA WorkflowEffect ==
  ASSUME TypeOK, NEW r \in Runs, Workflow(r)
  PROVE  WorkflowEffectOf(r) /\ ret'[r] = "no answer"
<1> USE CallEffect, StopEffect, CompleteEffect, DbStepKinds DEF Has, WorkflowEffectOf
<1>1. CASE AfterStarted(r)
  BY <1>1 DEF AfterStarted
<1>2. CASE HostSlotTaken(r)
  BY <1>2 DEF HostSlotTaken
<1>3. CASE AfterScrape(r)
  BY <1>3 DEF AfterScrape
<1>4. CASE AfterSettings(r)
  BY <1>4 DEF AfterSettings
<1>5. CASE AfterChargeScrape(r)
  BY <1>5 DEF AfterChargeScrape
<1>6. CASE AfterProcessing(r)
  BY <1>6 DEF AfterProcessing
<1>7. CASE AfterLlm(r)
  BY <1>7 DEF AfterLlm
<1>8. CASE AfterChargeLlm(r)
  BY <1>8 DEF AfterChargeLlm
<1>9. CASE AfterFinish(r)
  BY <1>9 DEF AfterFinish
<1> QED BY <1>1, <1>2, <1>3, <1>4, <1>5, <1>6, <1>7, <1>8, <1>9 DEF Workflow

(* The workers, without the EXCEPTs. *)
SameRow(r) == status'[r] = status[r] /\ resultOf'[r] = resultOf[r]

SameDelete(r) == deleting'[r] = deleting[r] /\ freed'[r] = freed[r]

SameStore(r) == ledger' = ledger /\ stored' = stored /\ lost' = lost /\ txn'[r] = txn[r]

Replies(r, c, a) == ret'[r] = IF pc[r] = c THEN a ELSE ret[r]

Mirrors(r, c, from, to) ==
    /\ c \in asked[r]
    /\ status'[r] = IF status[r] = from THEN to ELSE status[r]
    /\ resultOf'[r] = resultOf[r]
    /\ Replies(r, c, status'[r])
    /\ SameStore(r)

ReadsSettings(r) ==
    pc[r] = "settings" /\ ret'[r] # "no answer" /\ SameRow(r) /\ SameStore(r)

Finishes(r, c, to) ==
    /\ c \in asked[r]
    /\ stored' = stored \ Unrecorded(r, to.discard)
    /\ ledger' = ledger /\ lost' = lost /\ txn'[r] = txn[r] /\ txn[r] = "none"
    /\ IF status[r] \in Active
         THEN /\ status'[r] = to.status
              /\ resultOf'[r] = IF to.status = "completed" THEN to.result ELSE resultOf[r]
              /\ Replies(r, c, to.status)
         ELSE SameRow(r) /\ Replies(r, c, status[r])

DropsObjects(r, s) ==
    /\ Charge[s] \in asked[r] /\ txn[r] = "none" /\ txn'[r] = "none"
    /\ stored' = stored \ Unrecorded(r, {s}) /\ ledger' = ledger /\ lost' = lost
    /\ IF status[r] \in Active
         THEN status'[r] = "failed" /\ resultOf'[r] = resultOf[r] /\ Replies(r, Charge[s], "failed")
         ELSE SameRow(r) /\ Replies(r, Charge[s], status[r])

OpensCharge(r, s) ==
    /\ Charge[s] \in asked[r] /\ status[r] \in Active /\ txn'[r] = s
    /\ ledger' = ledger /\ stored' = stored /\ lost' = lost
    /\ SameRow(r) /\ ret'[r] = ret[r]

ClosesCharge(r) ==
    /\ txn[r] \in Stages /\ txn'[r] = "none"
    /\ ledger' = ledger \cup {<<r, txn[r]>>} /\ stored' = stored /\ lost' = lost
    /\ SameRow(r) /\ Replies(r, Charge[txn[r]], status[r])

Works(r, s) ==
    /\ pc[r] = Work[s] /\ ret[r] = "no answer"
    /\ ledger' = ledger /\ lost' = lost /\ txn'[r] = txn[r] /\ SameRow(r)
    /\ \/ ret'[r] = "ok" /\ stored' = stored \cup {<<r, s>>}
       \/ ret'[r] = "error" /\ stored' = stored

WorkerEffectOf(r) ==
    \/ Mirrors(r, "started", "pending", "running")
    \/ Mirrors(r, "processing", "running", "processing")
    \/ ReadsSettings(r)
    \/ Finishes(r, "finish", plan[r])
    \/ Finishes(r, "refinish", InternalError)
    \/ ClosesCharge(r)
    \/ \E s \in Stages : DropsObjects(r, s) \/ OpensCharge(r, s) \/ Works(r, s)

LEMMA WorkerEffect ==
  ASSUME TypeOK, NEW r \in Runs, Worker(r)
  PROVE  /\ WorkerEffectOf(r)
         /\ UNCHANGED <<request, deleting, freed, pc, asked, plan, gaveUp, cancelled>>
<1> USE DEF WorkerEffectOf, SameRow, SameStore, Replies, Attempt, apiVars, releaseVars
<1>1. ASSUME NEW c, NEW a, Answer(r, c, a) PROVE ret'[r] = IF pc[r] = c THEN a ELSE ret[r]
  BY <1>1 DEF Answer, TypeOK, FlowTypes
<1>2. ASSUME NEW c, NEW from, NEW to, Mirror(r, c, from, to)
      PROVE  /\ Mirrors(r, c, from, to)
             /\ UNCHANGED <<request, deleting, freed, pc, asked, plan, gaveUp, cancelled>>
  <2>1. status'[r] = Moved(r, from, to)
    BY <1>2 DEF Mirror, TypeOK, RowTypes
  <2> QED BY <1>1, <1>2, <2>1 DEF Mirror, Mirrors, Moved, storeVars
<1>3. CASE ReadLlmSettings(r)
  <2>1. ret'[r] # "no answer"
    BY <1>3 DEF ReadLlmSettings, TypeOK, FlowTypes
  <2> QED BY <1>3, <2>1 DEF ReadLlmSettings, ReadsSettings, rowVars, storeVars
<1>4. ASSUME NEW c, NEW to, Finish(r, c, to)
      PROVE  /\ Finishes(r, c, to)
             /\ UNCHANGED <<request, deleting, freed, pc, asked, plan, gaveUp, cancelled>>
  <2>1. CASE status[r] \in Active
    <3>1. /\ status'[r] = to.status
          /\ resultOf'[r] = IF to.status = "completed" THEN to.result ELSE resultOf[r]
      BY <1>4, <2>1 DEF Finish, TypeOK, RowTypes
    <3> QED BY <1>1, <1>4, <2>1, <3>1 DEF Finish, Finishes
  <2>2. CASE status[r] \notin Active
    BY <1>1, <1>4, <2>2 DEF Finish, Finishes
  <2> QED BY <2>1, <2>2
<1>5. CASE CommitCharge(r)
  <2>1. txn'[r] = "none"
    BY <1>5 DEF CommitCharge, TypeOK, StoreTypes
  <2> QED BY <1>1, <1>5, <2>1 DEF CommitCharge, ClosesCharge, rowVars
<1>6. ASSUME NEW s \in Stages, RecordOnStoppedRun(r, s)
      PROVE  /\ DropsObjects(r, s)
             /\ UNCHANGED <<request, deleting, freed, pc, asked, plan, gaveUp, cancelled>>
  BY <1>1, <1>6 DEF RecordOnStoppedRun, DropsObjects, rowVars
<1>7. ASSUME NEW s \in Stages, RecordAtWall(r, s)
      PROVE  /\ DropsObjects(r, s)
             /\ UNCHANGED <<request, deleting, freed, pc, asked, plan, gaveUp, cancelled>>
  <2>1. status'[r] = "failed"
    BY <1>7 DEF RecordAtWall, TypeOK, RowTypes
  <2> QED BY <1>1, <1>7, <2>1 DEF RecordAtWall, DropsObjects
<1>8. ASSUME NEW s \in Stages, BeginCharge(r, s)
      PROVE  /\ OpensCharge(r, s)
             /\ UNCHANGED <<request, deleting, freed, pc, asked, plan, gaveUp, cancelled>>
  <2>1. txn'[r] = s
    BY <1>8 DEF BeginCharge, TypeOK, StoreTypes
  <2> QED BY <1>8, <2>1 DEF BeginCharge, OpensCharge, rowVars, flowVars
<1>9. ASSUME NEW s \in Stages, WorkDone(r, s) \/ WorkFails(r, s)
      PROVE  /\ Works(r, s)
             /\ UNCHANGED <<request, deleting, freed, pc, asked, plan, gaveUp, cancelled>>
  <2>1. WorkDone(r, s) => ret'[r] = "ok"
    BY DEF WorkDone, TypeOK, FlowTypes
  <2>2. WorkFails(r, s) => ret'[r] = "error"
    BY DEF WorkFails, TypeOK, FlowTypes
  <2> QED BY <1>9, <2>1, <2>2 DEF WorkDone, WorkFails, Works, rowVars, storeVars
<1> QED BY <1>2, <1>3, <1>4, <1>5, <1>6, <1>7, <1>8, <1>9
        DEF Worker, JobRunStarted, JobRunProcessing, FinishJobRun

(* The API and the environment, without the EXCEPTs. *)
SameFlow(r) ==
    /\ pc'[r] = pc[r] /\ ret'[r] = ret[r] /\ asked'[r] = asked[r] /\ plan'[r] = plan[r]
    /\ gaveUp'[r] = gaveUp[r]

Starts(r) ==
    /\ request[r] = "committed" /\ request'[r] \in {"over", "refused"}
    /\ Asks(r, "started") /\ ret'[r] = "no answer"
    /\ SameRow(r) /\ SameStore(r) /\ SameDelete(r)
    /\ cancelled'[r] = cancelled[r] /\ gaveUp'[r] = gaveUp[r]

Requests(r) ==
    /\ request[r] # "idle" /\ request'[r] \in {"over", "refused"}
    /\ resultOf'[r] = resultOf[r]
    /\ \/ status'[r] = status[r]
       \/ status[r] # "gone" /\ status'[r] = "failed"
    /\ txn[r] = "none" \/ status'[r] = status[r]
    /\ SameStore(r) /\ SameFlow(r) /\ cancelled'[r] = cancelled[r] /\ SameDelete(r)

Creates(r) ==
    /\ request[r] = "idle" /\ request'[r] = "committed"
    /\ status'[r] = "pending" /\ resultOf'[r] = resultOf[r]
    /\ SameStore(r) /\ SameFlow(r) /\ cancelled'[r] = cancelled[r] /\ SameDelete(r)

Cancels(r) ==
    /\ status[r] \in Active /\ status'[r] = "cancelled" /\ txn[r] = "none"
    /\ request'[r] = request[r] /\ resultOf'[r] = resultOf[r]
    /\ SameStore(r) /\ SameFlow(r) /\ cancelled'[r] = cancelled[r] /\ SameDelete(r)

(* Objects are deleted and their rows released, ...                        *)
Marks(r) ==
    /\ ledger' = ledger /\ status'[r] = status[r]
    /\ \E S \in SUBSET Stages :
          /\ Objects(r, S) \subseteq ledger
          /\ stored' = stored \ Objects(r, S)
          /\ lost' = lost \cup Objects(r, S)
          /\ \A d \in Releases : freed'[r][d] \subseteq freed[r][d] \cup S

(* ... and rows go, released ones or with the run.                         *)
Drops(r) ==
    /\ stored' = stored /\ lost' = lost
    /\ \E rows \in SUBSET Stages :
          /\ ledger' = ledger \ Objects(r, rows)
          /\ \A d \in Releases : freed'[r][d] \subseteq freed[r][d] \ rows
          /\ \/ status'[r] = "gone"
             \/ rows = {}
             \/ \E d \in Releases : rows = freed[r][d]

Deletes(r) ==
    /\ request'[r] = request[r] /\ resultOf'[r] = resultOf[r]
    /\ SameFlow(r) /\ cancelled'[r] = cancelled[r] /\ txn'[r] = txn[r]
    /\ Releasing(r) \/ status[r] # "none"
    /\ status'[r] = status[r] \/ (status'[r] = "gone" /\ txn[r] = "none")
    /\ ledger' \subseteq ledger
    /\ Marks(r) \/ Drops(r)

Interrupts(r) ==
    /\ request'[r] = request[r] /\ SameRow(r) /\ SameStore(r) /\ SameDelete(r)
    /\ \/ /\ pc[r] \in DbSteps /\ gaveUp'[r] = TRUE /\ ret'[r] = "no answer"
          /\ Ends(r) \/ Asks(r, "refinish") \/ Stops(r)
          /\ cancelled'[r] = cancelled[r]
          /\ pc[r] \in {"finish", "refinish"} => ~Stops(r)
          /\ pc[r] \in {"started", "refinish"} => Ends(r)
       \/ SameFlow(r) /\ pc[r] # "done" /\ cancelled'[r] = "noted"
       \/ pc[r] = "slot" /\ Stops(r) /\ ret'[r] = "no answer" /\ cancelled'[r] = "noted"
             /\ gaveUp'[r] = gaveUp[r]
       \/ pc[r] \in DbSteps \cup {"scrape", "llm"} /\ ret'[r] = "no answer"
             /\ cancelled'[r] = "escaped" /\ gaveUp'[r] = gaveUp[r]
             /\ ((pc[r] = "scrape" /\ Stops(r)) \/ Ends(r))

Loses(r) ==
    /\ request'[r] = request[r] /\ SameRow(r) /\ SameFlow(r) /\ cancelled'[r] = cancelled[r]
    /\ SameDelete(r) /\ ledger' = ledger
    /\ \/ \E s \in Stages : /\ stored' = stored \ Unrecorded(r, {s})
                            /\ lost' = lost \cup Unrecorded(r, {s})
                            /\ txn'[r] = txn[r]
       \/ txn'[r] = "none" /\ stored' = stored /\ lost' = lost
       \/ /\ txn'[r] = txn[r] /\ stored \subseteq stored' /\ lost' = lost
          /\ abandoned'[r] # {}

LEMMA RequestEffect ==
  ASSUME TypeOK, NEW r \in Runs, Request(r)
  PROVE  Starts(r) \/ Requests(r)
<1> USE DEF TypeOK, RowTypes, StoreTypes, ApiTypes, FlowTypes, rowVars, storeVars,
            apiVars, releaseVars, flowVars, SameRow, SameStore, SameFlow,
            SameDelete
<1>1. CASE StartWorkflow(r)
  BY <1>1, DbStepKinds DEF StartWorkflow, Call, Starts, Asks
<1>2. CASE FailUnstartedRun(r)
  BY <1>2 DEF FailUnstartedRun, Requests
<1> QED BY <1>1, <1>2 DEF Request

LEMMA TakeEffect ==
  ASSUME TypeOK, NEW r \in Runs, NEW d \in Releases, NEW rows \in SUBSET Stages, Take(r, d, rows)
  PROVE  /\ ledger' = ledger \ Objects(r, rows)
         /\ \A e \in Releases : freed'[r][e] \subseteq freed[r][e] \ rows
BY DEF TypeOK, ApiTypes, Take

LEMMA DeleteEffect ==
  ASSUME TypeOK, NEW r \in Runs,
         \/ Delete(r)
         \/ \E d \in Releases : BeginDelete(r, d) \/ AbortDelete(r, d)
  PROVE  Deletes(r)
<1> USE DEF rowVars, storeVars, apiVars, releaseVars, flowVars, SameFlow
<1>1. ASSUME NEW d \in Releases, CommitDelete(r, d) PROVE Deletes(r)
  <2>1. Stages \in SUBSET Stages
    OBVIOUS
  <2>2. status'[r] = "gone"
    BY <1>1 DEF CommitDelete, TypeOK, RowTypes
  <2>3. Take(r, d, Stages) /\ stored' = stored /\ lost' = lost
    BY <1>1 DEF CommitDelete
  <2>4. Drops(r)
    BY <2>1, <2>2, <2>3, TakeEffect DEF Drops
  <2>5. ledger' \subseteq ledger
    BY <2>3 DEF Take
  <2> QED BY <1>1, <2>2, <2>4, <2>5 DEF CommitDelete, Deletes, Releasing
<1>2. ASSUME NEW d \in Releases, RefuseDelete(r, d) PROVE Deletes(r)
  <2>1. freed[r][d] \in SUBSET Stages
    BY DEF TypeOK, ApiTypes
  <2>2. Take(r, d, freed[r][d]) /\ stored' = stored /\ lost' = lost
    BY <1>2 DEF RefuseDelete
  <2>3. Drops(r)
    BY <2>1, <2>2, TakeEffect DEF Drops
  <2>4. ledger' \subseteq ledger
    BY <2>2 DEF Take
  <2> QED BY <1>2, <2>3, <2>4 DEF RefuseDelete, Deletes, Releasing
<1>3. ASSUME NEW d \in Releases, AbortDelete(r, d) PROVE Deletes(r)
  <2>1. {} \in SUBSET Stages /\ ledger' = ledger \ Objects(r, {})
    BY <1>3 DEF AbortDelete, Objects
  <2>2. \A e \in Releases : freed'[r][e] \subseteq freed[r][e] \ {}
    BY <1>3 DEF AbortDelete, TypeOK, ApiTypes
  <2>3. Drops(r)
    BY <1>3, <2>1, <2>2 DEF AbortDelete, Drops
  <2> QED BY <1>3, <2>3 DEF AbortDelete, Deletes, Releasing
<1>4. ASSUME NEW d \in Releases, BeginDelete(r, d) PROVE Deletes(r)
  <2>1. PICK kept \in SUBSET {s \in Stages : <<r, s>> \in ledger} :
             /\ freed' = [freed EXCEPT ![r][d] = {s \in Stages : <<r, s>> \in ledger} \ kept]
             /\ stored' = stored \ Objects(r, {s \in Stages : <<r, s>> \in ledger} \ kept)
             /\ lost' = lost \cup Objects(r, {s \in Stages : <<r, s>> \in ledger} \ kept)
    BY <1>4 DEF BeginDelete
  <2> DEFINE S == {s \in Stages : <<r, s>> \in ledger} \ kept
  <2>2. S \in SUBSET Stages /\ Objects(r, S) \subseteq ledger
    BY DEF Objects
  <2>3. \A e \in Releases : freed'[r][e] \subseteq freed[r][e] \cup S
    BY <2>1 DEF TypeOK, ApiTypes
  <2>4. ledger' = ledger /\ status' = status
    BY <1>4 DEF BeginDelete
  <2>5. Marks(r)
    <3>1. stored' = stored \ Objects(r, S) /\ lost' = lost \cup Objects(r, S)
      BY <2>1
    <3> HIDE DEF S
    <3> QED BY <2>2, <2>3, <2>4, <3>1 DEF Marks
  <2> QED BY <1>4, <2>4, <2>5 DEF BeginDelete, Deletes
<1> QED BY <1>1, <1>2, <1>3, <1>4 DEF Delete

EnvironmentEffectOf(r) ==
    Starts(r) \/ Requests(r) \/ Creates(r) \/ Cancels(r) \/ Deletes(r) \/ Interrupts(r) \/ Loses(r)

LEMMA EnvironmentEffect ==
  ASSUME TypeOK, NEW r \in Runs, Environment(r)
  PROVE  EnvironmentEffectOf(r)
<1> USE DEF TypeOK, rowVars, storeVars,
            apiVars, releaseVars, flowVars, SameRow, SameStore, SameFlow,
            SameDelete, EnvironmentEffectOf
<1>1. CASE CreateRun(r)
  BY <1>1 DEF CreateRun, Creates, RowTypes, ApiTypes
<1>2. CASE StartRefused(r) \/ ApiDies(r)
  BY <1>2 DEF StartRefused, ApiDies, Requests, ApiTypes
<1>3. CASE StartAmbiguous(r)
  BY <1>3, DbStepKinds DEF StartAmbiguous, Call, Starts, Asks, ApiTypes, FlowTypes
<1>4. CASE CancelRun(r)
  BY <1>4 DEF CancelRun, Cancels, RowTypes
<1>5. CASE \E d \in Releases : BeginDelete(r, d) \/ AbortDelete(r, d)
  BY <1>5, DeleteEffect
<1>6. CASE AbortCharge(r)
  BY <1>6 DEF AbortCharge, Loses, StoreTypes
<1>7. CASE GiveUp(r)
  <2>1. gaveUp'[r] = TRUE
    BY <1>7 DEF GiveUp
  <2>2. ASSUME NEW s \in Stages, AskFinish(r, "failed", "none", {s})
        PROVE  Stops(r) /\ ret'[r] = "no answer"
    BY <2>2, StopEffect
  <2>3. CASE pc[r] \in {"started", "refinish"} /\ End(r)
    <3>1. pc[r] \in DbSteps /\ Ends(r) /\ ret'[r] = "no answer"
      BY <2>3, CallEffect, DbStepKinds
    <3>2. ~Stops(r)
      BY <3>1 DEF Ends, Stops
    <3> QED BY <1>7, <2>1, <3>1, <3>2 DEF GiveUp, Interrupts
  <2>4. CASE pc[r] \in {"settings", "processing", "finish"} /\ Goto(r, "refinish")
    BY <1>7, <2>1, <2>4, CallEffect, DbStepKinds DEF GiveUp, Interrupts, Asks, Stops
  <2>5. CASE \E s \in Stages : pc[r] = Charge[s] /\ AskFinish(r, "failed", "none", {s})
    <3>1. Stops(r) /\ ret'[r] = "no answer"
      BY <2>2, <2>5
    <3>2. pc[r] \in {"chargeScrape", "chargeLlm"}
      BY <2>5 DEF Charge, Stages
    <3> QED BY <1>7, <2>1, <3>1, <3>2, DbStepKinds DEF GiveUp, Interrupts
  <2> QED BY <1>7, <2>3, <2>4, <2>5 DEF GiveUp
<1>8. CASE CancelNotedByStep(r)
  BY <1>8 DEF CancelNotedByStep, FlowOnly, Interrupts, FlowTypes
<1>9. CASE CancelDuringSlotWait(r)
  <2>1. cancelled'[r] = "noted"
    BY <1>9 DEF CancelDuringSlotWait, FlowTypes
  <2> QED BY <1>9, <2>1, StopEffect DEF CancelDuringSlotWait, FlowOnly, Interrupts
<1>10. CASE CancelWithResult(r)
  <2>1. cancelled'[r] = "escaped"
    BY <1>10 DEF CancelWithResult, FlowTypes
  <2> QED BY <1>10, <2>1, StopEffect, CallEffect DEF CancelWithResult, Interrupts
<1>11. ASSUME NEW s \in Stages, RecordAtWallDies(r, s)
       PROVE  Loses(r)
  BY <1>11 DEF RecordAtWallDies, Loses
<1>12. ASSUME NEW s \in Stages, AbandonAttempt(r, s) \/ AbandonedWrite(r, s)
       PROVE  Loses(r)
  <2>1. s \in abandoned'[r]
    BY <1>12 DEF AbandonAttempt, AbandonedWrite
  <2> QED BY <1>12, <2>1 DEF AbandonAttempt, AbandonedWrite, Loses
<1> QED BY <1>1, <1>2, <1>3, <1>4, <1>5, <1>6, <1>7, <1>8, <1>9, <1>10, <1>11, <1>12
        DEF Environment

-----------------------------------------------------------------------------
(* FlowInv is inductive: the row follows the workflow, and the workflow    *)
(* ends only on what the row says.                                         *)

FlowInvOf(r) == InOrder(r) /\ Reached(r) /\ Answered(r)

LEMMA WorkflowFlow ==
  ASSUME TypeOK, NEW r \in Runs, FlowInvOf(r), Workflow(r)
  PROVE  FlowInvOf(r)'
<1>1. /\ status' = status /\ request' = request /\ deleting' = deleting
      /\ gaveUp' = gaveUp /\ cancelled' = cancelled
  BY WorkflowOnly DEF FlowOnly, rowVars, apiVars, releaseVars
<1>2. WorkflowEffectOf(r) /\ ret'[r] = "no answer"
  BY WorkflowEffect
<1>3. InOrder(r)'
  BY <1>1, <1>2 DEF FlowInvOf, InOrder, WorkflowEffectOf, Ends, Asks, Does, Stops, Completes,
     DbSteps, Releasing
<1>4. Reached(r)'
  BY <1>1, <1>2 DEF FlowInvOf, InOrder, Reached, Answered, WorkflowEffectOf, Ends, Asks, Does,
     Stops, Completes, Active
<1>5. Answered(r)'
  BY <1>1, <1>2 DEF FlowInvOf, InOrder, Reached, Answered, WorkflowEffectOf, Ends, Asks, Does,
     Stops, Completes, Active
<1> QED BY <1>3, <1>4, <1>5 DEF FlowInvOf

LEMMA WorkerFlow ==
  ASSUME TypeOK, NEW r \in Runs, FlowInvOf(r), Worker(r)
  PROVE  FlowInvOf(r)'
<1>1. /\ WorkerEffectOf(r)
      /\ UNCHANGED <<request, deleting, freed, pc, asked, plan, gaveUp, cancelled>>
  BY WorkerEffect
<1>2. plan[r].status \in Terminal /\ InternalError.status \in Terminal
  BY DEF TypeOK, FlowTypes, Plans, InternalError, Terminal
<1> USE DEF FlowInvOf, InOrder, Releasing, Reached, Answered, SameRow, Replies, Active
<1>3. CASE Mirrors(r, "started", "pending", "running")
  BY <1>1, <1>3 DEF Mirrors
<1>4. CASE Mirrors(r, "processing", "running", "processing")
  BY <1>1, <1>4 DEF Mirrors
<1>5. CASE ReadsSettings(r)
  BY <1>1, <1>5 DEF ReadsSettings
<1>6. ASSUME NEW c \in {"finish", "refinish"}, NEW to, to.status \in Terminal, Finishes(r, c, to)
      PROVE  FlowInvOf(r)'
  <2>1. to.status \notin Active /\ to.status \notin {"none", "no answer", "running"}
    BY <1>6 DEF Terminal
  <2>2. CASE status[r] \in Active
    <3>1. status'[r] = to.status /\ Replies(r, c, to.status)
      BY <1>6, <2>2 DEF Finishes
    <3>2. status'[r] \notin Active /\ status'[r] \notin {"none", "gone"}
      BY <1>6, <3>1 DEF Terminal
    <3>3. status[r] # "none"
      BY <2>2
    <3>4. InOrder(r)'
      BY <1>1, <3>2, <3>3
    <3>5. Reached(r)' /\ Answered(r)'
      BY <1>1, <1>6, <2>1, <3>1, <3>2
    <3> QED BY <3>4, <3>5
  <2>3. CASE status[r] \notin Active
    BY <1>1, <1>6, <2>3 DEF Finishes
  <2> QED BY <2>2, <2>3
<1>7. CASE ClosesCharge(r)
  <2>1. /\ status'[r] = status[r]
        /\ \/ ret'[r] = ret[r]
           \/ pc[r] \in {"chargeScrape", "chargeLlm"} /\ ret'[r] = status[r]
    <3> HIDE DEF FlowInvOf, InOrder, Reached, Answered, Active
    <3>1. CASE txn[r] = "scrape"
      BY <1>7, <3>1 DEF ClosesCharge, Charge
    <3>2. CASE txn[r] = "llm"
      BY <1>7, <3>2 DEF ClosesCharge, Charge
    <3> QED BY <1>7, <3>1, <3>2 DEF ClosesCharge, Stages
  <2>2. pc[r] \in DbSteps => pc[r] \in asked[r]
    OBVIOUS
  <2> QED BY <1>1, <2>1, <2>2
<1>8. ASSUME NEW s \in Stages, DropsObjects(r, s)
      PROVE  FlowInvOf(r)'
  <2>1. CASE status[r] \in Active
    BY <1>1, <1>8, <2>1 DEF DropsObjects, Stages, Charge
  <2>2. CASE status[r] \notin Active
    BY <1>1, <1>8, <2>2 DEF DropsObjects, Stages, Charge
  <2> QED BY <2>1, <2>2
<1>9. ASSUME NEW s \in Stages, OpensCharge(r, s)
      PROVE  FlowInvOf(r)'
  BY <1>1, <1>9 DEF OpensCharge
<1>10. ASSUME NEW s \in Stages, Works(r, s)
       PROVE  FlowInvOf(r)'
  <2>1. pc[r] \in {"scrape", "llm"} /\ status'[r] = status[r]
    <3> HIDE DEF FlowInvOf, InOrder, Reached, Answered, Active
    <3>1. pc[r] = Work[s] /\ status'[r] = status[r]
      BY <1>10 DEF Works
    <3>2. Work[s] \in {"scrape", "llm"}
      BY DEF Work, Stages
    <3> QED BY <3>1, <3>2
  <2> QED BY <1>1, <2>1
<1> QED BY <1>1, <1>2, <1>3, <1>4, <1>5, <1>6, <1>7, <1>8, <1>9, <1>10 DEF WorkerEffectOf

LEMMA EnvironmentFlow ==
  ASSUME TypeOK, NEW r \in Runs, FlowInvOf(r), EnvironmentEffectOf(r)
  PROVE  FlowInvOf(r)'
<1> USE DEF FlowInvOf, InOrder, Releasing, Reached, Answered, SameRow, SameFlow, SameDelete,
            Active
<1>1. CASE Starts(r)
  BY <1>1 DEF Starts, Asks, DbSteps
<1>2. CASE Requests(r)
  <2>1. CASE status'[r] = status[r]
    <3>1. InOrder(r)'
      BY <1>2, <2>1 DEF Requests
    <3>2. Reached(r)'
      BY <1>2, <2>1 DEF Requests
    <3>3. Answered(r)'
      BY <1>2, <2>1 DEF Requests
    <3> QED BY <3>1, <3>2, <3>3
  <2>2. CASE status'[r] = "failed"
    BY <1>2, <2>2 DEF Requests
  <2> QED BY <1>2, <2>1, <2>2 DEF Requests
<1>3. CASE Creates(r)
  BY <1>3, DbStepKinds DEF Creates
<1>4. CASE Cancels(r)
  BY <1>4 DEF Cancels
<1>5. CASE Deletes(r)
  BY ZenonT(60), <1>5 DEF Deletes
<1>6. CASE Interrupts(r)
  BY <1>6 DEF Interrupts, Ends, Asks, Stops, DbSteps
<1>7. CASE Loses(r)
  <2>1. status'[r] = status[r] /\ request'[r] = request[r] /\ deleting'[r] = deleting[r]
        /\ cancelled'[r] = cancelled[r]
    BY <1>7 DEF Loses
  <2>2. SameFlow(r)
    BY <1>7 DEF Loses
  <2>3. InOrder(r)'
    BY <2>1, <2>2
  <2>4. Reached(r)'
    BY <2>1, <2>2
  <2>5. Answered(r)'
    BY <2>1, <2>2
  <2> QED BY <2>3, <2>4, <2>5
<1> QED BY <1>1, <1>2, <1>3, <1>4, <1>5, <1>6, <1>7 DEF EnvironmentEffectOf

LEMMA FlowInvHolds == Spec => []FlowInv
<1>1. Init => FlowInv
  <2> SUFFICES ASSUME Init, NEW r \in Runs
               PROVE  InOrder(r) /\ Reached(r) /\ Answered(r)
    BY DEF FlowInv
  <2>1. /\ status[r] = "none" /\ request[r] = "idle" /\ ~Releasing(r)
        /\ pc[r] = "none" /\ asked[r] = {} /\ ret[r] = "no answer"
    BY DEF Init, Releasing
  <2> QED BY <2>1, DbStepKinds DEF InOrder, Reached, Answered
<1>2. TypeOK /\ FlowInv /\ [Next]_vars => FlowInv'
  <2> SUFFICES ASSUME TypeOK, FlowInv, [Next]_vars
               PROVE  FlowInv'
    OBVIOUS
  <2>1. CASE UNCHANGED vars
    BY ZenonT(60), <2>1 DEF vars, rowVars, storeVars,
       apiVars, releaseVars, flowVars, FlowInv,
       InOrder, Releasing, Reached, Answered
  <2>2. ASSUME NEW r \in Runs, Step(r), NEW q \in Runs
        PROVE  FlowInvOf(q)'
    <3>1. FlowInvOf(q) /\ FlowInvOf(r)
      BY DEF FlowInv, FlowInvOf
    <3>2. CASE q = r
      BY <2>2, <3>1, <3>2, WorkflowFlow, WorkerFlow, EnvironmentFlow, RequestEffect,
         DeleteEffect, EnvironmentEffect DEF Step, EnvironmentEffectOf
    <3>3. CASE q # r
      <4>1. SameRun(q)
        BY <2>2, <3>3, StepsAreLocal
      <4>2. InOrder(q)'
        BY <3>1, <4>1 DEF SameRun, FlowInvOf, InOrder, Releasing
      <4>3. Reached(q)'
        BY <3>1, <4>1 DEF SameRun, FlowInvOf, Reached
      <4>4. Answered(q)'
        BY <3>1, <4>1 DEF SameRun, FlowInvOf, Answered
      <4> QED BY <4>2, <4>3, <4>4 DEF FlowInvOf
    <3> QED BY <3>2, <3>3
  <2> QED BY <2>1, <2>2 DEF Next, Step, FlowInv, FlowInvOf
<1> QED BY <1>1, <1>2, TypeCorrect, PTL DEF Spec

(* A workflow that has ended has stopped its run, so the slot it held is   *)
(* free: unless a call was given up on or a cancellation escaped.          *)
THEOREM EndedRunsAreStopped == Spec => []EndedRunIsStopped
<1>1. FlowInv => EndedRunIsStopped
  BY DEF FlowInv, Answered, EndedRunIsStopped
<1> QED BY <1>1, FlowInvHolds, PTL

-----------------------------------------------------------------------------
(* The outcome and its webhook row *)

AnnouncedOf(r) ==
    /\ status[r] = "gone" => hooks[r] = {}
    /\ status[r] = "completed" => Subscribed \cap {"job.completed"} \subseteq hooks[r]
    /\ status[r] = "failed" /\ walled[r] = "none" =>
          Subscribed \cap {"job.failed"} \subseteq hooks[r]

(* What a step may do to the row's outcome: nothing, take it somewhere     *)
(* that needs no webhook, write the webhook with it, or take both away.    *)
SameOutcome(q) == status'[q] = status[q] /\ walled'[q] = walled[q] /\ hooks'[q] = hooks[q]

Settles(r) ==
    \/ SameOutcome(r)
    \/ status'[r] \notin {"completed", "failed", "gone"}
    \/ status'[r] = "gone" /\ hooks'[r] = {}
    \/ status'[r] = "failed" /\ walled'[r] \in Stages
    \/ status'[r] = "failed" /\ Subscribed \cap {"job.failed"} \subseteq hooks'[r]
    \/ status'[r] = "completed" /\ Subscribed \cap {"job.completed"} \subseteq hooks'[r]

LEMMA AnnounceEffect ==
  ASSUME TypeOK, NEW r \in Runs, NEW e, Announce(r, e)
  PROVE  /\ Subscribed \cap {e} \subseteq hooks'[r]
         /\ \A q \in Runs : q # r => hooks'[q] = hooks[q]
BY DEF TypeOK, RowTypes, Announce

LEMMA FinishSettles ==
  ASSUME TypeOK, NEW r \in Runs, NEW c, NEW to \in Plans, Finish(r, c, to)
  PROVE  /\ Settles(r)
         /\ \A q \in Runs : q # r => SameOutcome(q)
<1>1. walled' = walled
  BY DEF Finish
<1>2. CASE status[r] \notin Active
  <2>1. status' = status /\ hooks' = hooks
    BY <1>2 DEF Finish
  <2> QED BY <1>1, <2>1 DEF Settles, SameOutcome
<1>3. CASE status[r] \in Active
  <2>1. status' = [status EXCEPT ![r] = to.status] /\ Announce(r, EventOf[to.status])
    BY <1>3 DEF Finish
  <2>2. status'[r] = to.status /\ \A q \in Runs : q # r => status'[q] = status[q]
    BY <2>1 DEF TypeOK, RowTypes
  <2>3. /\ Subscribed \cap {EventOf[to.status]} \subseteq hooks'[r]
        /\ \A q \in Runs : q # r => hooks'[q] = hooks[q]
    BY <2>1, AnnounceEffect
  <2>4. to.status \in {"completed", "failed", "cancelled"}
    BY DEF Plans, Terminal
  <2>5. Settles(r)
    <3>1. CASE to.status = "completed"
      BY <2>2, <2>3, <3>1 DEF Settles, EventOf
    <3>2. CASE to.status = "failed"
      BY <2>2, <2>3, <3>2 DEF Settles, EventOf
    <3>3. CASE to.status = "cancelled"
      BY <2>2, <3>3 DEF Settles
    <3> QED BY <2>4, <3>1, <3>2, <3>3
  <2> QED BY <1>1, <2>2, <2>3, <2>5 DEF SameOutcome
<1> QED BY <1>2, <1>3

LEMMA WorkerSettles ==
  ASSUME TypeOK, NEW r \in Runs, Worker(r)
  PROVE  /\ Settles(r)
         /\ \A q \in Runs : q # r => SameOutcome(q)
<1>1. ASSUME NEW c, NEW from, NEW to \in {"running", "processing"}, Mirror(r, c, from, to)
      PROVE  /\ Settles(r)
             /\ \A q \in Runs : q # r => SameOutcome(q)
  <2>1. walled' = walled /\ hooks' = hooks
    BY <1>1 DEF Mirror
  <2>2. /\ status'[r] = status[r] \/ status'[r] \in {"running", "processing"}
        /\ \A q \in Runs : q # r => status'[q] = status[q]
    BY <1>1 DEF Mirror, Moved, TypeOK, RowTypes
  <2> QED BY <2>1, <2>2 DEF Settles, SameOutcome
<1>2. CASE JobRunStarted(r) \/ JobRunProcessing(r)
  BY <1>1, <1>2 DEF JobRunStarted, JobRunProcessing
<1>3. CASE FinishJobRun(r)
  <2>1. plan[r] \in Plans /\ InternalError \in Plans
    BY DEF TypeOK, FlowTypes, InternalError, Plans, Terminal
  <2> QED BY <1>3, <2>1, FinishSettles DEF FinishJobRun
<1>4. ASSUME NEW s \in Stages, RecordAtWall(r, s)
      PROVE  /\ Settles(r)
             /\ \A q \in Runs : q # r => SameOutcome(q)
  <2>1. hooks' = hooks
    BY <1>4 DEF RecordAtWall
  <2>2. status'[r] = "failed" /\ walled'[r] = s
    BY <1>4 DEF RecordAtWall, TypeOK, RowTypes
  <2>3. \A q \in Runs : q # r => status'[q] = status[q] /\ walled'[q] = walled[q]
    BY <1>4 DEF RecordAtWall, TypeOK, RowTypes
  <2> QED BY <2>1, <2>2, <2>3 DEF Settles, SameOutcome
<1>5. CASE ReadLlmSettings(r) \/ CommitCharge(r)
  BY <1>5 DEF ReadLlmSettings, CommitCharge, rowVars, Settles, SameOutcome
<1>6. ASSUME NEW s \in Stages,
             RecordOnStoppedRun(r, s) \/ BeginCharge(r, s) \/ WorkDone(r, s) \/ WorkFails(r, s)
      PROVE  /\ Settles(r)
             /\ \A q \in Runs : q # r => SameOutcome(q)
  BY <1>6 DEF RecordOnStoppedRun, BeginCharge, WorkDone, WorkFails, rowVars, Settles, SameOutcome
<1> QED BY <1>2, <1>3, <1>4, <1>5, <1>6 DEF Worker

LEMMA RequestSettles ==
  ASSUME TypeOK, NEW r \in Runs, Request(r)
  PROVE  /\ Settles(r)
         /\ \A q \in Runs : q # r => SameOutcome(q)
<1>1. CASE StartWorkflow(r)
  BY <1>1 DEF StartWorkflow, rowVars, Settles, SameOutcome
<1>2. CASE FailUnstartedRun(r) /\ status[r] = "gone"
  BY <1>2 DEF FailUnstartedRun, Settles, SameOutcome
<1>3. CASE FailUnstartedRun(r) /\ status[r] # "gone"
  <2>1. Announce(r, "job.failed")
    BY <1>3 DEF FailUnstartedRun
  <2>2. /\ Subscribed \cap {"job.failed"} \subseteq hooks'[r]
        /\ \A q \in Runs : q # r => hooks'[q] = hooks[q]
    BY <2>1, AnnounceEffect
  <2>3. /\ status'[r] = "failed"
        /\ \A q \in Runs : q # r => status'[q] = status[q] /\ walled'[q] = walled[q]
    BY <1>3 DEF FailUnstartedRun, TypeOK, RowTypes
  <2> QED BY <2>2, <2>3 DEF Settles, SameOutcome
<1> QED BY <1>1, <1>2, <1>3 DEF Request

LEMMA DeleteSettles ==
  ASSUME TypeOK, NEW r \in Runs, Delete(r)
  PROVE  /\ Settles(r)
         /\ \A q \in Runs : q # r => SameOutcome(q)
<1>1. ASSUME NEW d \in Releases, CommitDelete(r, d)
      PROVE  /\ Settles(r)
             /\ \A q \in Runs : q # r => SameOutcome(q)
  <2>1. walled' = walled
    BY <1>1 DEF CommitDelete
  <2>2. /\ status'[r] = "gone" /\ hooks'[r] = {}
        /\ \A q \in Runs : q # r => status'[q] = status[q] /\ hooks'[q] = hooks[q]
    BY <1>1 DEF CommitDelete, TypeOK, RowTypes
  <2> QED BY <2>1, <2>2 DEF Settles, SameOutcome
<1>2. ASSUME NEW d \in Releases, RefuseDelete(r, d)
      PROVE  /\ Settles(r)
             /\ \A q \in Runs : q # r => SameOutcome(q)
  BY <1>2 DEF RefuseDelete, rowVars, Settles, SameOutcome
<1> QED BY <1>1, <1>2 DEF Delete

LEMMA EnvironmentSettles ==
  ASSUME TypeOK, NEW r \in Runs, Environment(r)
  PROVE  /\ Settles(r)
         /\ \A q \in Runs : q # r => SameOutcome(q)
<1>1. CASE CreateRun(r) \/ CancelRun(r)
  <2>1. walled' = walled /\ hooks' = hooks
    BY <1>1 DEF CreateRun, CancelRun
  <2>2. /\ status'[r] \in {"pending", "cancelled"}
        /\ \A q \in Runs : q # r => status'[q] = status[q]
    BY <1>1 DEF CreateRun, CancelRun, TypeOK, RowTypes
  <2> QED BY <2>1, <2>2 DEF Settles, SameOutcome
<1>2. CASE \/ StartRefused(r) \/ StartAmbiguous(r) \/ ApiDies(r)
           \/ (\E d \in Releases : BeginDelete(r, d) \/ AbortDelete(r, d))
           \/ AbortCharge(r) \/ GiveUp(r) \/ CancelNotedByStep(r) \/ CancelDuringSlotWait(r)
           \/ CancelWithResult(r)
           \/ \E s \in Stages : \/ RecordAtWallDies(r, s) \/ AbandonAttempt(r, s)
                                \/ AbandonedWrite(r, s)
  <2>1. status' = status /\ walled' = walled /\ hooks' = hooks
    BY <1>2 DEF StartRefused, StartAmbiguous, ApiDies, BeginDelete, AbortDelete, AbortCharge,
       GiveUp, CancelNotedByStep, CancelDuringSlotWait, CancelWithResult, RecordAtWallDies,
       AbandonAttempt, AbandonedWrite, FlowOnly, rowVars
  <2> QED BY <2>1 DEF Settles, SameOutcome
<1> QED BY <1>1, <1>2 DEF Environment

LEMMA StepSettles ==
  ASSUME TypeOK, NEW r \in Runs, Step(r)
  PROVE  /\ Settles(r)
         /\ \A q \in Runs : q # r => SameOutcome(q)
<1>1. CASE Workflow(r)
  BY <1>1, WorkflowOnly DEF FlowOnly, rowVars, Settles, SameOutcome
<1> QED BY <1>1, RequestSettles, DeleteSettles, WorkerSettles, EnvironmentSettles DEF Step

AnnounceInv == \A r \in Runs : AnnouncedOf(r)

LEMMA AnnounceInvHolds == Spec => []AnnounceInv
<1>1. Init => AnnounceInv
  <2> SUFFICES ASSUME Init, NEW r \in Runs PROVE status[r] = "none"
    BY DEF AnnounceInv, AnnouncedOf
  <2> QED BY DEF Init
<1>2. TypeOK /\ AnnounceInv /\ [Next]_vars => AnnounceInv'
  <2> SUFFICES ASSUME TypeOK, AnnounceInv, [Next]_vars, NEW q \in Runs
               PROVE  AnnouncedOf(q)'
    BY DEF AnnounceInv
  <2>1. AnnouncedOf(q)
    BY DEF AnnounceInv
  <2>2. SameOutcome(q) => AnnouncedOf(q)'
    BY <2>1 DEF AnnouncedOf, SameOutcome
  <2>3. Settles(q) => AnnouncedOf(q)'
    BY <2>2 DEF AnnouncedOf, Settles, Stages
  <2>4. CASE UNCHANGED vars
    BY <2>2, <2>4 DEF vars, rowVars, SameOutcome
  <2>5. ASSUME NEW r \in Runs, Step(r) PROVE AnnouncedOf(q)'
    BY <2>2, <2>3, <2>5, StepSettles
  <2> QED BY <2>4, <2>5 DEF Next, Step
<1> QED BY <1>1, <1>2, TypeCorrect, PTL DEF Spec

(* A completed run, and a run failed otherwise than at the storage wall,   *)
(* has its delivery row, whichever of the writers settled it and in        *)
(* whatever order they came.                                               *)
THEOREM OutcomesAnnounced == Spec => []OutcomeAnnounced
<1>1. AnnounceInv => OutcomeAnnounced
  BY DEF AnnounceInv, AnnouncedOf, OutcomeAnnounced
<1> QED BY <1>1, AnnounceInvHolds, PTL

-----------------------------------------------------------------------------
(* A completed run is charged for its result *)

(* Charged in the next state. *)
ChargedNext(r, s) == status'[r] = "gone" \/ <<r, s>> \in ledger' \cup lost'

(* A charge, once made, stays or leaves with its run. *)
LEMMA ChargedStays ==
  ASSUME TypeOK, NEW r \in Runs, FlowInvOf(r), Released(r), Step(r), NEW s \in Stages,
         Charged(r, s)
  PROVE  ChargedNext(r, s)
<1> USE DEF Charged, ChargedNext, SameRow, SameStore
<1>1. CASE Worker(r)
  <2>1. WorkerEffectOf(r)
    BY <1>1, WorkerEffect
  <2>2. lost' = lost /\ ledger \subseteq ledger'
    BY <2>1 DEF WorkerEffectOf, Mirrors, ReadsSettings, Finishes, ClosesCharge, DropsObjects,
       OpensCharge, Works
  <2>3. status[r] = "gone" => status'[r] = "gone"
    BY <2>1 DEF WorkerEffectOf, Mirrors, ReadsSettings, Finishes, ClosesCharge, DropsObjects,
       OpensCharge, Works, Active
  <2> QED BY <2>2, <2>3
<1>2. CASE Workflow(r)
  BY <1>2, WorkflowOnly DEF FlowOnly, rowVars, storeVars
<1>3. CASE EnvironmentEffectOf(r)
  <2>1. CASE Starts(r)
    BY <2>1 DEF Starts
  <2>2. CASE Requests(r)
    BY <2>2 DEF Requests
  <2>3. CASE Creates(r)
    BY <2>3 DEF Creates, FlowInvOf, InOrder
  <2>4. CASE Cancels(r)
    BY <2>4 DEF Cancels, Active
  <2>5. CASE Deletes(r)
    <3>1. CASE Marks(r)
      BY <2>5, <3>1 DEF Deletes, Marks
    <3>2. CASE Drops(r)
      BY <2>5, <3>2 DEF Deletes, Drops, Released, Objects
    <3> QED BY <2>5, <3>1, <3>2 DEF Deletes
  <2>6. CASE Interrupts(r)
    BY <2>6 DEF Interrupts
  <2>7. CASE Loses(r)
    BY <2>7 DEF Loses
  <2> QED BY <1>3, <2>1, <2>2, <2>3, <2>4, <2>5, <2>6, <2>7 DEF EnvironmentEffectOf
<1> QED BY <1>1, <1>2, <1>3, RequestEffect, DeleteEffect, EnvironmentEffect
        DEF Step, EnvironmentEffectOf

LEMMA ReleasedStays ==
  ASSUME TypeOK, NEW r \in Runs, Released(r), Step(r)
  PROVE  Released(r)'
<1> USE DEF Released, SameStore, SameDelete
<1>1. CASE Worker(r)
  <2>1. WorkerEffectOf(r) /\ freed' = freed
    BY <1>1, WorkerEffect
  <2>2. lost' = lost /\ ledger \subseteq ledger'
    BY <2>1 DEF WorkerEffectOf, Mirrors, ReadsSettings, Finishes, ClosesCharge, DropsObjects,
       OpensCharge, Works
  <2> QED BY <2>1, <2>2 DEF Objects
<1>2. CASE Workflow(r)
  BY <1>2, WorkflowOnly DEF FlowOnly, apiVars, releaseVars, storeVars, Objects
<1>3. CASE EnvironmentEffectOf(r)
  <2>1. CASE Starts(r) \/ Requests(r) \/ Creates(r) \/ Cancels(r) \/ Interrupts(r)
    <3>1. ledger' = ledger /\ lost' = lost /\ freed'[r] = freed[r]
      BY <2>1 DEF Starts, Requests, Creates, Cancels, Interrupts
    <3> QED BY <3>1 DEF Objects
  <2>2. CASE Deletes(r)
    <3>1. CASE Marks(r)
      BY <3>1 DEF Marks, Objects
    <3>2. CASE Drops(r)
      BY <3>2 DEF Drops, Objects
    <3> QED BY <2>2, <3>1, <3>2 DEF Deletes
  <2>3. CASE Loses(r)
    BY <2>3 DEF Loses, Objects
  <2> QED BY <1>3, <2>1, <2>2, <2>3 DEF EnvironmentEffectOf
<1> QED BY <1>1, <1>2, <1>3, RequestEffect, DeleteEffect, EnvironmentEffect
        DEF Step, EnvironmentEffectOf

PayInvOf(r) == Released(r) /\ PaidFirst(r) /\ RightResult(r)

LEMMA WorkflowPay ==
  ASSUME TypeOK, NEW r \in Runs, FlowInvOf(r), PayInvOf(r), Workflow(r)
  PROVE  PaidFirst(r)' /\ RightResult(r)'
<1>1. status' = status /\ resultOf' = resultOf
  BY WorkflowOnly DEF FlowOnly, rowVars
<1>2. WorkflowEffectOf(r) /\ ret'[r] = "no answer"
  BY WorkflowEffect
<1>3. \A s \in Stages : Charged(r, s) => ChargedNext(r, s)
  BY ChargedStays DEF Step, PayInvOf
<1>4. \/ /\ "finish" \in asked[r] <=> "finish" \in asked'[r]
         /\ plan'[r] = plan[r]
      \/ Stops(r)
      \/ pc[r] = "chargeScrape" /\ ret[r] = "running" /\ Completes(r, "scrape")
      \/ pc[r] = "chargeLlm" /\ ret[r] = "processing" /\ Completes(r, "llm")
  <2>1. \/ Ends(r)
        \/ Does(r, "slot") \/ Does(r, "scrape") \/ Does(r, "llm")
        \/ Asks(r, "settings") \/ Asks(r, "chargeScrape") \/ Asks(r, "processing")
        \/ Asks(r, "chargeLlm")
        \/ Stops(r)
        \/ pc[r] = "chargeScrape" /\ ret[r] = "running" /\ Completes(r, "scrape")
        \/ pc[r] = "chargeLlm" /\ ret[r] = "processing" /\ Completes(r, "llm")
    BY <1>2 DEF WorkflowEffectOf
  <2> QED BY <2>1 DEF Ends, Does, Asks
<1>5. PaidFirst(r)'
  <2>1. \A s \in Stages : ~(ret'[r] \in Active)
    BY <1>2 DEF Active
  <2>2. "finish" \in asked'[r] /\ plan'[r].status = "completed" =>
          plan'[r].result \in Stages /\ ChargedNext(r, plan'[r].result)
    <3>1. CASE "finish" \in asked[r] /\ plan'[r] = plan[r]
      BY <1>3, <3>1 DEF PayInvOf, PaidFirst
    <3>2. CASE Stops(r)
      BY <3>2 DEF Stops
    <3>3. CASE pc[r] = "chargeScrape" /\ ret[r] = "running" /\ Completes(r, "scrape")
      <4>1. Charged(r, "scrape") /\ "scrape" \in Stages
        BY <3>3 DEF PayInvOf, PaidFirst, Active, Stages, Charge
      <4> QED BY <1>3, <3>3, <4>1 DEF Completes
    <3>4. CASE pc[r] = "chargeLlm" /\ ret[r] = "processing" /\ Completes(r, "llm")
      <4>1. Charged(r, "llm") /\ "llm" \in Stages
        BY <3>4 DEF PayInvOf, PaidFirst, Active, Stages, Charge
      <4> QED BY <1>3, <3>4, <4>1 DEF Completes
    <3> QED BY <1>4, <3>1, <3>2, <3>3, <3>4
  <2>3. status'[r] = "completed" => resultOf'[r] \in Stages /\ ChargedNext(r, resultOf'[r])
    BY <1>1, <1>3 DEF PayInvOf, PaidFirst
  <2> QED BY <2>1, <2>2, <2>3 DEF PaidFirst, Charged, ChargedNext
<1>6. RightResult(r)'
  <2>1. CASE "finish" \in asked[r] /\ plan'[r] = plan[r]
    <3>1. pc[r] \in {"finish", "refinish", "done"}
      BY <2>1 DEF FlowInvOf, InOrder
    <3>2. "processing" \in asked'[r] => "processing" \in asked[r]
      BY <1>2, <3>1 DEF WorkflowEffectOf, Ends, Stops
    <3> QED BY <1>1, <2>1, <3>2 DEF PayInvOf, RightResult
  <2>2. CASE "finish" \notin asked'[r] \/ Stops(r)
    BY <2>2 DEF Stops, RightResult
  <2>3. CASE pc[r] = "chargeScrape" /\ Completes(r, "scrape")
    BY <1>1, <2>3 DEF Completes, RightResult, FlowInvOf, InOrder, Reached
  <2>4. CASE pc[r] = "chargeLlm" /\ Completes(r, "llm")
    BY <1>1, <2>4 DEF Completes, RightResult, FlowInvOf, Reached
  <2> QED BY <1>4, <2>1, <2>2, <2>3, <2>4
<1> QED BY <1>5, <1>6

LEMMA WorkerPay ==
  ASSUME TypeOK, NEW r \in Runs, FlowInvOf(r), PayInvOf(r), Worker(r)
  PROVE  PaidFirst(r)' /\ RightResult(r)'
<1>1. /\ WorkerEffectOf(r)
      /\ pc' = pc /\ asked' = asked /\ plan' = plan
  BY WorkerEffect
<1>2. \A s \in Stages : Charged(r, s) => ChargedNext(r, s)
  BY ChargedStays DEF Step, PayInvOf
<1>3. \A s \in Stages : pc[r] = Charge[s] /\ ret'[r] \in Active =>
          (ret'[r] = ret[r] \/ ChargedNext(r, s))
  <2> SUFFICES ASSUME NEW s \in Stages, pc[r] = Charge[s], ret'[r] \in Active
               PROVE  ret'[r] = ret[r] \/ ChargedNext(r, s)
    OBVIOUS
  <2>1. pc[r] \in {"chargeScrape", "chargeLlm"}
    BY DEF Charge, Stages
  <2>2. CASE Mirrors(r, "started", "pending", "running")
    BY <2>1, <2>2 DEF Mirrors, Replies
  <2>3. CASE Mirrors(r, "processing", "running", "processing")
    BY <2>1, <2>3 DEF Mirrors, Replies
  <2>4. CASE ReadsSettings(r)
    BY <2>1, <2>4 DEF ReadsSettings
  <2>5. CASE Finishes(r, "finish", plan[r]) \/ Finishes(r, "refinish", InternalError)
    BY <2>1, <2>5 DEF Finishes, Replies
  <2>6. CASE ClosesCharge(r)
    <3>1. CASE s = txn[r]
      BY <2>6, <3>1 DEF ClosesCharge, ChargedNext
    <3>2. CASE s # txn[r]
      <4>1. pc[r] # Charge[txn[r]]
        BY <2>6, <3>2 DEF ClosesCharge, Stages, Charge
      <4> QED BY <2>6, <4>1 DEF ClosesCharge, Replies
    <3> QED BY <3>1, <3>2
  <2>7. ASSUME NEW u \in Stages, DropsObjects(r, u)
        PROVE  ret'[r] = ret[r]
    BY <2>7 DEF DropsObjects, Replies, Active
  <2>8. ASSUME NEW u \in Stages, OpensCharge(r, u)
        PROVE  ret'[r] = ret[r]
    BY <2>8 DEF OpensCharge
  <2>9. ASSUME NEW u \in Stages, Works(r, u)
        PROVE  FALSE
    <3>1. pc[r] = Work[u]
      BY <2>9 DEF Works
    <3>2. Work[u] \in {"scrape", "llm"}
      BY DEF Work, Stages
    <3> QED BY <2>1, <3>1, <3>2
  <2> QED BY <1>1, <2>2, <2>3, <2>4, <2>5, <2>6, <2>7, <2>8, <2>9 DEF WorkerEffectOf
<1>4. \/ status'[r] = status[r] /\ resultOf'[r] = resultOf[r]
      \/ /\ status'[r] \notin {"completed", "running"}
         /\ resultOf'[r] = resultOf[r]
      \/ status[r] = "pending" /\ status'[r] = "running" /\ resultOf'[r] = resultOf[r]
      \/ /\ "finish" \in asked[r] /\ plan[r].status = "completed"
         /\ status'[r] = "completed" /\ resultOf'[r] = plan[r].result
  <2>1. CASE Finishes(r, "finish", plan[r])
    <3>1. plan[r].status \in Terminal
      BY DEF TypeOK, FlowTypes, Plans
    <3>2. plan[r].status # "running"
      BY <3>1 DEF Terminal
    <3> QED BY <2>1, <3>2 DEF Finishes, SameRow
  <2>2. CASE Finishes(r, "refinish", InternalError)
    BY <2>2 DEF Finishes, SameRow, InternalError
  <2>3. CASE Mirrors(r, "started", "pending", "running")
    BY <2>3 DEF Mirrors
  <2>4. CASE Mirrors(r, "processing", "running", "processing")
    BY <2>4 DEF Mirrors
  <2> QED BY <1>1, <2>1, <2>2, <2>3, <2>4 DEF WorkerEffectOf, SameRow, ReadsSettings, ClosesCharge,
          DropsObjects, OpensCharge, Works
<1>5. PaidFirst(r)'
  <2>1. \A s \in Stages : pc'[r] = Charge[s] /\ ret'[r] \in Active => ChargedNext(r, s)
    BY <1>1, <1>2, <1>3 DEF PayInvOf, PaidFirst
  <2>2. "finish" \in asked'[r] /\ plan'[r].status = "completed" =>
          plan'[r].result \in Stages /\ ChargedNext(r, plan'[r].result)
    BY <1>1, <1>2 DEF PayInvOf, PaidFirst
  <2>3. status'[r] = "completed" => resultOf'[r] \in Stages /\ ChargedNext(r, resultOf'[r])
    BY <1>2, <1>4 DEF PayInvOf, PaidFirst
  <2> QED BY <2>1, <2>2, <2>3 DEF PaidFirst, Charged, ChargedNext
<1>6. RightResult(r)'
  <2>1. /\ status'[r] = "pending" => status[r] = "pending"
        /\ status'[r] = "running" => status[r] \in {"pending", "running"}
    <3>1. CASE Finishes(r, "finish", plan[r])
      <4>1. plan[r].status \in Terminal
        BY DEF TypeOK, FlowTypes, Plans
      <4> QED BY <3>1, <4>1 DEF Finishes, SameRow, Terminal
    <3>2. CASE Finishes(r, "refinish", InternalError)
      BY <3>2 DEF Finishes, SameRow, InternalError
    <3> QED BY <1>1, <3>1, <3>2 DEF WorkerEffectOf, SameRow, ReadsSettings, ClosesCharge,
            DropsObjects, OpensCharge, Works, Mirrors
  <2> QED BY <1>1, <2>1 DEF PayInvOf, RightResult
<1> QED BY <1>5, <1>6

LEMMA EnvironmentPay ==
  ASSUME TypeOK, NEW r \in Runs, FlowInvOf(r), PayInvOf(r), Step(r), EnvironmentEffectOf(r)
  PROVE  PaidFirst(r)' /\ RightResult(r)'
<1>1. \A s \in Stages : Charged(r, s) => ChargedNext(r, s)
  BY ChargedStays DEF PayInvOf
<1>2. /\ status'[r] = "completed" => status[r] = "completed"
      /\ status'[r] = "pending" => status[r] \in {"none", "pending"}
      /\ status'[r] = "running" => status[r] = "running"
      /\ resultOf'[r] = resultOf[r]
  BY DEF EnvironmentEffectOf, Starts, Requests, Creates, Cancels, Deletes, Interrupts, Loses,
     SameRow, FlowInvOf, InOrder
<1>3. \/ pc'[r] = pc[r] /\ ret'[r] = ret[r]
      \/ ret'[r] = "no answer"
  BY DEF EnvironmentEffectOf, Starts, Requests, Creates, Cancels, Deletes, Interrupts, Loses,
     SameFlow
<1>4. \/ asked'[r] = asked[r] /\ plan'[r] = plan[r]
      \/ pc[r] = "none" /\ Asks(r, "started")
      \/ Asks(r, "refinish")
      \/ Stops(r)
  BY DEF EnvironmentEffectOf, Starts, Requests, Creates, Cancels, Deletes, Interrupts, Loses,
     SameFlow, Ends, FlowInvOf, InOrder
<1>5. PaidFirst(r)'
  <2>1. \A s \in Stages : pc'[r] = Charge[s] /\ ret'[r] \in Active => ChargedNext(r, s)
    BY <1>1, <1>3 DEF PayInvOf, PaidFirst, Active
  <2>2. "finish" \in asked'[r] /\ plan'[r].status = "completed" =>
          plan'[r].result \in Stages /\ ChargedNext(r, plan'[r].result)
    BY <1>1, <1>4 DEF PayInvOf, PaidFirst, Asks, Stops
  <2>3. status'[r] = "completed" => resultOf'[r] \in Stages /\ ChargedNext(r, resultOf'[r])
    BY <1>1, <1>2 DEF PayInvOf, PaidFirst
  <2> QED BY <2>1, <2>2, <2>3 DEF PaidFirst, Charged, ChargedNext
<1>6. RightResult(r)'
  <2>1. "finish" \in asked'[r] /\ plan'[r].status = "completed" =>
          /\ "finish" \in asked[r] /\ plan'[r] = plan[r]
          /\ "processing" \in asked'[r] => "processing" \in asked[r]
    BY <1>4 DEF Asks, Stops
  <2>2. "finish" \in asked[r] => status[r] # "none"
    BY DEF FlowInvOf, InOrder
  <2> QED BY <1>2, <2>1, <2>2 DEF PayInvOf, RightResult
<1> QED BY <1>5, <1>6

LEMMA PayInvHolds == Spec => []PayInv
<1>1. Init => PayInv
  <2> SUFFICES ASSUME Init, NEW r \in Runs
               PROVE  Released(r) /\ PaidFirst(r) /\ RightResult(r)
    BY DEF PayInv
  <2>1. /\ status[r] = "none" /\ pc[r] = "none" /\ asked[r] = {} /\ ret[r] = "no answer"
        /\ \A d \in Releases : freed[r][d] = {}
    BY DEF Init
  <2> QED BY <2>1 DEF Released, Objects, PaidFirst, RightResult, Active
<1>2. TypeOK /\ FlowInv /\ PayInv /\ [Next]_vars => PayInv'
  <2> SUFFICES ASSUME TypeOK, FlowInv, PayInv, [Next]_vars
               PROVE  PayInv'
    OBVIOUS
  <2>1. CASE UNCHANGED vars
    BY <2>1 DEF vars, rowVars, storeVars,
       apiVars, releaseVars, flowVars, PayInv, Released, Objects, PaidFirst,
       RightResult, Charged
  <2>2. ASSUME NEW r \in Runs, Step(r), NEW q \in Runs
        PROVE  PayInvOf(q)'
    <3>1. PayInvOf(q) /\ PayInvOf(r) /\ FlowInvOf(r)
      BY DEF PayInv, PayInvOf, FlowInv, FlowInvOf
    <3>2. CASE q = r
      <4>1. Released(r)'
        BY <2>2, <3>1, ReleasedStays DEF PayInvOf
      <4>2. PaidFirst(r)' /\ RightResult(r)'
        BY <2>2, <3>1, WorkerPay, WorkflowPay, EnvironmentPay, RequestEffect, DeleteEffect,
           EnvironmentEffect DEF Step, EnvironmentEffectOf
      <4> QED BY <3>2, <4>1, <4>2 DEF PayInvOf
    <3>3. CASE q # r
      <4>1. SameRun(q) /\ SameObjects(q)
        BY <2>2, <3>3, StepsAreLocal
      <4>2. \A d \in Releases : freed[q][d] \subseteq Stages
        BY DEF TypeOK, ApiTypes
      <4>3. Released(q)'
        BY <3>1, <4>1, <4>2 DEF SameRun, SameObjects, PayInvOf, Released, Objects
      <4>4. \A s \in Stages : Charged(q, s) => ChargedNext(q, s)
        BY <4>1 DEF SameRun, SameObjects, Charged, ChargedNext
      <4>5. \A s \in Stages : pc'[q] = Charge[s] /\ ret'[q] \in Active => ChargedNext(q, s)
        BY <3>1, <4>1, <4>4 DEF SameRun, PayInvOf, PaidFirst
      <4>6. "finish" \in asked'[q] /\ plan'[q].status = "completed" =>
              plan'[q].result \in Stages /\ ChargedNext(q, plan'[q].result)
        BY <3>1, <4>1, <4>4 DEF SameRun, PayInvOf, PaidFirst
      <4>7. status'[q] = "completed" => resultOf'[q] \in Stages /\ ChargedNext(q, resultOf'[q])
        BY <3>1, <4>1, <4>4 DEF SameRun, PayInvOf, PaidFirst
      <4>8. PaidFirst(q)'
        BY <4>5, <4>6, <4>7 DEF PaidFirst, Charged, ChargedNext
      <4>9. RightResult(q)'
        BY <3>1, <4>1 DEF SameRun, PayInvOf, RightResult
      <4> QED BY <4>3, <4>8, <4>9 DEF PayInvOf
    <3> QED BY <3>2, <3>3
  <2> QED BY <2>1, <2>2 DEF Next, Step, PayInv, PayInvOf
<1> QED BY <1>1, <1>2, TypeCorrect, FlowInvHolds, PTL DEF Spec

(* A completed run's result is charged to its owner (or a permanent delete *)
(* that could not finish lost it), whatever was retried, lost or late.     *)
THEOREM CompletedRunsAreCharged == Spec => []CompletedIsCharged
<1>1. PayInv => CompletedIsCharged
  BY DEF PayInv, PaidFirst, Charged, CompletedIsCharged, Stages
<1> QED BY <1>1, PayInvHolds, PTL

-----------------------------------------------------------------------------
(* A charged object exists *)

StoreInvOf(r) ==
    Chargeable(r) /\ \A s \in Stages : <<r, s>> \in ledger => InStore(r, s)

(* In the store, or lost for a reason the model names, in the next state. *)
InStoreNext(r, s) == <<r, s>> \in stored' \cup lost'

(* Chargeable, stage by stage. *)
LEMMA ChargeableParts ==
  ASSUME NEW r \in Runs
  PROVE  Chargeable(r) <=>
           /\ "chargeScrape" \in asked[r] /\ status[r] \in Active => InStore(r, "scrape")
           /\ "chargeLlm" \in asked[r] /\ status[r] \in Active => InStore(r, "llm")
           /\ (pc[r] = "scrape" /\ ret[r] = "ok") \/ pc[r] = "settings" => InStore(r, "scrape")
           /\ pc[r] = "llm" /\ ret[r] = "ok" => InStore(r, "llm")
           /\ txn[r] = "scrape" => "chargeScrape" \in asked[r] /\ status[r] \in Active
           /\ txn[r] = "llm" => "chargeLlm" \in asked[r] /\ status[r] \in Active
BY DEF Chargeable, Stages, Charge

LEMMA WorkflowStore ==
  ASSUME TypeOK, NEW r \in Runs, FlowInvOf(r), StoreInvOf(r), Workflow(r)
  PROVE  StoreInvOf(r)'
<1>1. /\ status' = status /\ ledger' = ledger /\ stored' = stored /\ lost' = lost /\ txn' = txn
  BY WorkflowOnly DEF FlowOnly, rowVars, storeVars
<1>2. WorkflowEffectOf(r) /\ ret'[r] = "no answer"
  BY WorkflowEffect
<1>3. \A s \in Stages : <<r, s>> \in ledger' => InStoreNext(r, s)
  BY <1>1 DEF StoreInvOf, InStore, InStoreNext
<1>4. \A s \in Stages : InStore(r, s) <=> InStoreNext(r, s)
  BY <1>1 DEF InStore, InStoreNext
<1>5. Chargeable(r)
  BY DEF StoreInvOf
<1>6. "scrape" \in Stages /\ "llm" \in Stages
  BY DEF Stages
<1>7. /\ "chargeScrape" \in asked'[r] =>
            "chargeScrape" \in asked[r] \/ pc[r] = "settings"
      /\ "chargeLlm" \in asked'[r] =>
            "chargeLlm" \in asked[r] \/ (pc[r] = "llm" /\ ret[r] = "ok")
      /\ pc'[r] = "settings" => pc[r] = "scrape" /\ ret[r] = "ok"
      /\ asked[r] \subseteq asked'[r]
  BY <1>2 DEF WorkflowEffectOf, Ends, Does, Asks, Stops, Completes
<1>8. /\ "chargeScrape" \in asked'[r] /\ status'[r] \in Active => InStoreNext(r, "scrape")
      /\ "chargeLlm" \in asked'[r] /\ status'[r] \in Active => InStoreNext(r, "llm")
      /\ pc'[r] = "settings" => InStoreNext(r, "scrape")
      /\ txn'[r] = "scrape" => "chargeScrape" \in asked'[r] /\ status'[r] \in Active
      /\ txn'[r] = "llm" => "chargeLlm" \in asked'[r] /\ status'[r] \in Active
  BY <1>1, <1>4, <1>5, <1>6, <1>7, ChargeableParts
<1>9. \A s \in Stages :
          /\ Charge[s] \in asked'[r] /\ status'[r] \in Active => InStoreNext(r, s)
          /\ txn'[r] = s => Charge[s] \in asked'[r] /\ status'[r] \in Active
  BY <1>8 DEF Stages, Charge
<1>10. Chargeable(r)'
  BY <1>2, <1>8, <1>9 DEF Chargeable, InStore, InStoreNext
<1> QED BY <1>3, <1>10 DEF StoreInvOf, InStore, InStoreNext

LEMMA WorkerStore ==
  ASSUME TypeOK, NEW r \in Runs, FlowInvOf(r), StoreInvOf(r), Worker(r)
  PROVE  StoreInvOf(r)'
<1>1. /\ WorkerEffectOf(r)
      /\ pc' = pc /\ asked' = asked /\ plan' = plan
  BY WorkerEffect
<1> DEFINE Kept(s) == InStore(r, s) => InStoreNext(r, s)
<1>2. lost' = lost
  BY <1>1 DEF WorkerEffectOf, Mirrors, ReadsSettings, Finishes, ClosesCharge, DropsObjects,
     OpensCharge, Works, SameStore
<1>3. CASE \/ Mirrors(r, "started", "pending", "running")
           \/ Mirrors(r, "processing", "running", "processing")
  <2>1. /\ txn'[r] = txn[r] /\ ledger' = ledger /\ stored' = stored /\ lost' = lost
        /\ status'[r] \in Active <=> status[r] \in Active
    BY <1>3 DEF Mirrors, SameStore, Active
  <2>2. ret'[r] = "ok" => ret[r] = "ok"
    BY <1>3 DEF Mirrors, Replies, TypeOK, RowTypes, Statuses, Active, Terminal
  <2> QED BY <1>1, <2>1, <2>2 DEF StoreInvOf, Chargeable, InStore
<1>4. CASE ReadsSettings(r)
  <2>1. /\ txn'[r] = txn[r] /\ ledger' = ledger /\ stored' = stored /\ lost' = lost
        /\ status'[r] = status[r] /\ pc[r] = "settings"
    BY <1>4 DEF ReadsSettings, SameStore, SameRow
  <2> QED BY <1>1, <2>1 DEF StoreInvOf, Chargeable, InStore
<1>5. ASSUME NEW S, stored' = stored \ Unrecorded(r, S), ledger' = ledger, txn'[r] = "none",
             status'[r] \notin Active,
             "scrape" \in S => pc[r] \notin {"scrape", "settings"},
             "llm" \in S => pc[r] # "llm",
             ret'[r] = ret[r] \/ pc[r] \notin {"scrape", "llm"}
      PROVE  StoreInvOf(r)'
  <2>1. \A s \in Stages : <<r, s>> \in ledger \/ s \notin S => Kept(s)
    BY <1>2, <1>5 DEF Unrecorded, Objects, InStore, InStoreNext
  <2>2. \A s \in Stages : <<r, s>> \in ledger' => InStoreNext(r, s)
    BY <1>5, <2>1 DEF StoreInvOf
  <2>3. "scrape" \in Stages /\ "llm" \in Stages
    BY DEF Stages
  <2>4. /\ (pc[r] = "scrape" /\ ret'[r] = "ok") \/ pc[r] = "settings" => InStoreNext(r, "scrape")
        /\ pc[r] = "llm" /\ ret'[r] = "ok" => InStoreNext(r, "llm")
    BY <1>5, <2>1, <2>3 DEF StoreInvOf, Chargeable
  <2>5. Chargeable(r)'
    BY <1>1, <1>5, <2>4 DEF Chargeable, InStore, InStoreNext, Stages
  <2> QED BY <2>2, <2>5 DEF StoreInvOf, InStore, InStoreNext
<1>6. CASE Finishes(r, "finish", plan[r])
  <2>1. pc[r] \in {"finish", "refinish", "done"}
    BY <1>6 DEF Finishes, FlowInvOf, InOrder
  <2>2. plan[r].status \in Terminal
    BY DEF TypeOK, FlowTypes, Plans
  <2>3. status'[r] \notin Active
    BY <1>6, <2>2 DEF Finishes, SameRow, Active, Terminal
  <2> QED BY <1>5, <1>6, <2>1, <2>3 DEF Finishes
<1>7. CASE Finishes(r, "refinish", InternalError)
  <2>1. status'[r] \notin Active
    BY <1>7 DEF Finishes, SameRow, Active, InternalError
  <2>2. ret'[r] = ret[r] \/ pc[r] \notin {"scrape", "llm"}
    BY <1>7 DEF Finishes, Replies
  <2> QED BY <1>5, <1>7, <2>1, <2>2 DEF Finishes, InternalError
<1>8. ASSUME NEW s \in Stages, DropsObjects(r, s)
      PROVE  StoreInvOf(r)'
  <2>1. status'[r] \notin Active
    BY <1>8 DEF DropsObjects, SameRow, Active
  <2>2. /\ ret'[r] = ret[r] \/ pc[r] = Charge[s]
        /\ Charge[s] \in asked[r]
    BY <1>8 DEF DropsObjects, Replies
  <2>3. CASE s = "scrape"
    BY <1>5, <1>8, <2>1, <2>2, <2>3 DEF DropsObjects, FlowInvOf, InOrder, Charge
  <2>4. CASE s = "llm"
    BY <1>5, <1>8, <2>1, <2>2, <2>4 DEF DropsObjects, FlowInvOf, InOrder, Charge
  <2> QED BY <1>8, <2>3, <2>4 DEF Stages
<1>9. CASE ClosesCharge(r)
  <2>1. /\ txn'[r] = "none" /\ stored' = stored /\ status'[r] = status[r]
        /\ ledger' = ledger \cup {<<r, txn[r]>>} /\ txn[r] \in Stages
    BY <1>9 DEF ClosesCharge, SameRow
  <2>2. InStore(r, txn[r])
    BY <2>1 DEF StoreInvOf, Chargeable
  <2>3. \A s \in Stages : <<r, s>> \in ledger' => InStoreNext(r, s)
    BY <1>2, <2>1, <2>2 DEF StoreInvOf, InStore, InStoreNext
  <2>4. ret'[r] = ret[r] \/ pc[r] \notin {"scrape", "llm"}
    BY <1>9 DEF ClosesCharge, Replies, Stages, Charge
  <2>5. Chargeable(r)'
    BY <1>1, <1>2, <2>1, <2>4 DEF StoreInvOf, Chargeable, InStore, Stages
  <2> QED BY <2>3, <2>5 DEF StoreInvOf, InStore, InStoreNext
<1>10. ASSUME NEW s \in Stages, OpensCharge(r, s)
       PROVE  StoreInvOf(r)'
  BY <1>1, <1>10 DEF OpensCharge, SameRow, StoreInvOf, Chargeable, InStore
<1>11. ASSUME NEW s \in Stages, Works(r, s)
       PROVE  StoreInvOf(r)'
  <2>1. /\ status'[r] = status[r] /\ txn'[r] = txn[r] /\ ledger' = ledger
        /\ stored \subseteq stored' /\ pc[r] = Work[s]
        /\ ret'[r] = "ok" => <<r, s>> \in stored'
    BY <1>11 DEF Works, SameRow
  <2>2. \A u \in Stages : Kept(u)
    BY <1>2, <2>1 DEF InStore, InStoreNext
  <2>3. \A u \in Stages : <<r, u>> \in ledger' => InStoreNext(r, u)
    BY <2>1, <2>2 DEF StoreInvOf
  <2>4. (pc[r] = "scrape" /\ s = "scrape") \/ (pc[r] = "llm" /\ s = "llm")
    <3>1. s = "scrape" => Work[s] = "scrape"
      BY DEF Work
    <3>2. s = "llm" => Work[s] = "llm"
      BY DEF Work
    <3> QED BY <2>1, <3>1, <3>2 DEF Stages
  <2>5. ret'[r] = "ok" => InStoreNext(r, s)
    BY <2>1 DEF InStoreNext
  <2>6. \A u \in Stages : Charge[u] \in asked[r] /\ status[r] \in Active => InStoreNext(r, u)
    BY <2>2 DEF StoreInvOf, Chargeable
  <2>7. \A u \in Stages : txn[r] = u => Charge[u] \in asked[r] /\ status[r] \in Active
    BY DEF StoreInvOf, Chargeable
  <2>8. Chargeable(r)'
    BY <1>1, <2>1, <2>4, <2>5, <2>6, <2>7 DEF Chargeable, InStore, InStoreNext
  <2> QED BY <2>3, <2>8 DEF StoreInvOf, InStore, InStoreNext
<1> QED BY <1>1, <1>3, <1>4, <1>6, <1>7, <1>8, <1>9, <1>10, <1>11 DEF WorkerEffectOf

LEMMA EnvironmentStore ==
  ASSUME TypeOK, NEW r \in Runs, FlowInvOf(r), StoreInvOf(r), EnvironmentEffectOf(r)
  PROVE  StoreInvOf(r)'
<1>1. \A s \in Stages : InStore(r, s) => InStoreNext(r, s)
  BY DEF EnvironmentEffectOf, Starts, Requests, Creates, Cancels, Deletes, Marks, Drops,
     Interrupts, Loses, SameStore, InStore, InStoreNext
<1>2. \A s \in Stages : <<r, s>> \in ledger' => <<r, s>> \in ledger
  BY DEF EnvironmentEffectOf, Starts, Requests, Creates, Cancels, Deletes, Interrupts, Loses,
     SameStore
<1>3. /\ status'[r] \in Active => status[r] \in Active \/ asked'[r] = {}
      /\ txn'[r] \in {"none", txn[r]}
      /\ txn'[r] # "none" => (status[r] \in Active => status'[r] \in Active)
  <2>1. CASE Creates(r)
    <3>1. asked'[r] = {}
      BY <2>1 DEF Creates, SameFlow, FlowInvOf, InOrder
    <3> QED BY <2>1, <3>1 DEF Creates, SameStore, Active
  <2>2. CASE Starts(r) \/ Requests(r) \/ Cancels(r) \/ Interrupts(r)
    BY <2>2 DEF Starts, Requests, Cancels, Interrupts, SameStore, SameRow, Active
  <2>3. CASE Deletes(r)
    BY <2>3 DEF Deletes, Active
  <2>4. CASE Loses(r)
    BY <2>4 DEF Loses, SameRow
  <2> QED BY <2>1, <2>2, <2>3, <2>4 DEF EnvironmentEffectOf
<1>4. /\ \A s \in Stages : Charge[s] \in asked'[r] <=> Charge[s] \in asked[r]
      /\ pc'[r] = "settings" => pc[r] = "settings"
      /\ pc'[r] \in {"scrape", "llm"} /\ ret'[r] = "ok" => pc'[r] = pc[r] /\ ret'[r] = ret[r]
  <2>1. \A s \in Stages : Charge[s] \notin {"started", "refinish", "finish"}
    BY DEF Charge, Stages
  <2>2. \/ asked'[r] = asked[r]
        \/ \E step \in {"started", "refinish", "finish"} :
              asked'[r] = asked[r] \cup {step} /\ pc'[r] = step
    BY DEF EnvironmentEffectOf, Starts, Requests, Creates, Cancels, Deletes, Interrupts, Loses,
       SameFlow, Asks, Stops, Ends
  <2>3. /\ pc'[r] = "settings" => pc[r] = "settings"
        /\ pc'[r] \in {"scrape", "llm"} /\ ret'[r] = "ok" => pc'[r] = pc[r] /\ ret'[r] = ret[r]
    BY DEF EnvironmentEffectOf, Starts, Requests, Creates, Cancels, Deletes, Interrupts, Loses,
       SameFlow, Asks, Stops, Ends
  <2> QED BY <2>1, <2>2, <2>3
<1>5. \A s \in Stages : <<r, s>> \in ledger' => InStoreNext(r, s)
  BY <1>1, <1>2 DEF StoreInvOf
<1>6. \A s \in Stages :
          /\ Charge[s] \in asked'[r] /\ status'[r] \in Active => InStoreNext(r, s)
          /\ txn'[r] = s => Charge[s] \in asked'[r] /\ status'[r] \in Active
  <2> SUFFICES ASSUME NEW s \in Stages
               PROVE  /\ Charge[s] \in asked'[r] /\ status'[r] \in Active => InStoreNext(r, s)
                      /\ txn'[r] = s => Charge[s] \in asked'[r] /\ status'[r] \in Active
    OBVIOUS
  <2>1. s # "none"
    BY DEF Stages
  <2>2. /\ Charge[s] \in asked[r] /\ status[r] \in Active => InStore(r, s)
        /\ txn[r] = s => Charge[s] \in asked[r] /\ status[r] \in Active
    BY DEF StoreInvOf, Chargeable
  <2> QED BY <1>1, <1>3, <1>4, <2>1, <2>2
<1>7. /\ (pc'[r] = "scrape" /\ ret'[r] = "ok") \/ pc'[r] = "settings" => InStoreNext(r, "scrape")
      /\ pc'[r] = "llm" /\ ret'[r] = "ok" => InStoreNext(r, "llm")
  <2>1. "scrape" \in Stages /\ "llm" \in Stages
    BY DEF Stages
  <2> QED BY <1>1, <1>4, <2>1 DEF StoreInvOf, Chargeable
<1> QED BY <1>5, <1>6, <1>7 DEF StoreInvOf, Chargeable, InStore, InStoreNext

LEMMA StoreInvHolds == Spec => [](\A r \in Runs : StoreInvOf(r))
<1>1. Init => \A r \in Runs : StoreInvOf(r)
  <2> SUFFICES ASSUME Init, NEW r \in Runs
               PROVE  StoreInvOf(r)
    OBVIOUS
  <2>1. /\ pc[r] = "none" /\ asked[r] = {} /\ txn[r] = "none" /\ ledger = {}
    BY DEF Init
  <2> QED BY <2>1 DEF StoreInvOf, Chargeable, Stages
<1>2. TypeOK /\ FlowInv /\ (\A r \in Runs : StoreInvOf(r)) /\ [Next]_vars
        => (\A r \in Runs : StoreInvOf(r))'
  <2> SUFFICES ASSUME TypeOK, FlowInv, \A r \in Runs : StoreInvOf(r), [Next]_vars,
                      NEW q \in Runs
               PROVE  StoreInvOf(q)'
    OBVIOUS
  <2>1. CASE UNCHANGED vars
    BY <2>1 DEF vars, rowVars, storeVars,
       apiVars, releaseVars, flowVars, StoreInvOf, Chargeable, InStore
  <2>2. ASSUME NEW r \in Runs, Step(r)
        PROVE  StoreInvOf(q)'
    <3>1. StoreInvOf(q) /\ StoreInvOf(r) /\ FlowInvOf(r)
      BY DEF FlowInv, FlowInvOf
    <3>2. CASE q = r
      BY <2>2, <3>1, <3>2, WorkflowStore, WorkerStore, EnvironmentStore, RequestEffect,
         DeleteEffect, EnvironmentEffect DEF Step, EnvironmentEffectOf
    <3>3. CASE q # r
      <4>1. SameRun(q) /\ SameObjects(q)
        BY <2>2, <3>3, StepsAreLocal
      <4>2. \A s \in Stages : InStore(q, s) <=> InStoreNext(q, s)
        BY <4>1 DEF SameObjects, InStore, InStoreNext
      <4>3. \A s \in Stages : <<q, s>> \in ledger' => InStoreNext(q, s)
        BY <3>1, <4>1, <4>2 DEF SameObjects, StoreInvOf
      <4>4. "scrape" \in Stages /\ "llm" \in Stages
        BY DEF Stages
      <4>5. Chargeable(q)'
        BY <3>1, <4>1, <4>2, <4>4 DEF SameRun, StoreInvOf, Chargeable, InStore, InStoreNext
      <4> QED BY <4>3, <4>5 DEF StoreInvOf, InStore, InStoreNext
    <3> QED BY <3>2, <3>3
  <2> QED BY <2>1, <2>2 DEF Next, Step
<1> QED BY <1>1, <1>2, TypeCorrect, FlowInvHolds, PTL DEF Spec

(* A ledger row stands for an object that exists (or that a transaction    *)
(* which did not commit deleted): no discard takes a charged object.       *)
THEOREM ChargedObjectsAreStored == Spec => []ChargedIsStored
<1>1. TypeOK /\ (\A r \in Runs : StoreInvOf(r)) => ChargedIsStored
  <2> SUFFICES ASSUME TypeOK, \A r \in Runs : StoreInvOf(r), NEW o \in ledger
               PROVE  o \in stored \cup lost
    BY DEF ChargedIsStored
  <2>1. PICK r \in Runs, s \in Stages : o = <<r, s>>
    BY DEF TypeOK, StoreTypes
  <2> QED BY <2>1 DEF StoreInvOf, InStore
<1> QED BY <1>1, StoreInvHolds, TypeCorrect, PTL

-----------------------------------------------------------------------------
(* The counter covers the ledger *)

LEMMA LedgerFinite ==
  ASSUME TypeOK
  PROVE  IsFiniteSet(ledger) /\ Cardinality(ledger) \in Nat
<1>1. IsFiniteSet(Runs \X Stages)
  BY RunsAssumption, StagesFinite, FS_Product
<1>2. IsFiniteSet(ledger)
  BY <1>1, FS_Subset DEF TypeOK, StoreTypes
<1> QED BY <1>2, FS_CardinalityType

LEMMA ObjectsCount ==
  ASSUME NEW r, NEW S \in SUBSET Stages
  PROVE  IsFiniteSet(Objects(r, S)) /\ Cardinality(Objects(r, S)) = Cardinality(S)
         /\ Cardinality(S) \in Nat
<1>1. IsFiniteSet(S) /\ Cardinality(S) \in Nat
  BY StagesFinite, FS_Subset, FS_CardinalityType
<1>2. IsFiniteSet({r}) /\ Cardinality({r}) = 1
  BY FS_Singleton
<1>3. IsFiniteSet({r} \X S) /\ Cardinality({r} \X S) = Cardinality({r}) * Cardinality(S)
  BY <1>1, <1>2, FS_Product
<1> QED BY <1>1, <1>2, <1>3 DEF Objects

(* Only a charge and the two ends of a release touch the ledger or the     *)
(* counter.                                                                *)
LEMMA LedgerWriters ==
  ASSUME NEW r \in Runs, Step(r)
  PROVE  \/ ledger' = ledger /\ used' = used /\ twice' = twice
         \/ CommitCharge(r)
         \/ \E d \in Releases : CommitDelete(r, d) \/ RefuseDelete(r, d)
<1>1. CASE Request(r)
  BY <1>1 DEF Request, StartWorkflow, FailUnstartedRun, storeVars, releaseVars
<1>2. CASE Worker(r)
  BY <1>2 DEF Worker, JobRunStarted, JobRunProcessing, Mirror, ReadLlmSettings, FinishJobRun,
     Finish, RecordOnStoppedRun, RecordAtWall, BeginCharge, WorkDone, WorkFails, storeVars,
     apiVars
<1>3. CASE Workflow(r)
  BY <1>3, WorkflowOnly DEF FlowOnly, storeVars, apiVars
<1>4. CASE Environment(r)
  BY <1>4 DEF Environment, CreateRun, StartRefused, StartAmbiguous, ApiDies, CancelRun,
     BeginDelete, AbortDelete, AbortCharge, GiveUp, CancelNotedByStep, CancelDuringSlotWait,
     CancelWithResult, RecordAtWallDies, AbandonAttempt, AbandonedWrite, FlowOnly, storeVars,
     apiVars, releaseVars
<1> QED BY <1>1, <1>2, <1>3, <1>4 DEF Step, Delete

(* A release that commits takes from the counter what it freed, and what   *)
(* was freed before it a second time.                                      *)
LEMMA RefundCovers ==
  ASSUME TypeOK, NEW r \in Runs, NEW d \in Releases, Released(r), CounterCoversLedger,
         Refund(Cardinality(freed[r][d]) + Cardinality(stale[r][d])),
         twice' = twice + Cardinality(stale[r][d]),
         NEW rest \in SUBSET (ledger \ Objects(r, freed[r][d]))
  PROVE  used' + twice' >= Cardinality(rest)
<1> DEFINE F == Objects(r, freed[r][d])
<1>1. IsFiniteSet(ledger) /\ Cardinality(ledger) \in Nat
  BY LedgerFinite
<1>2. IsFiniteSet(F) /\ Cardinality(F) = Cardinality(freed[r][d]) /\ Cardinality(F) \in Nat
  BY ObjectsCount DEF TypeOK, ApiTypes
<1>3. F \subseteq ledger /\ ledger \cap F = F
  BY DEF Released
<1>4. IsFiniteSet(ledger \ F) /\ Cardinality(ledger \ F) = Cardinality(ledger) - Cardinality(F)
  BY <1>1, <1>3, FS_Difference
<1>5. /\ Cardinality(rest) <= Cardinality(ledger \ F)
      /\ Cardinality(rest) \in Nat /\ Cardinality(ledger \ F) \in Nat
  BY <1>4, FS_Subset, FS_CardinalityType
<1>6. used \in Nat /\ twice \in Nat /\ used + twice >= Cardinality(ledger)
  BY DEF TypeOK, StoreTypes, ApiTypes, CounterCoversLedger
<1>7. Cardinality(stale[r][d]) \in Nat
  BY ObjectsCount DEF TypeOK, ApiTypes
<1>8. \/ used' = used - (Cardinality(F) + Cardinality(stale[r][d]))
      \/ used' = 0 /\ used <= Cardinality(F) + Cardinality(stale[r][d])
  BY <1>2, <1>6, <1>7 DEF Refund
<1> HIDE DEF F
<1> QED BY <1>1, <1>2, <1>4, <1>5, <1>6, <1>7, <1>8

LEMMA ChargeCounts ==
  ASSUME TypeOK, NEW r \in Runs, CommitCharge(r)
  PROVE  used' - used = Cardinality(ledger') - Cardinality(ledger) /\ twice' = twice
<1>1. twice' = twice
  BY DEF CommitCharge, apiVars
<1>2. IsFiniteSet(ledger) /\ Cardinality(ledger) \in Nat /\ used \in Nat
  BY LedgerFinite DEF TypeOK, StoreTypes
<1>3. CASE <<r, txn[r]>> \in ledger
  <2>1. ledger' = ledger /\ used' = used
    BY <1>3 DEF CommitCharge
  <2> QED BY <1>2, <1>1, <2>1
<1>4. CASE <<r, txn[r]>> \notin ledger
  <2>1. ledger' = ledger \cup {<<r, txn[r]>>} /\ used' = used + 1
    BY <1>4 DEF CommitCharge
  <2>2. Cardinality(ledger') = Cardinality(ledger) + 1
    BY <1>2, <1>4, <2>1, FS_AddElement
  <2> QED BY <1>2, <1>1, <2>1, <2>2
<1> QED BY <1>3, <1>4

(* storage_bytes_used is below the sum of the ledger's rows by at most     *)
(* what overlapping releases refunded twice, however charges, refunds,     *)
(* cascades and rollbacks cross and however many releases there are.       *)
THEOREM CounterCovers == Spec => []CounterCoversLedger
<1>1. Init => CounterCoversLedger
  <2>1. Cardinality({}) = 0
    BY FS_EmptySet
  <2> SUFFICES ASSUME Init PROVE used + twice >= Cardinality(ledger)
    BY DEF CounterCoversLedger
  <2>2. ledger = {} /\ used = 0 /\ twice = 0
    BY DEF Init
  <2> QED BY <2>1, <2>2
<1>2. TypeOK /\ TypeOK' /\ PayInv /\ CounterCoversLedger /\ [Next]_vars => CounterCoversLedger'
  <2> SUFFICES ASSUME TypeOK, TypeOK', PayInv, CounterCoversLedger, [Next]_vars
               PROVE  CounterCoversLedger'
    OBVIOUS
  <2>1. CASE ledger' = ledger /\ used' = used /\ twice' = twice
    BY <2>1 DEF CounterCoversLedger
  <2>2. ASSUME NEW r \in Runs, CommitCharge(r)
        PROVE  CounterCoversLedger'
    <3>1. Cardinality(ledger) \in Nat /\ used \in Nat /\ twice \in Nat
      BY LedgerFinite DEF TypeOK, StoreTypes, ApiTypes
    <3>2. Cardinality(ledger') \in Nat
      <4>1. IsFiniteSet(Runs \X Stages)
        BY RunsAssumption, StagesFinite, FS_Product
      <4>2. ledger' \in SUBSET (Runs \X Stages)
        BY DEF TypeOK, StoreTypes
      <4> QED BY <4>1, <4>2, FS_Subset, FS_CardinalityType
    <3>3. used' \in Nat
      BY DEF TypeOK, StoreTypes
    <3> QED BY <2>2, <3>1, <3>2, <3>3, ChargeCounts DEF CounterCoversLedger
  <2>3. ASSUME NEW r \in Runs, NEW d \in Releases, CommitDelete(r, d) \/ RefuseDelete(r, d)
        PROVE  CounterCoversLedger'
    <3>1. PICK rows : Take(r, d, rows) /\ freed[r][d] \subseteq rows
      BY <2>3 DEF CommitDelete, RefuseDelete, TypeOK, ApiTypes
    <3>2. /\ Refund(Cardinality(freed[r][d]) + Cardinality(stale[r][d]))
          /\ twice' = twice + Cardinality(stale[r][d])
      BY <3>1 DEF Take
    <3>3. ledger' \subseteq ledger \ Objects(r, freed[r][d])
      BY <3>1 DEF Take, Objects
    <3>4. Released(r)
      BY DEF PayInv
    <3> QED BY <3>2, <3>3, <3>4, RefundCovers DEF CounterCoversLedger
  <2>4. CASE UNCHANGED vars
    BY <2>1, <2>4 DEF vars, storeVars, apiVars
  <2> QED BY <2>1, <2>2, <2>3, <2>4, LedgerWriters DEF Next, Step
<1> QED BY <1>1, <1>2, TypeCorrect, PayInvHolds, PTL DEF Spec

(* As long as nothing is permanently deleted, the counter is exactly the   *)
(* sum of the rows: retries and rollbacks neither double nor drop a charge.*)
THEOREM CounterSums == "delete" \notin Perils => (Spec => []CounterIsSum)
<1> SUFFICES ASSUME "delete" \notin Perils
             PROVE  Spec => []CounterIsSum
  OBVIOUS
<1> DEFINE NoDelete == \A r \in Runs : \A d \in Releases : deleting[r][d] = "no"
<1>1. Init => NoDelete /\ CounterIsSum
  <2>1. Cardinality({}) = 0
    BY FS_EmptySet
  <2> SUFFICES ASSUME Init PROVE NoDelete /\ CounterIsSum
    OBVIOUS
  <2>2. NoDelete
    BY DEF Init
  <2>3. ledger = {} /\ used = 0
    BY DEF Init
  <2> QED BY <2>1, <2>2, <2>3 DEF CounterIsSum
<1>2. TypeOK /\ TypeOK' /\ NoDelete /\ CounterIsSum /\ [Next]_vars => (NoDelete /\ CounterIsSum)'
  <2> SUFFICES ASSUME TypeOK, TypeOK', NoDelete, CounterIsSum, [Next]_vars
               PROVE  NoDelete' /\ CounterIsSum'
    OBVIOUS
  <2>1. CASE UNCHANGED vars
    BY <2>1 DEF vars, storeVars, apiVars, releaseVars, CounterIsSum
  <2>2. ASSUME NEW r \in Runs, Step(r)
        PROVE  NoDelete' /\ CounterIsSum'
    <3>1. ~Delete(r) /\ \A d \in Releases : ~BeginDelete(r, d) /\ ~AbortDelete(r, d)
      BY DEF Delete, CommitDelete, RefuseDelete, BeginDelete, AbortDelete
    <3>2. deleting' = deleting
      <4>1. CASE Request(r)
        BY <4>1 DEF Request, StartWorkflow, FailUnstartedRun, releaseVars
      <4>2. CASE Worker(r)
        BY <4>2, WorkerEffect
      <4>3. CASE Workflow(r)
        BY <4>3, WorkflowOnly DEF FlowOnly, apiVars, releaseVars
      <4>4. CASE Environment(r)
        BY <3>1, <4>4 DEF Environment, CreateRun, StartRefused, StartAmbiguous, ApiDies, CancelRun,
           AbortCharge, GiveUp, CancelNotedByStep, CancelDuringSlotWait, CancelWithResult,
           RecordAtWallDies, AbandonAttempt, AbandonedWrite, FlowOnly,
              apiVars, releaseVars
      <4> QED BY <2>2, <3>1, <4>1, <4>2, <4>3, <4>4 DEF Step
    <3>3. CASE ledger' = ledger /\ used' = used
      BY <3>2, <3>3 DEF CounterIsSum
    <3>4. CASE CommitCharge(r)
      <4>1. used' - used = Cardinality(ledger') - Cardinality(ledger)
        BY <3>4, ChargeCounts
      <4>2. Cardinality(ledger) \in Nat /\ used \in Nat /\ used' \in Nat
        BY LedgerFinite DEF TypeOK, StoreTypes
      <4>3. Cardinality(ledger') \in Nat
        <5>1. IsFiniteSet(Runs \X Stages)
          BY RunsAssumption, StagesFinite, FS_Product
        <5>2. ledger' \in SUBSET (Runs \X Stages)
          BY DEF TypeOK, StoreTypes
        <5> QED BY <5>1, <5>2, FS_Subset, FS_CardinalityType
      <4> QED BY <3>2, <4>1, <4>2, <4>3 DEF CounterIsSum
    <3> QED BY <2>2, <3>1, <3>3, <3>4, LedgerWriters DEF Delete
  <2> QED BY <2>1, <2>2 DEF Next, Step
<1> QED BY <1>1, <1>2, TypeCorrect, PTL DEF Spec

-----------------------------------------------------------------------------
(* JobRun implements JobRunContract: every step of a run is a step a       *)
(* client may see, or none.                                                *)

clientVars == <<status, resultOf, hooks>>

LEMMA RequestSeen ==
  ASSUME TypeOK, NEW r \in Runs, FlowInvOf(r), Request(r)
  PROVE  UNCHANGED clientVars \/ Contract!FailUnstarted(r)
<1>1. CASE StartWorkflow(r)
  BY <1>1 DEF StartWorkflow, rowVars, clientVars
<1>2. CASE FailUnstartedRun(r)
  <2>1. CASE status[r] = "gone"
    BY <1>2, <2>1 DEF FailUnstartedRun, clientVars
  <2>2. CASE status[r] # "gone"
    <3>1. status[r] # "none"
      BY <1>2 DEF FailUnstartedRun, FlowInvOf, InOrder
    <3> QED BY <1>2, <2>2, <3>1 DEF FailUnstartedRun, Announce, Contract!FailUnstarted,
            Contract!Become, Contract!Announce
  <2> QED BY <2>1, <2>2
<1> QED BY <1>1, <1>2 DEF Request

LEMMA DeleteSeen ==
  ASSUME TypeOK, NEW r \in Runs, FlowInvOf(r), AnnouncedOf(r), Delete(r)
  PROVE  UNCHANGED clientVars \/ Contract!Remove(r)
<1>1. ASSUME NEW d \in Releases, CommitDelete(r, d)
      PROVE  UNCHANGED clientVars \/ Contract!Remove(r)
  <2>1. status[r] # "none"
    BY <1>1 DEF CommitDelete, FlowInvOf, InOrder, Releasing
  <2>2. CASE status[r] = "gone"
    <3>1. hooks[r] = {}
      BY <2>2 DEF AnnouncedOf
    <3>2. status' = status /\ hooks' = hooks
      BY <1>1, <2>2, <3>1 DEF CommitDelete, TypeOK, RowTypes
    <3> QED BY <1>1, <3>2 DEF CommitDelete, clientVars
  <2>3. CASE status[r] # "gone"
    BY <1>1, <2>1, <2>3 DEF CommitDelete, Contract!Remove, Contract!Become
  <2> QED BY <2>2, <2>3
<1>2. ASSUME NEW d \in Releases, RefuseDelete(r, d)
      PROVE  UNCHANGED clientVars
  BY <1>2 DEF RefuseDelete, rowVars, clientVars
<1> QED BY <1>1, <1>2 DEF Delete

LEMMA MirrorSeen ==
  ASSUME TypeOK, NEW r \in Runs, NEW c,
         NEW from, NEW to, Mirror(r, c, from, to),
         \/ from = "pending" /\ to = "running"
         \/ from = "running" /\ to = "processing"
  PROVE  UNCHANGED clientVars \/ Contract!Advance(r)
<1>1. CASE status[r] = from
  BY <1>1 DEF Mirror, Moved, Contract!Advance, Contract!Become
<1>2. CASE status[r] # from
  <2>1. status' = status
    BY <1>2 DEF Mirror, Moved, TypeOK, RowTypes
  <2> QED BY <2>1 DEF Mirror, clientVars
<1> QED BY <1>1, <1>2

LEMMA FinishSeen ==
  ASSUME TypeOK, NEW r \in Runs, FlowInvOf(r), PayInvOf(r), FinishJobRun(r)
  PROVE  \/ UNCHANGED clientVars
         \/ Contract!Complete(r) \/ Contract!Fail(r) \/ Contract!Cancel(r)
<1>1. ASSUME NEW c, NEW to, Finish(r, c, to), status[r] \notin Active
      PROVE  UNCHANGED clientVars
  BY <1>1 DEF Finish, clientVars
<1>2. ASSUME NEW c, NEW to, Finish(r, c, to), status[r] \in Active, to.status = "failed"
      PROVE  Contract!Fail(r)
  <2>1. resultOf' = resultOf
    BY <1>2 DEF Finish, TypeOK, RowTypes
  <2> QED BY <1>2, <2>1 DEF Finish, Announce, EventOf, Active, Contract!Fail, Contract!Active,
          Contract!Become, Contract!Announce
<1>3. ASSUME NEW c, NEW to, Finish(r, c, to), status[r] \in Active, to.status = "cancelled"
      PROVE  Contract!Cancel(r)
  <2>1. resultOf' = resultOf
    BY <1>3 DEF Finish, TypeOK, RowTypes
  <2>2. {"no event"} \cap Subscribed = {}
    BY SubscribedAssumption DEF Events
  <2>3. hooks' = [hooks EXCEPT ![r] = @ \cup ({"no event"} \cap Subscribed)]
    <3>1. EventOf[to.status] = "no event"
      BY <1>3 DEF EventOf
    <3>2. Announce(r, EventOf[to.status])
      BY <1>3 DEF Finish
    <3> QED BY <3>1, <3>2 DEF Announce
  <2>4. hooks[r] \cup ({"no event"} \cap Subscribed) = hooks[r]
    BY <2>2
  <2>5. hooks' = hooks
    BY <2>3, <2>4 DEF TypeOK, RowTypes
  <2> QED BY <1>3, <2>1, <2>5 DEF Finish, Active, Contract!Cancel, Contract!Active, Contract!Become
<1>4. CASE Finish(r, "finish", plan[r]) /\ status[r] \in Active /\ plan[r].status = "completed"
  <2>1. "finish" \in asked[r]
    BY <1>4 DEF Finish, Attempt
  <2>2. /\ plan[r].result \in Stages /\ status[r] # "pending"
        /\ plan[r].result = "scrape" => "processing" \notin asked[r]
        /\ plan[r].result = "llm" => status[r] # "running"
    BY <1>4, <2>1 DEF PayInvOf, PaidFirst, RightResult
  <2>3. \/ status[r] = "running" /\ plan[r].result = "scrape"
        \/ status[r] = "processing" /\ plan[r].result = "llm"
    BY <1>4, <2>2 DEF FlowInvOf, Reached, Active, Stages
  <2>4. /\ status' = [status EXCEPT ![r] = "completed"]
        /\ resultOf' = [resultOf EXCEPT ![r] = plan[r].result]
        /\ hooks' = [hooks EXCEPT ![r] = @ \cup ({"job.completed"} \cap Subscribed)]
    BY <1>4 DEF Finish, Announce, EventOf
  <2> QED BY <2>3, <2>4 DEF Contract!Complete, Contract!Become, Contract!Announce
<1>5. plan[r].status \in {"completed", "failed", "cancelled"}
  BY DEF TypeOK, FlowTypes, Plans, Terminal
<1>6. CASE Finish(r, "finish", plan[r])
  BY <1>1, <1>2, <1>3, <1>4, <1>5, <1>6
<1>7. CASE Finish(r, "refinish", InternalError)
  BY <1>1, <1>2, <1>7 DEF InternalError
<1> QED BY <1>6, <1>7 DEF FinishJobRun

LEMMA WallSeen ==
  ASSUME TypeOK, NEW r \in Runs, FlowInvOf(r), NEW s \in Stages, RecordAtWall(r, s)
  PROVE  Contract!FailAtWall(r)
<1>1. Charge[s] \in asked[r] /\ status[r] \in Active
  BY DEF RecordAtWall, Attempt
<1>2. "chargeScrape" \in asked[r] \/ "chargeLlm" \in asked[r]
  BY <1>1 DEF Stages, Charge
<1>3. status[r] \in {"running", "processing"}
  BY <1>1, <1>2 DEF FlowInvOf, Reached, Active
<1> QED BY <1>3 DEF RecordAtWall, Contract!FailAtWall, Contract!Become

LEMMA WorkerSeen ==
  ASSUME TypeOK, NEW r \in Runs, FlowInvOf(r), PayInvOf(r), Worker(r)
  PROVE  UNCHANGED clientVars \/ Contract!Next
<1>1. CASE JobRunStarted(r) \/ JobRunProcessing(r)
  BY <1>1, MirrorSeen DEF JobRunStarted, JobRunProcessing, Contract!Next
<1>2. CASE FinishJobRun(r)
  BY <1>2, FinishSeen DEF Contract!Next
<1>3. ASSUME NEW s \in Stages, RecordAtWall(r, s)
      PROVE  Contract!Next
  BY <1>3, WallSeen DEF Contract!Next
<1>4. CASE ReadLlmSettings(r) \/ CommitCharge(r)
  BY <1>4 DEF ReadLlmSettings, CommitCharge, rowVars, clientVars
<1>5. ASSUME NEW s \in Stages,
             RecordOnStoppedRun(r, s) \/ BeginCharge(r, s) \/ WorkDone(r, s) \/ WorkFails(r, s)
      PROVE  UNCHANGED clientVars
  BY <1>5 DEF RecordOnStoppedRun, BeginCharge, WorkDone, WorkFails, rowVars, clientVars
<1> QED BY <1>1, <1>2, <1>3, <1>4, <1>5 DEF Worker

LEMMA EnvironmentSeen ==
  ASSUME TypeOK, NEW r \in Runs, FlowInvOf(r), Environment(r)
  PROVE  UNCHANGED clientVars \/ Contract!Submit(r) \/ Contract!Cancel(r)
<1>1. CASE CreateRun(r)
  <2>1. status[r] = "none"
    BY <1>1 DEF CreateRun, FlowInvOf, InOrder
  <2> QED BY <1>1, <2>1 DEF CreateRun, Contract!Submit, Contract!Become
<1>2. CASE CancelRun(r)
  BY <1>2 DEF CancelRun, Active, Contract!Cancel, Contract!Active, Contract!Become
<1>3. CASE \/ StartRefused(r) \/ StartAmbiguous(r) \/ ApiDies(r)
           \/ (\E d \in Releases : BeginDelete(r, d) \/ AbortDelete(r, d))
           \/ AbortCharge(r) \/ GiveUp(r) \/ CancelNotedByStep(r) \/ CancelDuringSlotWait(r)
           \/ CancelWithResult(r)
           \/ \E s \in Stages : \/ RecordAtWallDies(r, s) \/ AbandonAttempt(r, s)
                                \/ AbandonedWrite(r, s)
  BY <1>3 DEF StartRefused, StartAmbiguous, ApiDies, BeginDelete, AbortDelete, AbortCharge,
     GiveUp, CancelNotedByStep, CancelDuringSlotWait, CancelWithResult, RecordAtWallDies,
     AbandonAttempt, AbandonedWrite, FlowOnly, rowVars, clientVars
<1> QED BY <1>1, <1>2, <1>3 DEF Environment

(* The client's contract holds of the whole job lane: outcome, result and  *)
(* webhook row change together, in the contract's order, under every peril.*)
THEOREM Refinement == Spec => ContractHolds
<1>1. Init => Contract!Init
  BY DEF Init, Contract!Init
<1>2. TypeOK /\ FlowInv /\ PayInv /\ AnnounceInv /\ [Next]_vars
      => [Contract!Next]_clientVars
  <2> SUFFICES ASSUME TypeOK, FlowInv, PayInv, AnnounceInv, [Next]_vars
               PROVE  [Contract!Next]_clientVars
    OBVIOUS
  <2>1. CASE UNCHANGED vars
    BY <2>1 DEF vars, rowVars, clientVars
  <2>2. ASSUME NEW r \in Runs, Step(r)
        PROVE  UNCHANGED clientVars \/ Contract!Next
    <3>1. FlowInvOf(r) /\ PayInvOf(r) /\ AnnouncedOf(r)
      BY DEF FlowInv, FlowInvOf, PayInv, PayInvOf, AnnounceInv
    <3>2. CASE Workflow(r)
      BY <3>2, WorkflowOnly DEF FlowOnly, rowVars, clientVars
    <3> QED BY <2>2, <3>1, <3>2, RequestSeen, DeleteSeen, WorkerSeen, EnvironmentSeen
            DEF Step, Contract!Next
  <2> QED BY <2>1, <2>2 DEF Next, Step
<1> QED BY <1>1, <1>2, TypeCorrect, FlowInvHolds, PayInvHolds, AnnounceInvHolds, PTL
        DEF Spec, ContractHolds, Contract!Spec, clientVars

-----------------------------------------------------------------------------
(* No object is left behind *)

Excused(r) == gaveUp[r] \/ cancelled[r] = "escaped" \/ abandoned[r] # {}

(* The workflow still has to charge or discard the object.                 *)
Awaited(r, s) ==
    \/ pc[r] = Work[s] /\ ret[r] = "ok"
    \/ s = "scrape" /\ pc[r] = "settings"
    \/ pc[r] = Charge[s] /\ ret[r] = "no answer"
    \/ pc[r] = "finish" /\ ret[r] = "no answer" /\ s \in plan[r].discard

(* A released object is gone, and a stored one is charged or awaited.      *)
Tidy(r, s) ==
    /\ (\E d \in Releases : s \in freed[r][d]) => <<r, s>> \notin stored
    /\ <<r, s>> \in stored => <<r, s>> \in ledger \/ Awaited(r, s)

TidyNext(r, s) == Tidy(r, s)'

(* Only a call to charge it makes an object a ledger row.                  *)
Entitled(r) == \A s \in Stages : <<r, s>> \in ledger \/ txn[r] = s => Charge[s] \in asked[r]

OrphanInvOf(r) ==
    /\ Entitled(r)
    /\ Excused(r) \/ status[r] = "gone" \/ \A s \in Stages : Tidy(r, s)

LEMMA ExcusesStay ==
  ASSUME TypeOK, NEW r \in Runs, NEW q \in Runs, Step(r), Excused(q)
  PROVE  Excused(q)'
<1> USE DEF TypeOK, FlowTypes, Excused, flowVars
<1>1. CASE Request(r)
  BY <1>1 DEF Request, StartWorkflow, FailUnstartedRun
<1>2. CASE Delete(r)
  BY <1>2 DEF Delete, CommitDelete, RefuseDelete
<1>3. CASE Worker(r)
  BY <1>3 DEF Worker, JobRunStarted, JobRunProcessing, Mirror, ReadLlmSettings, FinishJobRun,
     Finish, CommitCharge, RecordOnStoppedRun, RecordAtWall, BeginCharge, WorkDone, WorkFails
<1>4. CASE Workflow(r)
  BY <1>4, WorkflowOnly DEF FlowOnly
<1>5. CASE GiveUp(r)
  BY <1>5 DEF GiveUp
<1>6. CASE CancelNotedByStep(r) \/ CancelDuringSlotWait(r)
  BY <1>6 DEF CancelNotedByStep, CancelDuringSlotWait, FlowOnly
<1>7. CASE CancelWithResult(r)
  BY <1>7 DEF CancelWithResult
<1>8. ASSUME NEW s \in Stages, AbandonAttempt(r, s)
      PROVE  Excused(q)'
  <2>1. gaveUp' = gaveUp /\ cancelled' = cancelled
    BY <1>8 DEF AbandonAttempt
  <2>2. abandoned[q] \subseteq abandoned'[q]
    BY <1>8 DEF AbandonAttempt
  <2> QED BY <2>1, <2>2
<1>9. ASSUME NEW s \in Stages, RecordAtWallDies(r, s) \/ AbandonedWrite(r, s)
      PROVE  Excused(q)'
  BY <1>9 DEF RecordAtWallDies, AbandonedWrite
<1>10. CASE \/ CreateRun(r) \/ StartRefused(r) \/ StartAmbiguous(r) \/ ApiDies(r)
            \/ CancelRun(r) \/ AbortCharge(r)
            \/ \E d \in Releases : BeginDelete(r, d) \/ AbortDelete(r, d)
  BY <1>10 DEF CreateRun, StartRefused, StartAmbiguous, ApiDies, CancelRun, BeginDelete,
     AbortDelete, AbortCharge
<1> QED BY <1>1, <1>2, <1>3, <1>4, <1>5, <1>6, <1>7, <1>8, <1>9, <1>10 DEF Step, Environment

(* What is left to show of a step.                                         *)
LEMMA OrphanKeeps ==
  ASSUME NEW r \in Runs, OrphanInvOf(r),
         asked[r] \subseteq asked'[r],
         \A s \in Stages : <<r, s>> \in ledger' \/ txn'[r] = s =>
             <<r, s>> \in ledger \/ txn[r] = s \/ Charge[s] \in asked'[r],
         Excused(r) => Excused(r)',
         status[r] = "gone" => status'[r] = "gone",
         Excused(r)' \/ status'[r] = "gone" \/ \A s \in Stages : Tidy(r, s) => TidyNext(r, s)
  PROVE  OrphanInvOf(r)'
<1>1. Entitled(r)'
  BY DEF OrphanInvOf, Entitled
<1>2. Excused(r)' \/ status'[r] = "gone" \/ \A s \in Stages : TidyNext(r, s)
  BY DEF OrphanInvOf
<1> QED BY <1>1, <1>2 DEF OrphanInvOf, TidyNext

LEMMA StageSteps ==
    /\ Stages = {"scrape", "llm"}
    /\ Work["scrape"] = "scrape" /\ Work["llm"] = "llm"
    /\ Charge["scrape"] = "chargeScrape" /\ Charge["llm"] = "chargeLlm"
BY DEF Stages, Work, Charge

LEMMA WorkflowTidy ==
  ASSUME TypeOK, NEW r \in Runs, Workflow(r), NEW s \in Stages, Tidy(r, s)
  PROVE  TidyNext(r, s)
<1>1. stored' = stored /\ ledger' = ledger /\ freed' = freed
  BY WorkflowOnly DEF FlowOnly, storeVars, apiVars, releaseVars
<1>2. ASSUME NEW st, NEW res, NEW drop, AskFinish(r, st, res, drop), s \in drop
      PROVE  Awaited(r, s)'
  <2>1. plan'[r] = [status |-> st, result |-> res, discard |-> drop]
    BY <1>2 DEF TypeOK, FlowTypes, AskFinish
  <2>2. plan'[r].discard = drop
    BY ONLY <2>1
  <2> QED BY <1>2, <2>2, AskFinishEffect DEF Awaited
<1>3. ASSUME Awaited(r, s) PROVE Awaited(r, s)'
  <2> USE DEF Has, Awaited
  <2>1. CASE AfterScrape(r)
    <3>1. s = "scrape" /\ ret[r] = "ok"
      BY <1>3, <2>1, StageSteps DEF AfterScrape
    <3>2. CASE AskFinish(r, "cancelled", "none", {"scrape"})
      BY <1>2, <3>1, <3>2
    <3>3. CASE Goto(r, "settings")
      BY <3>1, <3>3, GotoEffect
    <3> QED BY <2>1, <3>1, <3>2, <3>3 DEF AfterScrape
  <2>2. CASE AfterSettings(r)
    <3>1. s = "scrape"
      BY <1>3, <2>2, StageSteps DEF AfterSettings
    <3>2. CASE AskFinish(r, "failed", "none", {"scrape"})
      BY <1>2, <3>1, <3>2
    <3>3. CASE Goto(r, "chargeScrape")
      BY <3>1, <3>3, GotoEffect, StageSteps
    <3> QED BY <2>2, <3>2, <3>3 DEF AfterSettings
  <2>3. CASE AfterLlm(r)
    <3>1. s = "llm" /\ ret[r] = "ok"
      BY <1>3, <2>3, StageSteps DEF AfterLlm
    <3>2. CASE AskFinish(r, "cancelled", "none", {"llm"})
      BY <1>2, <3>1, <3>2
    <3>3. CASE Goto(r, "chargeLlm")
      BY <3>1, <3>3, GotoEffect, StageSteps
    <3> QED BY <2>3, <3>1, <3>2, <3>3 DEF AfterLlm
  <2>4. CASE AfterStarted(r) \/ HostSlotTaken(r) \/ AfterProcessing(r) \/ AfterFinish(r)
    BY <1>3, <2>4, StageSteps DEF AfterStarted, HostSlotTaken, AfterProcessing, AfterFinish
  <2>5. CASE AfterChargeScrape(r) \/ AfterChargeLlm(r)
    BY <1>3, <2>5, StageSteps DEF AfterChargeScrape, AfterChargeLlm
  <2> QED BY <2>1, <2>2, <2>3, <2>4, <2>5 DEF Workflow
<1> QED BY <1>1, <1>3 DEF Tidy, TidyNext

LEMMA WorkflowOrphans ==
  ASSUME TypeOK, NEW r \in Runs, OrphanInvOf(r), Workflow(r)
  PROVE  OrphanInvOf(r)'
<1>1. ledger' = ledger /\ txn' = txn /\ status' = status
  BY WorkflowOnly DEF FlowOnly, storeVars, rowVars
<1>2. WorkflowEffectOf(r)
  BY WorkflowEffect
<1>3. asked[r] \subseteq asked'[r]
  BY <1>2 DEF WorkflowEffectOf, Ends, Asks, Does, Stops, Completes
<1>4. Excused(r) => Excused(r)'
  BY ExcusesStay DEF Step
<1>5. \A s \in Stages : Tidy(r, s) => TidyNext(r, s)
  BY WorkflowTidy
<1> QED BY <1>1, <1>3, <1>4, <1>5, OrphanKeeps

LEMMA WorkerTidy ==
  ASSUME TypeOK, NEW r \in Runs, FlowInvOf(r), Released(r), Entitled(r), Worker(r),
         NEW s \in Stages, Tidy(r, s)
  PROVE  TidyNext(r, s)
<1>1. /\ WorkerEffectOf(r)
      /\ UNCHANGED <<freed, pc, asked, plan>>
  BY WorkerEffect
<1>2. s \in {"scrape", "llm"} /\ r \in Runs
  BY StageSteps
<1> DEFINE Still == Awaited(r, s) => Awaited(r, s)'
<1>3. Still /\ (<<r, s>> \in stored' => <<r, s>> \in stored) /\ ledger \subseteq ledger'
      => TidyNext(r, s)
  BY <1>1 DEF Tidy, TidyNext
<1>4. ret'[r] = ret[r] => Still
  BY <1>1 DEF Awaited
<1>5. pc[r] \notin {"scrape", "llm", "chargeScrape", "chargeLlm", "finish"} => Still
  BY <1>1, <1>2, StageSteps DEF Awaited
<1>6. ASSUME NEW c \in {"started", "processing"}, NEW from, NEW to, Mirrors(r, c, from, to)
      PROVE  TidyNext(r, s)
  <2>1. Still
    BY <1>4, <1>5, <1>6 DEF Mirrors, Replies
  <2> QED BY <1>3, <1>6, <2>1 DEF Mirrors, SameStore
<1>7. CASE ReadsSettings(r)
  <2>1. Still
    BY <1>5, <1>7 DEF ReadsSettings
  <2> QED BY <1>3, <1>7, <2>1 DEF ReadsSettings, SameStore
<1>8. CASE Finishes(r, "finish", plan[r])
  <2>1. CASE pc[r] # "finish"
    <3>1. ret'[r] = ret[r]
      BY <1>8, <2>1 DEF Finishes, SameRow, Replies
    <3> QED BY <1>3, <1>4, <1>8, <3>1 DEF Finishes
  <2>2. CASE pc[r] = "finish"
    <3>1. Awaited(r, s) => s \in plan[r].discard
      BY <1>2, <2>2, StageSteps DEF Awaited
    <3>2. <<r, s>> \in stored' =>
             <<r, s>> \in stored /\ (s \in plan[r].discard => <<r, s>> \in ledger)
      BY <1>8 DEF Finishes, Unrecorded, Objects
    <3>3. ledger' = ledger
      BY <1>8 DEF Finishes
    <3> QED BY <1>1, <3>1, <3>2, <3>3 DEF Tidy, TidyNext
  <2> QED BY <2>1, <2>2
<1>9. CASE Finishes(r, "refinish", InternalError)
  <2>1. Still
    BY <1>4, <1>5, <1>9 DEF Finishes, SameRow, Replies
  <2> QED BY <1>3, <1>9, <2>1 DEF Finishes
<1>10. CASE ClosesCharge(r)
  <2>1. PICK u \in Stages : u = txn[r]
    BY <1>10 DEF ClosesCharge
  <2>2. ledger' = ledger \cup {<<r, u>>} /\ stored' = stored /\ Replies(r, Charge[u], status[r])
    BY <1>10, <2>1 DEF ClosesCharge
  <2>3. CASE s = u
    <3>1. <<r, s>> \in ledger'
      BY <2>2, <2>3
    <3> QED BY <1>1, <2>2, <3>1 DEF Tidy, TidyNext
  <2>4. CASE s # u
    <3>1. pc[r] = Charge[u] => Still
      BY <1>1, <1>2, <2>1, <2>4, StageSteps DEF Awaited
    <3>2. Still
      BY <1>4, <2>2, <3>1 DEF Replies
    <3> QED BY <1>3, <2>2, <3>2
  <2> QED BY <2>3, <2>4
<1>11. ASSUME NEW u \in Stages, DropsObjects(r, u)
       PROVE  TidyNext(r, s)
  <2>1. /\ stored' = stored \ Unrecorded(r, {u}) /\ ledger' = ledger
        /\ pc[r] = Charge[u] \/ ret'[r] = ret[r]
    BY <1>11 DEF DropsObjects, SameRow, Replies
  <2>2. CASE s = u
    <3>1. <<r, s>> \in stored' => <<r, s>> \in stored /\ <<r, s>> \in ledger'
      BY <2>1, <2>2 DEF Unrecorded, Objects
    <3> QED BY <1>1, <3>1 DEF Tidy, TidyNext
  <2>3. CASE s # u
    <3>1. pc[r] = Charge[u] => Still
      BY <1>1, <1>2, <2>3, StageSteps DEF Awaited
    <3> QED BY <1>3, <1>4, <2>1, <3>1
  <2> QED BY <2>2, <2>3
<1>12. ASSUME NEW u \in Stages, OpensCharge(r, u)
       PROVE  TidyNext(r, s)
  BY <1>3, <1>4, <1>12 DEF OpensCharge
<1>13. ASSUME NEW u \in Stages, Works(r, u)
       PROVE  TidyNext(r, s)
  <2>1. /\ pc[r] = Work[u] /\ ret[r] = "no answer" /\ ledger' = ledger
        /\ \/ ret'[r] = "ok" /\ stored' = stored \cup {<<r, u>>}
           \/ stored' = stored
    BY <1>13 DEF Works
  <2>2. ~Awaited(r, s)
    BY <1>2, <2>1, StageSteps DEF Awaited
  <2>3. CASE stored' = stored
    BY <1>3, <2>1, <2>2, <2>3
  <2>4. CASE ret'[r] = "ok" /\ stored' = stored \cup {<<r, u>>} /\ s # u
    <3>1. <<r, s>> \in stored' => <<r, s>> \in stored
      BY <2>4
    <3> QED BY <1>3, <2>1, <2>2, <3>1
  <2>5. CASE ret'[r] = "ok" /\ s = u
    <3>1. Charge[s] \notin asked[r]
      BY <1>2, <2>1, <2>5, StageSteps DEF FlowInvOf, InOrder
    <3>2. \A d \in Releases : s \notin freed[r][d]
      BY <3>1 DEF Entitled, Released, Objects
    <3>3. Awaited(r, s)'
      BY <1>1, <2>1, <2>5 DEF Awaited
    <3> QED BY <1>1, <3>2, <3>3 DEF TidyNext, Tidy
  <2> QED BY <2>1, <2>3, <2>4, <2>5
<1> QED BY <1>1, <1>6, <1>7, <1>8, <1>9, <1>10, <1>11, <1>12, <1>13 DEF WorkerEffectOf

LEMMA WorkerOrphans ==
  ASSUME TypeOK, NEW r \in Runs, FlowInvOf(r), Released(r), OrphanInvOf(r), Worker(r)
  PROVE  OrphanInvOf(r)'
<1>1. /\ WorkerEffectOf(r)
      /\ asked' = asked
  BY WorkerEffect
<1>2. \A s \in Stages : <<r, s>> \in ledger' \/ txn'[r] = s =>
          <<r, s>> \in ledger \/ txn[r] = s \/ Charge[s] \in asked'[r]
  <2> SUFFICES ASSUME NEW s \in Stages, <<r, s>> \in ledger' \/ txn'[r] = s,
                      ~(<<r, s>> \in ledger), txn[r] # s
               PROVE  Charge[s] \in asked[r]
    BY <1>1
  <2>1. s # "none"
    BY StageSteps
  <2>2. CASE ClosesCharge(r)
    BY <2>1, <2>2 DEF ClosesCharge
  <2>3. ASSUME NEW u \in Stages, OpensCharge(r, u)
        PROVE  Charge[s] \in asked[r]
    BY <2>3 DEF OpensCharge
  <2>4. ASSUME NEW u \in Stages, DropsObjects(r, u) \/ Works(r, u)
        PROVE  FALSE
    BY <2>1, <2>4 DEF DropsObjects, Works
  <2>5. ~Mirrors(r, "started", "pending", "running")
        /\ ~Mirrors(r, "processing", "running", "processing")
    BY DEF Mirrors, SameStore
  <2>6. ~ReadsSettings(r) /\ ~Finishes(r, "finish", plan[r])
        /\ ~Finishes(r, "refinish", InternalError)
    BY DEF ReadsSettings, Finishes, SameStore
  <2> QED BY <1>1, <2>2, <2>3, <2>4, <2>5, <2>6 DEF WorkerEffectOf
<1>3. Excused(r) => Excused(r)'
  BY ExcusesStay DEF Step
<1>4. \A s \in Stages : Tidy(r, s) => TidyNext(r, s)
  BY WorkerTidy DEF OrphanInvOf
<1>5. status[r] = "gone" => status'[r] = "gone"
  BY <1>1 DEF WorkerEffectOf, Mirrors, ReadsSettings, Finishes, ClosesCharge, DropsObjects,
     OpensCharge, Works, SameRow, Active
<1> QED BY <1>1, <1>2, <1>3, <1>4, <1>5, OrphanKeeps

LEMMA EnvironmentTidy ==
  ASSUME TypeOK, NEW r \in Runs, FlowInvOf(r), EnvironmentEffectOf(r),
         ~Excused(r)', status'[r] # "gone", NEW s \in Stages, Tidy(r, s)
  PROVE  TidyNext(r, s)
<1>1. s \in {"scrape", "llm"}
  BY StageSteps
<1>2. SameFlow(r) => (Awaited(r, s) => Awaited(r, s)')
  BY DEF SameFlow, Awaited
<1>3. CASE Starts(r)
  <2>1. pc[r] = "none"
    BY <1>3 DEF Starts, FlowInvOf, InOrder
  <2>2. ~Awaited(r, s)
    BY <1>1, <2>1, StageSteps DEF Awaited
  <2> QED BY <1>3, <2>2 DEF Starts, SameStore, SameDelete, Tidy, TidyNext
<1>4. CASE Requests(r) \/ Creates(r) \/ Cancels(r)
  BY <1>2, <1>4 DEF Requests, Creates, Cancels, SameStore, SameDelete, Tidy, TidyNext
<1>5. CASE Deletes(r)
  <2>1. SameFlow(r)
    BY <1>5 DEF Deletes
  <2>2. CASE Marks(r)
    BY <1>2, <2>1, <2>2 DEF Marks, Objects, Tidy, TidyNext
  <2>3. CASE Drops(r)
    <3>1. PICK rows \in SUBSET Stages :
              /\ ledger' = ledger \ Objects(r, rows)
              /\ \A d \in Releases : freed'[r][d] \subseteq freed[r][d] \ rows
              /\ rows = {} \/ \E d \in Releases : rows = freed[r][d]
      BY <2>3 DEF Drops
    <3>2. stored' = stored /\ (s \in rows => <<r, s>> \notin stored)
      BY <2>3, <3>1 DEF Drops, Tidy
    <3> QED BY <1>2, <2>1, <3>1, <3>2 DEF Objects, Tidy, TidyNext
  <2> QED BY <1>5, <2>2, <2>3 DEF Deletes
<1>6. CASE Interrupts(r)
  <2>1. stored' = stored /\ ledger' = ledger /\ freed'[r] = freed[r]
    BY <1>6 DEF Interrupts, SameStore, SameDelete
  <2>2. SameFlow(r) \/ pc[r] = "slot"
    BY <1>6 DEF Interrupts, Excused
  <2>3. pc[r] = "slot" => ~Awaited(r, s)
    BY <1>1, StageSteps DEF Awaited
  <2> QED BY <1>2, <2>1, <2>2, <2>3 DEF Tidy, TidyNext
<1>7. CASE Loses(r)
  <2>1. SameFlow(r) /\ ledger' = ledger /\ freed'[r] = freed[r]
    BY <1>7 DEF Loses, SameDelete
  <2>2. stored' \subseteq stored
    BY <1>7 DEF Loses, Excused
  <2> QED BY <1>2, <2>1, <2>2 DEF Tidy, TidyNext
<1> QED BY <1>3, <1>4, <1>5, <1>6, <1>7 DEF EnvironmentEffectOf

LEMMA EnvironmentOrphans ==
  ASSUME TypeOK, NEW r \in Runs, FlowInvOf(r), OrphanInvOf(r), Step(r), EnvironmentEffectOf(r)
  PROVE  OrphanInvOf(r)'
<1> USE DEF EnvironmentEffectOf, Starts, Requests, Creates, Cancels, Deletes, Interrupts, Loses
<1>1. asked[r] \subseteq asked'[r]
  BY DEF SameFlow, Asks, Ends, Stops
<1>2. ledger' \subseteq ledger
  BY DEF SameStore
<1>3. txn'[r] = txn[r] \/ txn'[r] = "none"
  BY DEF SameStore
<1>4. status[r] = "gone" => status'[r] = "gone"
  BY DEF SameRow, FlowInvOf, InOrder, Active
<1> HIDE DEF EnvironmentEffectOf, Starts, Requests, Creates, Cancels, Deletes, Interrupts, Loses
<1>5. \A s \in Stages : <<r, s>> \in ledger' \/ txn'[r] = s => <<r, s>> \in ledger \/ txn[r] = s
  BY <1>2, <1>3, StageSteps
<1>6. Excused(r) => Excused(r)'
  BY ExcusesStay
<1>7. Excused(r)' \/ status'[r] = "gone" \/ \A s \in Stages : Tidy(r, s) => TidyNext(r, s)
  BY EnvironmentTidy
<1> QED BY <1>1, <1>4, <1>5, <1>6, <1>7, OrphanKeeps

LEMMA OthersOrphans ==
  ASSUME TypeOK, NEW r \in Runs, NEW q \in Runs, q # r, Step(r), OrphanInvOf(q)
  PROVE  OrphanInvOf(q)'
<1>1. SameRun(q) /\ SameObjects(q)
  BY StepsAreLocal
<1>2. Excused(q) => Excused(q)'
  BY ExcusesStay
<1>3. \A s \in Stages : Tidy(q, s) => TidyNext(q, s)
  BY <1>1 DEF SameRun, SameObjects, Tidy, TidyNext, Awaited
<1>4. asked'[q] = asked[q] /\ status'[q] = status[q] /\ txn'[q] = txn[q]
  BY <1>1 DEF SameRun
<1>5. \A s \in Stages : <<q, s>> \in ledger' <=> <<q, s>> \in ledger
  BY <1>1 DEF SameObjects
<1> QED BY <1>2, <1>3, <1>4, <1>5, OrphanKeeps

LEMMA OrphanInvHolds == Spec => [](\A r \in Runs : OrphanInvOf(r))
<1>1. Init => \A r \in Runs : OrphanInvOf(r)
  <2> SUFFICES ASSUME Init, NEW r \in Runs
               PROVE  OrphanInvOf(r)
    OBVIOUS
  <2>1. ledger = {} /\ stored = {} /\ txn[r] = "none"
    BY DEF Init
  <2> QED BY <2>1 DEF OrphanInvOf, Entitled, Tidy, Stages
<1>2. TypeOK /\ FlowInv /\ PayInv /\ (\A r \in Runs : OrphanInvOf(r)) /\ [Next]_vars
      => (\A r \in Runs : OrphanInvOf(r))'
  <2> SUFFICES ASSUME TypeOK, FlowInv, PayInv, \A r \in Runs : OrphanInvOf(r), [Next]_vars,
                      NEW q \in Runs
               PROVE  OrphanInvOf(q)'
    OBVIOUS
  <2>1. CASE UNCHANGED vars
    BY <2>1 DEF vars, rowVars, storeVars,
       apiVars, releaseVars, flowVars, OrphanInvOf, Entitled, Excused, Tidy,
       Awaited
  <2>2. ASSUME NEW r \in Runs, Step(r)
        PROVE  OrphanInvOf(q)'
    <3>1. FlowInvOf(q) /\ Released(q) /\ OrphanInvOf(q)
      BY DEF FlowInv, FlowInvOf, PayInv
    <3>2. CASE q = r
      <4>1. CASE Workflow(q)
        BY <3>1, <4>1, WorkflowOrphans
      <4>2. CASE Worker(q)
        BY <3>1, <4>2, WorkerOrphans
      <4>3. CASE Request(q) \/ Delete(q) \/ Environment(q)
        <5>1. EnvironmentEffectOf(q)
          BY <4>3, RequestEffect, DeleteEffect, EnvironmentEffect DEF EnvironmentEffectOf
        <5>2. Step(q)
          BY <4>3 DEF Step
        <5> QED BY <3>1, <5>1, <5>2, EnvironmentOrphans
      <4> QED BY <2>2, <3>2, <4>1, <4>2, <4>3 DEF Step
    <3>3. CASE q # r
      BY <2>2, <3>1, <3>3, OthersOrphans
    <3> QED BY <3>2, <3>3
  <2> QED BY <2>1, <2>2 DEF Next, Step
<1> QED BY <1>1, <1>2, TypeCorrect, FlowInvHolds, PayInvHolds, PTL DEF Spec

(* An ended run leaves no object its owner is not charged for, on any of   *)
(* the workflow's paths and under any crossing with retries, cancels and   *)
(* deletes, unless a call was given up on, an attempt abandoned or a       *)
(* cancellation escaped with a step's result.                              *)
THEOREM NothingIsOrphaned == Spec => []NoOrphans
<1>1. (\A r \in Runs : OrphanInvOf(r)) => NoOrphans
  <2> SUFFICES ASSUME \A r \in Runs : OrphanInvOf(r), NEW r \in Runs,
                      pc[r] = "done", status[r] # "gone", ~Excused(r),
                      NEW s \in Stages, <<r, s>> \in stored
               PROVE  <<r, s>> \in ledger
    BY DEF NoOrphans, Excused
  <2>1. Tidy(r, s)
    BY DEF OrphanInvOf
  <2>2. ~Awaited(r, s)
    BY StageSteps DEF Awaited
  <2> QED BY <2>1, <2>2 DEF Tidy
<1> QED BY <1>1, OrphanInvHolds, PTL
==============================================================================
