---------------------------- MODULE BatchProofs ----------------------------
(***************************************************************************)
(* Theorems about Batch, for every number of items, every limit on what is *)
(* in flight and every set of perils.                                      *)
(***************************************************************************)
EXTENDS Batch, TLAPS, FiniteSetTheorems

-----------------------------------------------------------------------------
(* The inductive invariant *)

(* A mirror that has its run's lock finds the run as it left it: what a     *)
(* cancel or a finish is about to write is exactly what is still active.    *)
Locks ==
    /\ \A i \in Items : mirror[i] # "none" =>
         run[i] \in Active /\ i \notin held /\ mirror[i] \in Moves(i) \cup {"cancelled"}
    /\ held = IF cancelReq = "holds" \/ finishing THEN ActiveRuns ELSE {}
    /\ cancelReq = "holds" /\ finishing => held = {}

(* Nothing of the batch is before its commit, no item is worked on before  *)
(* the start, and only a failed start closes a batch that was not started.  *)
Lifecycle ==
    /\ request = "idle" => /\ pc = "none" /\ batch = "none" /\ cancelReq = "no"
                           /\ \A i \in Items : run[i] = "none"
    /\ request # "idle" => \A i \in Items : run[i] # "none"
    /\ request = "committed" => pc = "none"
    /\ request = "started" => pc # "none"
    /\ pc = "none" => /\ asked = "no" /\ ~finishing
                      /\ \A i \in Items : child[i] = "none" /\ mirror[i] = "none"
                      /\ \A i \in Items : item[i] # "completed"
    /\ pc = "none" /\ request # "failed" => batch \in {"none", "queued", "cancelled"}
    /\ request = "failed" => batch = "partial_failure"

BatchInv == TypeOK /\ Locks /\ Lifecycle /\ CountersMatch /\ ClosedAgrees

-----------------------------------------------------------------------------
(* Counting items *)

LEMMA ItemsFinite == IsFiniteSet(Items) /\ Cardinality(Items) = N /\ N \in Nat /\ N > 0
BY SizesAssumption, FS_Interval DEF Items

LEMMA CountType ==
  ASSUME NEW f, NEW st
  PROVE  Count(f, st) \in 0..N
<1>1. {i \in Items : f[i] = st} \in SUBSET Items
  OBVIOUS
<1>2. /\ IsFiniteSet({i \in Items : f[i] = st})
      /\ Cardinality({i \in Items : f[i] = st}) <= N
  BY <1>1, ItemsFinite, FS_Subset
<1> QED BY <1>2, ItemsFinite, FS_CardinalityType DEF Count

LEMMA CountNone ==
  ASSUME NEW f, NEW st, \A i \in Items : f[i] # st
  PROVE  Count(f, st) = 0
<1>1. {i \in Items : f[i] = st} = {}
  OBVIOUS
<1> QED BY <1>1, FS_EmptySet DEF Count

LEMMA CountAll ==
  ASSUME NEW f, NEW st, \A i \in Items : f[i] = st
  PROVE  Count(f, st) = N
<1>1. {i \in Items : f[i] = st} = Items
  OBVIOUS
<1> QED BY <1>1, ItemsFinite DEF Count

-----------------------------------------------------------------------------
LEMMA InitInv == Init => BatchInv
<1> SUFFICES ASSUME Init PROVE BatchInv
  OBVIOUS
<1>1. TypeOK
  BY ItemsFinite DEF Init, TypeOK
<1>2. Locks
  BY DEF Init, Locks
<1>3. Lifecycle
  BY DEF Init, Lifecycle
<1>4. CountersMatch
  BY CountNone DEF Init, CountersMatch, ItemStatus
<1>5. ClosedAgrees
  BY DEF Init, ClosedAgrees, TERMINAL
<1> QED BY <1>1, <1>2, <1>3, <1>4, <1>5 DEF BatchInv

-----------------------------------------------------------------------------
(* Steps that write no row *)

(* What the rows say to each other, they say as long as none of them moves *)
(* and the batch is not relabelled.                                        *)
LEMMA RowsStay ==
  ASSUME BatchInv, UNCHANGED rowVars, Relabelled' = Relabelled
  PROVE  CountersMatch' /\ ClosedAgrees'
<1> USE DEF BatchInv, rowVars
<1>1. CountersMatch'
  BY DEF CountersMatch, Count
<1>2. ClosedAgrees'
  BY DEF ClosedAgrees, ActiveRuns
<1> QED BY <1>1, <1>2

LEMMA StartBatchInv == BatchInv /\ StartBatch => BatchInv'
<1> SUFFICES ASSUME BatchInv, StartBatch PROVE BatchInv'
  OBVIOUS
<1> USE DEF BatchInv, StartBatch, rowVars, txnVars
<1>1. Relabelled' = Relabelled
  BY DEF Lifecycle, Relabelled
<1>2. CountersMatch' /\ ClosedAgrees'
  BY <1>1, RowsStay
<1>3. TypeOK'
  BY DEF TypeOK
<1>4. Locks'
  BY DEF Locks, ActiveRuns, Moves
<1>5. Lifecycle'
  BY DEF Lifecycle
<1> QED BY <1>2, <1>3, <1>4, <1>5

LEMMA StartFailsInv == BatchInv /\ StartFails => BatchInv'
<1> SUFFICES ASSUME BatchInv, StartFails PROVE BatchInv'
  OBVIOUS
<1> USE DEF BatchInv, StartFails, rowVars, txnVars
<1>1. Relabelled' = Relabelled
  BY DEF Lifecycle, Relabelled
<1>2. CountersMatch' /\ ClosedAgrees'
  BY <1>1, RowsStay
<1>3. TypeOK'
  BY DEF TypeOK
<1>4. Locks'
  BY DEF Locks, ActiveRuns, Moves
<1>5. Lifecycle'
  BY DEF Lifecycle
<1> QED BY <1>2, <1>3, <1>4, <1>5

LEMMA ApiDiesInv == BatchInv /\ ApiDies => BatchInv'
<1> SUFFICES ASSUME BatchInv, ApiDies PROVE BatchInv'
  OBVIOUS
<1> USE DEF BatchInv, ApiDies, rowVars, wfVars, txnVars
<1>1. CountersMatch' /\ ClosedAgrees'
  <2>1. Relabelled' = Relabelled
    BY DEF Relabelled
  <2> QED BY <2>1, RowsStay
<1>2. TypeOK'
  BY DEF TypeOK
<1>3. Locks'
  BY DEF Locks, ActiveRuns, Moves
<1>4. Lifecycle'
  BY DEF Lifecycle
<1> QED BY <1>1, <1>2, <1>3, <1>4

(* The run locks a cancel takes are free: no mirror is under way on them,  *)
(* and a finish that is has nothing to lock.                               *)
LEMMA CancelTakesRunsInv == BatchInv /\ CancelTakesRuns => BatchInv'
<1> SUFFICES ASSUME BatchInv, CancelTakesRuns PROVE BatchInv'
  OBVIOUS
<1> USE DEF BatchInv, CancelTakesRuns, rowVars, wfVars
<1>1. CountersMatch' /\ ClosedAgrees'
  <2>1. Relabelled' = Relabelled
    BY DEF Relabelled
  <2> QED BY <2>1, RowsStay
<1>2. TypeOK'
  BY DEF TypeOK, ActiveRuns
<1>3. Locks'
  BY DEF Locks, ActiveRuns, Moves, Unlocked
<1>4. Lifecycle'
  BY DEF Lifecycle
<1> QED BY <1>1, <1>2, <1>3, <1>4

LEMMA EngineIsAskedInv == BatchInv /\ EngineIsAsked => BatchInv'
<1> SUFFICES ASSUME BatchInv, EngineIsAsked PROVE BatchInv'
  OBVIOUS
<1> USE DEF BatchInv, EngineIsAsked, rowVars, wfVars, txnVars
<1>1. CountersMatch' /\ ClosedAgrees'
  <2>1. Relabelled' = Relabelled
    BY DEF Relabelled
  <2> QED BY <2>1, RowsStay
<1>2. TypeOK'
  BY DEF TypeOK
<1>3. Locks'
  BY DEF Locks, ActiveRuns, Moves
<1>4. Lifecycle'
  BY DEF Lifecycle
<1> QED BY <1>1, <1>2, <1>3, <1>4

LEMMA BeginMirrorInv ==
  ASSUME BatchInv, NEW i \in Items, BeginMirror(i)
  PROVE  BatchInv'
<1> USE DEF BatchInv, BeginMirror, rowVars, apiVars, wfVars
<1>1. CountersMatch' /\ ClosedAgrees'
  <2>1. Relabelled' = Relabelled
    BY DEF Relabelled
  <2> QED BY <2>1, RowsStay
<1>2. PICK st \in Moves(i) \cup {"cancelled"} : mirror' = [mirror EXCEPT ![i] = st]
  OBVIOUS
<1>3. TypeOK'
  BY <1>2 DEF TypeOK, Moves, Active, Ended
<1>4. Locks'
  BY <1>2 DEF Locks, ActiveRuns, Moves, TypeOK
<1>5. Lifecycle'
  <2>1. pc # "none"
    BY DEF Lifecycle
  <2> QED BY <2>1 DEF Lifecycle
<1> QED BY <1>1, <1>3, <1>4, <1>5

(* The workflow moves, and no row or lock with it. *)
LEMMA WorkflowInv ==
  ASSUME BatchInv, pc # "none",
         \/ \E i \in Items : ChildEnds(i)
         \/ FanOut \/ CancelFanOut \/ CallFinish \/ FinishAnswered \/ CancelDuringFinish
         \/ FinishGivesUp
  PROVE  BatchInv'
<1> USE DEF BatchInv, rowVars, apiVars, txnVars
<1>1. /\ UNCHANGED <<rowVars, apiVars, txnVars>>
      /\ pc' # "none" /\ next' \in 1..N + 1
  <2>1. ASSUME NEW i \in Items, ChildEnds(i)
        PROVE  UNCHANGED <<rowVars, apiVars, txnVars, pc, next>>
    BY <2>1 DEF ChildEnds
  <2>2. CASE FanOut
    BY <2>2, ItemsFinite DEF FanOut, TypeOK
  <2>3. CASE CancelFanOut \/ CallFinish \/ FinishAnswered \/ CancelDuringFinish \/ FinishGivesUp
    BY <2>3 DEF CancelFanOut, CallFinish, FinishAnswered, CancelDuringFinish, FinishGivesUp,
       TypeOK
  <2> QED BY <2>1, <2>2, <2>3 DEF TypeOK
<1>2. CountersMatch' /\ ClosedAgrees'
  <2>1. Relabelled' = Relabelled
    BY <1>1 DEF Relabelled
  <2> QED BY <1>1, <2>1, RowsStay
<1>3. TypeOK'
  BY <1>1 DEF TypeOK
<1>4. Locks'
  BY <1>1 DEF Locks, ActiveRuns, Moves
<1>5. Lifecycle'
  BY <1>1 DEF Lifecycle
<1> QED BY <1>2, <1>3, <1>4, <1>5

LEMMA FinishTakesRunsInv == BatchInv /\ FinishTakesRuns => BatchInv'
<1> SUFFICES ASSUME BatchInv, FinishTakesRuns PROVE BatchInv'
  OBVIOUS
<1> USE DEF BatchInv, FinishTakesRuns, rowVars, apiVars, wfVars
<1>1. CountersMatch' /\ ClosedAgrees'
  <2>1. Relabelled' = Relabelled
    BY DEF Relabelled
  <2> QED BY <2>1, RowsStay
<1>2. TypeOK'
  BY DEF TypeOK, ActiveRuns, Unfinished
<1>3. Locks'
  BY DEF Locks, ActiveRuns, Moves, Unlocked, Unfinished
<1>4. Lifecycle'
  BY DEF Lifecycle
<1> QED BY <1>1, <1>2, <1>3, <1>4

(* A finish that finds the batch closed finds nothing active either. *)
LEMMA FinishFindsClosedInv == BatchInv /\ FinishFindsClosed => BatchInv'
<1> SUFFICES ASSUME BatchInv, FinishFindsClosed PROVE BatchInv'
  OBVIOUS
<1> USE DEF BatchInv, FinishFindsClosed, rowVars, apiVars
<1>1. CountersMatch' /\ ClosedAgrees'
  <2>1. Relabelled' = Relabelled
    BY DEF Relabelled
  <2> QED BY <2>1, RowsStay
<1>2. TypeOK'
  BY DEF TypeOK
<1>3. Locks'
  BY DEF Locks, ActiveRuns, Moves, ClosedAgrees, TERMINAL
<1>4. Lifecycle'
  BY DEF Lifecycle
<1> QED BY <1>1, <1>2, <1>3, <1>4

-----------------------------------------------------------------------------
(* Steps that write the rows *)

LEMMA CreateBatchInv == BatchInv /\ CreateBatch => BatchInv'
<1> SUFFICES ASSUME BatchInv, CreateBatch PROVE BatchInv'
  OBVIOUS
<1> USE DEF BatchInv, CreateBatch, wfVars, txnVars
<1>1. TypeOK'
  BY DEF TypeOK, Active, Ended
<1>2. Locks'
  BY DEF Locks, Lifecycle
<1>3. Lifecycle'
  BY DEF Lifecycle
<1>4. CountersMatch'
  <2>1. \A i \in Items : item[i] = "none"
    BY DEF Lifecycle, CountersMatch, ItemStatus
  <2>2. completed = 0 /\ failed = 0
    BY <2>1, CountNone DEF CountersMatch, Relabelled, Lifecycle
  <2>3. Count(item', "completed") = 0 /\ Count(item', "failed") = 0
    BY CountNone
  <2> QED BY <2>2, <2>3 DEF CountersMatch, ItemStatus
<1>5. ClosedAgrees'
  BY DEF ClosedAgrees, TERMINAL, Lifecycle, Relabelled
<1> QED BY <1>1, <1>2, <1>3, <1>4, <1>5

LEMMA MarkRunningInv == BatchInv /\ MarkRunning => BatchInv'
<1> SUFFICES ASSUME BatchInv, MarkRunning PROVE BatchInv'
  OBVIOUS
<1> USE DEF BatchInv, MarkRunning, wfVars, txnVars
<1>1. TypeOK'
  BY DEF TypeOK, TERMINAL
<1>2. Locks'
  BY DEF Locks, ActiveRuns, Moves
<1>3. Lifecycle'
  BY DEF Lifecycle
<1>4. CountersMatch'
  BY DEF CountersMatch, Count, Relabelled
<1>5. ClosedAgrees'
  BY DEF ClosedAgrees, TERMINAL, ActiveRuns, Relabelled
<1> QED BY <1>1, <1>2, <1>3, <1>4, <1>5

(* A request that takes the start for refused waits for whoever has a run's *)
(* lock, and leaves nothing active.                                         *)
LEMMA FailUnstartedBatchInv == BatchInv /\ FailUnstartedBatch => BatchInv'
<1> SUFFICES ASSUME BatchInv, FailUnstartedBatch PROVE BatchInv'
  OBVIOUS
<1> USE DEF BatchInv, FailUnstartedBatch, wfVars, txnVars
<1>1. held = {} /\ ActiveRuns' = {}
  <2>1. held = {}
    BY DEF Unlocked, TypeOK
  <2>2. ActiveRuns' = {}
    BY DEF ActiveRuns, Active
  <2> QED BY <2>1, <2>2
<1>2. TypeOK'
  BY ItemsFinite DEF TypeOK, Ended, TERMINAL, Announce
<1>3. Locks'
  BY <1>1 DEF Locks, Unlocked
<1>4. Lifecycle'
  BY DEF Lifecycle
<1>5. pc = "none" => completed = 0 /\ announced = "none"
  <2>1. Relabelled = FALSE
    BY DEF Relabelled
  <2>2. pc = "none" => Count(item, "completed") = 0
    BY CountNone DEF Lifecycle
  <2> QED BY <2>1, <2>2 DEF CountersMatch, ClosedAgrees, Lifecycle
<1>6. CountersMatch'
  <2>1. Count(item', "completed") = 0 /\ Count(item', "failed") = N
    BY CountNone, CountAll
  <2> QED BY <1>5, <2>1 DEF CountersMatch, ItemStatus, Relabelled
<1>7. ClosedAgrees'
  BY <1>1, <1>5, ItemsFinite DEF ClosedAgrees, Relabelled, Announce
<1> QED BY <1>2, <1>3, <1>4, <1>6, <1>7

(* A cancel ends exactly the runs and the items still open, and closes the *)
(* batch, unless it finds it closed.                                       *)
LEMMA CancelCommitsInv == BatchInv /\ CancelCommits => BatchInv'
<1> SUFFICES ASSUME BatchInv, CancelCommits PROVE BatchInv'
  OBVIOUS
<1> USE DEF BatchInv, CancelCommits, wfVars, rowVars
<1>1. held = ActiveRuns /\ (finishing => ActiveRuns = {})
  BY DEF Locks
<1>2. CASE batch \in TERMINAL
  <2>1. ActiveRuns = {}
    BY <1>2 DEF ClosedAgrees
  <2>2. UNCHANGED rowVars
    BY <1>2
  <2>3. CountersMatch' /\ ClosedAgrees'
    BY <2>2, RowsStay DEF Relabelled
  <2>4. TypeOK'
    BY <2>2 DEF TypeOK
  <2>5. Locks'
    BY <1>2, <2>1, <2>2 DEF Locks, ActiveRuns, Moves
  <2>6. Lifecycle'
    BY <1>2, <2>2 DEF Lifecycle
  <2> QED BY <2>3, <2>4, <2>5, <2>6
<1>3. CASE batch \notin TERMINAL
  <2>1. /\ batch' = "cancelled"
        /\ run' = [i \in Items |-> IF i \in held THEN "cancelled" ELSE run[i]]
        /\ item' = [i \in Items |-> IF item[i] \in {"pending", "running"} THEN "cancelled" ELSE item[i]]
        /\ Recount(item')
        /\ UNCHANGED <<result, announced>>
        /\ cancelReq' # "holds"
    BY <1>3
  <2>2. ActiveRuns' = {}
    BY <1>1, <2>1 DEF ActiveRuns, Active
  <2>3. TypeOK'
    BY <2>1, CountType DEF TypeOK, TERMINAL, Recount, Ended
  <2>4. Locks'
    BY <1>1, <2>1, <2>2 DEF Locks, ActiveRuns
  <2>5. Lifecycle'
    BY <1>3, <2>1 DEF Lifecycle, TERMINAL
  <2>6. CountersMatch'
    <3>1. \A i \in Items : i \in held <=> item[i] \in {"pending", "running"}
      BY <1>1 DEF ActiveRuns, CountersMatch, ItemStatus, Active, TypeOK, Ended
    <3> QED BY <2>1, <3>1 DEF CountersMatch, Recount, ItemStatus
  <2>7. ClosedAgrees'
    BY <1>3, <2>1, <2>2 DEF ClosedAgrees, Relabelled, TERMINAL
  <2> QED BY <2>3, <2>4, <2>5, <2>6, <2>7
<1> QED BY <1>2, <1>3

(* A mirror commits what it began: its run is still active, so the batch is *)
(* open and no cancel or finish holds its lock.                             *)
LEMMA CommitMirrorInv ==
  ASSUME BatchInv, NEW i \in Items, CommitMirror(i)
  PROVE  BatchInv'
<1> USE DEF BatchInv, CommitMirror, apiVars, wfVars
<1>1. /\ i \in ActiveRuns /\ i \notin held /\ batch \notin TERMINAL
      /\ mirror[i] \in Moves(i) \cup {"cancelled"}
  BY DEF Locks, ActiveRuns, ClosedAgrees
<1>2. held = {} /\ cancelReq # "holds" /\ ~finishing
  BY <1>1 DEF Locks
<1>3. mirror[i] \in {"running", "processing", "completed", "failed", "cancelled"}
  BY <1>1 DEF Moves
<1>4. TypeOK'
  BY <1>3, CountType DEF TypeOK, Recount, ItemStatus, Active, Ended
<1>5. Locks'
  BY <1>2 DEF Locks, Moves, TypeOK
<1>6. Lifecycle'
  BY <1>3 DEF Lifecycle, TypeOK
<1>7. CountersMatch'
  BY DEF CountersMatch, Recount, TypeOK
<1>8. ClosedAgrees'
  BY <1>1 DEF ClosedAgrees, Relabelled, TERMINAL
<1> QED BY <1>4, <1>5, <1>6, <1>7, <1>8

(* finish_batch ends what is still active and closes the batch by what its *)
(* items came to.                                                          *)
LEMMA FinishClosesInv == BatchInv /\ FinishCloses => BatchInv'
<1> SUFFICES ASSUME BatchInv, FinishCloses PROVE BatchInv'
  OBVIOUS
<1> USE DEF BatchInv
<1> DEFINE cancelled == asked = "cancelled" \/ batch = "cancelled"
           left == IF cancelled THEN "cancelled" ELSE "failed"
           over == [i \in Items |-> IF i \in held THEN left ELSE item[i]]
<1>1. /\ finishing /\ batch \notin {"completed", "partial_failure"}
      /\ ~finishing' /\ held' = {}
      /\ run' = [i \in Items |-> IF i \in held THEN left ELSE run[i]]
      /\ item' = over
      /\ completed' = Count(over, "completed") /\ failed' = Count(over, "failed")
      /\ batch' = CASE cancelled -> "cancelled"
                    [] ~cancelled /\ Count(over, "completed") = N -> "completed"
                    [] OTHER -> "partial_failure"
      /\ announced' = IF cancelled \/ announced # "none" THEN announced ELSE batch'
      /\ UNCHANGED <<result, request, cancelReq, pc, child, next, asked, mirror>>
  BY DEF FinishCloses, Recount, Announce, apiVars
<1>2. held = ActiveRuns /\ (cancelReq = "holds" => ActiveRuns = {})
  BY <1>1 DEF Locks
<1>3. left \in {"cancelled", "failed"} /\ batch' \in TERMINAL
  BY <1>1 DEF TERMINAL
<1>4. Count(over, "completed") \in 0..N /\ Count(over, "failed") \in 0..N
  BY CountType
<1>5. ActiveRuns' = {}
  BY <1>1, <1>2, <1>3 DEF ActiveRuns, Active
<1>6. \A i \in Items : mirror[i] = "none"
  BY <1>2 DEF Locks, ActiveRuns
<1> HIDE DEF cancelled, left, over
<1>7. TypeOK'
  <2>1. run' \in [Items -> Active \cup Ended \cup {"none"}]
    BY <1>1, <1>3 DEF TypeOK, Ended
  <2>2. item' \in [Items -> Ended \cup {"none", "pending", "running"}]
    BY <1>1, <1>3 DEF TypeOK, Ended, over
  <2>3. announced' \in {"none", "completed", "partial_failure"}
    BY <1>1 DEF TypeOK
  <2> QED BY <1>1, <1>3, <1>4, <2>1, <2>2, <2>3 DEF TypeOK
<1>8. Locks'
  BY <1>1, <1>5, <1>6 DEF Locks
<1>9. Lifecycle'
  <2>1. pc # "none" /\ request # "failed" /\ request # "idle"
    BY <1>1 DEF Lifecycle
  <2>2. \A i \in Items : run'[i] # "none"
    BY <1>1, <1>3, <2>1 DEF Lifecycle
  <2> QED BY <1>1, <2>1, <2>2 DEF Lifecycle
<1>10. CountersMatch'
  <2>1. \A i \in Items : item'[i] = ItemStatus(run'[i])
    BY <1>1, <1>3 DEF CountersMatch, ItemStatus, over
  <2> QED BY <1>1, <2>1 DEF CountersMatch
<1>11. ClosedAgrees'
  <2>1. ~Relabelled => announced = "none"
    BY <1>1 DEF ClosedAgrees
  <2>2. Relabelled' = Relabelled
    BY <1>1 DEF Relabelled
  <2>3. batch' = "partial_failure" => completed' < N
    BY <1>1, <1>4, ItemsFinite
  <2>4. batch' = "completed" => completed' = N
    BY <1>1
  <2>5. ~Relabelled => announced' = IF batch' \in {"completed", "partial_failure"}
                                    THEN batch' ELSE "none"
    BY <1>1, <2>1
  <2> QED BY <1>5, <2>2, <2>3, <2>4, <2>5 DEF ClosedAgrees
<1> QED BY <1>7, <1>8, <1>9, <1>10, <1>11

-----------------------------------------------------------------------------
(* The workflow's steps need a workflow, and there is none before the start. *)
LEMMA WorkflowStarted ==
  ASSUME BatchInv,
         \/ \E i \in Items : ChildEnds(i)
         \/ FanOut \/ CancelFanOut \/ CallFinish \/ FinishAnswered \/ CancelDuringFinish
         \/ FinishGivesUp
  PROVE  pc # "none"
<1>1. ASSUME NEW i \in Items, ChildEnds(i)
      PROVE  pc # "none"
  BY <1>1 DEF BatchInv, Lifecycle, ChildEnds
<1> QED BY <1>1 DEF FanOut, CancelFanOut, CallFinish, AllDone, FinishAnswered,
     CancelDuringFinish, FinishGivesUp

LEMMA StepInv == BatchInv /\ [Next]_vars => BatchInv'
<1> SUFFICES ASSUME BatchInv, [Next]_vars PROVE BatchInv'
  OBVIOUS
<1>1. CASE UNCHANGED vars
  BY <1>1 DEF vars, rowVars, apiVars, wfVars, txnVars, BatchInv, TypeOK, Locks, ActiveRuns,
     Moves, Lifecycle, CountersMatch, Count, Relabelled, ClosedAgrees
<1>2. ASSUME NEW i \in Items, BeginMirror(i) \/ CommitMirror(i) \/ ChildEnds(i)
      PROVE  BatchInv'
  BY <1>2, BeginMirrorInv, CommitMirrorInv, WorkflowInv, WorkflowStarted
<1>3. CASE \/ FanOut \/ CancelFanOut \/ CallFinish \/ FinishAnswered \/ CancelDuringFinish
           \/ FinishGivesUp
  BY <1>3, WorkflowInv, WorkflowStarted
<1> QED BY <1>1, <1>2, <1>3, CreateBatchInv, StartBatchInv, MarkRunningInv, StartFailsInv,
     FailUnstartedBatchInv, ApiDiesInv, CancelTakesRunsInv, CancelCommitsInv, EngineIsAskedInv,
     FinishTakesRunsInv, FinishFindsClosedInv, FinishClosesInv DEF Next

THEOREM BatchInvHolds == Spec => []BatchInv
BY InitInv, StepInv, PTL DEF Spec

(* The batch, its items and their runs say the same at every moment, and a *)
(* closed batch has nothing left open: over child mirrors, the owner's     *)
(* cancel, finish_batch with its strays, and a failed start.               *)
THEOREM BatchAgreesHolds == Spec => []BatchAgrees
<1>1. BatchInv => BatchAgrees
  BY DEF BatchInv, BatchAgrees
<1> QED BY <1>1, BatchInvHolds, PTL

-----------------------------------------------------------------------------
(* Steps *)

LEMMA ClosedStays ==
  ASSUME BatchInv, [Next]_vars, batch \in TERMINAL
  PROVE  \/ <<batch, completed, failed, item>>' = <<batch, completed, failed, item>>
         \/ request' # request
<1> DEFINE Stays == UNCHANGED <<batch, completed, failed, item>>
<1>1. ActiveRuns = {}
  BY DEF BatchInv, ClosedAgrees
<1>2. CASE UNCHANGED vars
  BY <1>2 DEF vars, rowVars
<1>3. ASSUME NEW i \in Items, BeginMirror(i) \/ CommitMirror(i) \/ ChildEnds(i)
      PROVE  Stays
  <2>1. ~CommitMirror(i)
    BY <1>1 DEF BatchInv, Locks, CommitMirror, ActiveRuns
  <2> QED BY <1>3, <2>1 DEF BeginMirror, ChildEnds, rowVars
<1>4. CASE CreateBatch \/ StartBatch \/ MarkRunning \/ StartFails \/ FailUnstartedBatch \/ ApiDies
  BY <1>4 DEF CreateBatch, StartBatch, MarkRunning, StartFails, FailUnstartedBatch, ApiDies
<1>5. CASE CancelTakesRuns \/ CancelCommits \/ EngineIsAsked
  BY <1>5 DEF CancelTakesRuns, CancelCommits, EngineIsAsked, rowVars
<1>6. CASE FinishCloses
  <2>1. batch = "cancelled" /\ held = {}
    BY <1>1, <1>6 DEF FinishCloses, TERMINAL, BatchInv, Locks
  <2>2. batch' = batch /\ item' = item
    BY <1>6, <2>1 DEF FinishCloses, BatchInv, TypeOK
  <2>3. ~Relabelled
    BY <2>1 DEF BatchInv, Lifecycle, Relabelled
  <2>4. completed' = completed /\ failed' = failed
    <3>1. completed' = Count(item', "completed") /\ failed' = Count(item', "failed")
      BY <1>6 DEF FinishCloses, Recount
    <3> QED BY <2>2, <2>3, <3>1 DEF BatchInv, CountersMatch
  <2> QED BY <2>2, <2>4
<1>7. CASE \/ FanOut \/ CancelFanOut \/ CallFinish \/ FinishTakesRuns \/ FinishFindsClosed
           \/ FinishAnswered \/ CancelDuringFinish \/ FinishGivesUp
  BY <1>7 DEF FanOut, CancelFanOut, CallFinish, FinishTakesRuns, FinishFindsClosed,
     FinishAnswered, CancelDuringFinish, FinishGivesUp, rowVars
<1> QED BY <1>2, <1>3, <1>4, <1>5, <1>6, <1>7 DEF Next

(* A closed batch stays what it was closed as, whatever lands late; only   *)
(* the request that could not start it may still relabel it.               *)
THEOREM ClosedBatchesStay == Spec => ClosedForGood
<1>1. BatchInv /\ [Next]_vars
        => [(batch \in TERMINAL) =>
              \/ <<batch, completed, failed, item>>' = <<batch, completed, failed, item>>
              \/ request' # request]_vars
  BY ClosedStays
<1> QED BY <1>1, BatchInvHolds, PTL DEF Spec, ClosedForGood

-----------------------------------------------------------------------------
(* The contract of an item's run *)

(* One move of an item's run, in the terms of the job lane's contract. *)
LEMMA ContractMoves ==
  ASSUME NEW j \in Items, TypeOK, run' \in [Items -> Active \cup Ended \cup {"none"}],
         result' \in [Items -> {"none", "scrape", "llm"}],
         \/ run[j] = "none" /\ run'[j] = "pending" /\ result'[j] = result[j]
         \/ run[j] = "pending" /\ run'[j] = "running" /\ result'[j] = result[j]
         \/ run[j] = "running" /\ run'[j] = "processing" /\ result'[j] = result[j]
         \/ run[j] = "running" /\ run'[j] = "completed" /\ result'[j] = "scrape"
         \/ run[j] = "processing" /\ run'[j] = "completed" /\ result'[j] = "llm"
         \/ run[j] \in Active /\ run'[j] = "cancelled" /\ result'[j] = result[j]
         \/ run[j] # "none" /\ run'[j] = "failed" /\ result'[j] = result[j]
  PROVE  Contract(j)!Next
<1> USE DEF Contract!Become, Contract!Announce
<1>1. CASE run[j] = "none" /\ run'[j] = "pending" /\ result'[j] = result[j]
  BY <1>1 DEF Contract!Next, Contract!Submit
<1>2. CASE run[j] = "pending" /\ run'[j] = "running" /\ result'[j] = result[j]
  BY <1>2 DEF Contract!Next, Contract!Advance
<1>3. CASE run[j] = "running" /\ run'[j] = "processing" /\ result'[j] = result[j]
  BY <1>3 DEF Contract!Next, Contract!Advance
<1>4. CASE run[j] = "running" /\ run'[j] = "completed" /\ result'[j] = "scrape"
  BY <1>4 DEF Contract!Next, Contract!Complete
<1>5. CASE run[j] = "processing" /\ run'[j] = "completed" /\ result'[j] = "llm"
  BY <1>5 DEF Contract!Next, Contract!Complete
<1>6. CASE run[j] \in Active /\ run'[j] = "cancelled" /\ result'[j] = result[j]
  BY <1>6 DEF Contract!Next, Contract!Cancel, Contract!Active, Active
<1>7. CASE run[j] # "none" /\ run'[j] = "failed" /\ result'[j] = result[j]
  <2>1. run[j] \notin {"none", "gone"}
    BY <1>7 DEF TypeOK, Active, Ended
  <2> HIDE DEF TypeOK
  <2>2. Contract(j)!FailUnstarted(j)
    BY <1>7, <2>1 DEF Contract!FailUnstarted
  <2> QED BY <2>2 DEF Contract!Next
<1> QED BY <1>1, <1>2, <1>3, <1>4, <1>5, <1>6, <1>7

LEMMA MirrorKeepsContract ==
  ASSUME BatchInv, BatchInv', NEW i \in Items, CommitMirror(i), NEW j \in Items
  PROVE  Contract(j)!Next \/ UNCHANGED <<run[j], result[j]>>
<1> USE DEF BatchInv
<1>1. TypeOK /\ TypeOK'
  OBVIOUS
<1>2. CASE j # i
  BY <1>1, <1>2 DEF CommitMirror, TypeOK
<1>3. CASE j = i
  <2>1. run[i] \in Active /\ mirror[i] \in Moves(i) \cup {"cancelled"}
    BY DEF Locks, CommitMirror
  <2>2. /\ run'[i] = mirror[i]
        /\ result'[i] = IF mirror[i] = "completed"
                          THEN IF run[i] = "running" THEN "scrape" ELSE "llm"
                          ELSE result[i]
    BY <1>1 DEF CommitMirror, TypeOK
  <2>3. Contract(i)!Next
    BY <1>1, <2>1, <2>2, ContractMoves DEF TypeOK, Moves, Active
  <2> QED BY <1>3, <2>3
<1> QED BY <1>2, <1>3

LEMMA KeepsContract ==
  ASSUME BatchInv, BatchInv', [Next]_vars, NEW j \in Items
  PROVE  Contract(j)!Next \/ UNCHANGED <<run[j], result[j]>>
<1> DEFINE Kept == Contract(j)!Next \/ UNCHANGED <<run[j], result[j]>>
<1>1. /\ TypeOK /\ run' \in [Items -> Active \cup Ended \cup {"none"}]
      /\ result' \in [Items -> {"none", "scrape", "llm"}]
  BY DEF BatchInv, TypeOK
<1> HIDE DEF Kept
<1>2. UNCHANGED <<run, result>> => Kept
  BY DEF Kept
<1>3. CASE CreateBatch
  <2>1. run[j] = "none" /\ run'[j] = "pending" /\ result'[j] = result[j]
    BY <1>3 DEF CreateBatch, BatchInv, Lifecycle
  <2> QED BY <1>1, <2>1, ContractMoves DEF Kept
<1>4. CASE FailUnstartedBatch
  <2>1. run[j] # "none" /\ run'[j] = "failed" /\ result'[j] = result[j]
    BY <1>4 DEF FailUnstartedBatch, BatchInv, Lifecycle
  <2> QED BY <1>1, <2>1, ContractMoves DEF Kept
<1>5. CASE CancelCommits
  <2>1. \/ UNCHANGED <<run[j], result[j]>>
        \/ run[j] \in Active /\ run'[j] = "cancelled" /\ result'[j] = result[j]
    BY <1>5 DEF CancelCommits, BatchInv, Locks, ActiveRuns, rowVars
  <2> QED BY <1>1, <2>1, ContractMoves DEF Kept
<1>6. CASE FinishCloses
  <2>1. \/ UNCHANGED <<run[j], result[j]>>
        \/ /\ run[j] \in Active /\ run'[j] \in {"cancelled", "failed"}
           /\ result'[j] = result[j]
    BY <1>6 DEF FinishCloses, BatchInv, Locks, ActiveRuns
  <2> QED BY <1>1, <2>1, ContractMoves DEF Kept, Active
<1>7. ASSUME NEW i \in Items, BeginMirror(i) \/ CommitMirror(i) \/ ChildEnds(i)
      PROVE  Kept
  BY <1>2, <1>7, MirrorKeepsContract DEF Kept, BeginMirror, ChildEnds, rowVars
<1>8. CASE StartBatch \/ MarkRunning \/ StartFails \/ ApiDies \/ CancelTakesRuns \/ EngineIsAsked
  BY <1>2, <1>8 DEF StartBatch, MarkRunning, StartFails, ApiDies, CancelTakesRuns,
     EngineIsAsked, rowVars
<1>9. CASE \/ FanOut \/ CancelFanOut \/ CallFinish \/ FinishTakesRuns \/ FinishFindsClosed
           \/ FinishAnswered \/ CancelDuringFinish \/ FinishGivesUp
  BY <1>2, <1>9 DEF FanOut, CancelFanOut, CallFinish, FinishTakesRuns, FinishFindsClosed,
     FinishAnswered, CancelDuringFinish, FinishGivesUp, rowVars
<1>10. CASE UNCHANGED vars
  BY <1>2, <1>10 DEF vars, rowVars
<1> QED BY <1>3, <1>4, <1>5, <1>6, <1>7, <1>8, <1>9, <1>10 DEF Next, Kept

(* Whoever moves an item's run, its child, the cancel, the finish or the   *)
(* failed start, moves it as the job lane's contract allows: the batch     *)
(* lane implements the contract once per item.                             *)
THEOREM BatchKeepsContract == Spec => ItemsKeepContract
<1>1. BatchInv /\ BatchInv' /\ [Next]_vars
        => [\A i \in Items : Contract(i)!Next \/ UNCHANGED <<run[i], result[i]>>]_vars
  BY KeepsContract
<1> QED BY <1>1, BatchInvHolds, PTL DEF Spec, ItemsKeepContract
=============================================================================
