-------------------------- MODULE PipelineRunProofs --------------------------
(***************************************************************************)
(* Theorems about PipelineRun, for any pipeline the validator lets through, *)
(* any retry policy, any limit and any perils.                             *)
(***************************************************************************)
EXTENDS PipelineRun, TLAPS, FiniteSetTheorems, WellFoundedInduction

-----------------------------------------------------------------------------
(* The inductive invariant *)

Places == {"none", "begin", "slot", "act", "record", "settle", "failed", "stopped", "complete",
           "fail", "cut", "over", "gone"}

States ==
    /\ TypeOK
    /\ type \in Runnable /\ pc \in Places
    /\ cancelReq \in BOOLEAN /\ note \in BOOLEAN /\ wall \in BOOLEAN
    /\ request \in {"idle", "committed", "refused", "failed", "over"}
    /\ late \subseteq [of : Blocks, to : {"running", "waiting", "completed", "failed"}]
    /\ overdue \subseteq Blocks

(* The request, the run's row and the workflow: only the workflow's last call, *)
(* or a failed start, ends a run, and a run that ended leaves nothing pending.  *)
RunFollows ==
    /\ run = "none" <=> request = "idle"
    /\ request \in {"idle", "committed"} => pc = "none"
    /\ request = "failed" => run = "failed"
    /\ run \notin {"none", "running"} /\ request # "failed"
         => pc \in {"complete", "fail", "cut", "over", "gone"}
    /\ run = "completed" => pc \in {"complete", "over", "gone"}
    /\ run \in {"failed", "cancelled"} => \A b \in Blocks : block[b] # "pending"
    /\ pc = "none" => /\ at = 1 /\ told = 0 /\ charged = {} /\ ~wall
                      /\ overdue = {} /\ unheard = {}
    /\ pc = "complete" => at = N

(* The status of the block the workflow is at, by the call it awaits. *)
Here(st) ==
    CASE pc = "none" -> st = "pending"
      [] pc = "begin" -> st = "pending" \/ (st = "running" /\ unheard = {at})
      [] pc \in {"slot", "act", "record"} -> st \in {"running", "waiting"}
      [] pc = "settle" -> st \in {"running", "waiting", "completed"}
      [] pc \in {"failed", "stopped"} -> st \in {"running", "waiting", "failed"}
      [] pc = "complete" -> st = "completed"
      [] pc = "fail" -> st = "failed"
      [] pc = "cut" -> st \in {"pending", "completed", "failed"}
                         \/ (st = "running" /\ unheard = {at})
      [] OTHER -> TRUE

(* As long as the run goes on, the blocks before that one are done and those *)
(* after it have not begun, but for what a late write did.                   *)
InOrder ==
    run \in {"none", "running"} =>
         /\ \A b \in Blocks : b < at => block[b] = "completed" \/ b \in overdue
         /\ \A b \in Blocks : b > at => block[b] = "pending"
         /\ Here(block[at]) \/ at \in overdue

(* A late write is for a block the workflow has come to, and one whose       *)
(* beginning was not heard of is begun again before anything else becomes of *)
(* it.                                                                       *)
Lateness ==
    /\ \A b \in overdue : b <= at
    /\ \A w \in late : w.of \in overdue /\ (pc = "begin" /\ w.of = at => w.to = "running")
    /\ unheard \in {{}, {at}}
    /\ pc \in {"slot", "act", "record", "settle", "failed", "stopped", "complete", "fail"}
         => unheard = {}
    /\ pc = "begin" /\ unheard # {} /\ run = "running" => block[at] = "running"

(* The webhook's attempts: told as often as it was tried, and never before *)
(* its block began.                                                        *)
Telling ==
    /\ pc = "slot" => type[at] = "scrape" /\ act = "trying"
    /\ told > 0 => \E b \in Blocks :
         /\ type[b] = "webhook" /\ b <= at
         /\ b < at \/ pc # "begin" \/ unheard # {}
    /\ type[at] = "webhook" /\ pc = "begin" /\ unheard # {} => told = 1
    /\ type[at] = "webhook" /\ pc = "act" /\ act \in {"trying", "resting"} => told = tries
    /\ act = "resting" => tries < MaxAttempts

(* What the workflow has passed is charged, what is charged is stored, and *)
(* its wall says what the ledger says, but while it awaits a charge.       *)
Paid ==
    /\ \A b \in Blocks : output[b] # 0 => output[b] \in charged
    /\ charged \subseteq stored
    /\ pc \notin {"none", "over", "gone", "failed", "stopped", "fail", "cut"} =>
         \A b \in Blocks : Content(b) /\ (b < at \/ (b = at /\ pc \in {"settle", "complete"}))
                           => b \in charged
    /\ pc = "record" => Content(at) /\ at \in stored
    /\ pc = "act" /\ act = "done" /\ Content(at) => at \in stored
    /\ \A w \in late : w.to = "completed" /\ Content(w.of) => w.of \in charged
    /\ wall => Cardinality(charged) > Limit
    /\ pc \in {"begin", "slot", "act", "settle", "complete"} /\ Cardinality(charged) > Limit => wall
    /\ run = "completed" => result \in charged /\ (note <=> Cardinality(charged) > Limit)

RunInv == States /\ RunFollows /\ InOrder /\ Lateness /\ Telling /\ Paid

-----------------------------------------------------------------------------
(* Sizes, types of blocks and answers *)

LEMMA Sizes ==
  /\ N \in Nat /\ N > 0 /\ MaxAttempts \in Nat /\ MaxAttempts > 0 /\ Limit \in Nat
  /\ Blocks = 1..N /\ 1 \in Blocks
BY SizesAssumption DEF Blocks

(* The source is the first block, and a pipeline has one webhook at most. *)
LEMMA TypeRules ==
  ASSUME NEW t \in Runnable
  PROVE  /\ t \in [Blocks -> Types]
         /\ \A b \in Blocks : t[b] = "scrape" <=> b = 1
         /\ \A b, c \in Blocks : t[b] = "webhook" /\ t[c] = "webhook" => b = c
<1>1. /\ t \in [Blocks -> Types]
      /\ \A b \in Blocks : t[b] = "scrape" <=> b = 1
      /\ Cardinality({b \in Blocks : t[b] = "webhook"}) <= 1
  BY DEF Runnable
<1>2. ASSUME NEW b \in Blocks, NEW c \in Blocks, t[b] = "webhook", t[c] = "webhook", b # c
      PROVE  FALSE
  <2> DEFINE W == {x \in Blocks : t[x] = "webhook"}
  <2>1. W \in SUBSET Blocks /\ {b, c} \in SUBSET W
    BY <1>2
  <2>2. IsFiniteSet(Blocks)
    BY Sizes, FS_Interval
  <2>3. IsFiniteSet(W)
    BY <2>1, <2>2, FS_Subset
  <2>4. Cardinality({b, c}) <= Cardinality(W)
    BY <2>1, <2>3, FS_Subset
  <2>5. Cardinality({b}) = 1 /\ IsFiniteSet({b})
    BY FS_Singleton
  <2>6. Cardinality({b} \cup {c}) = 2
    <3> DEFINE B == {b}
    <3>1. c \notin B /\ Cardinality(B) = 1 /\ IsFiniteSet(B)
      BY <1>2, <2>5
    <3> HIDE DEF B
    <3>2. Cardinality(B \cup {c}) = Cardinality(B) + 1
      BY <3>1, FS_AddElement
    <3> QED BY <3>1, <3>2 DEF B
  <2>7. {b} \cup {c} = {b, c}
    OBVIOUS
  <2>8. Cardinality(W) \in Nat
    BY <2>3, FS_CardinalityType
  <2> QED BY <1>1, <2>4, <2>6, <2>7, <2>8
<1> QED BY <1>1, <1>2

LEMMA ContentOf ==
  ASSUME States
  PROVE  /\ \A b \in Blocks : ~ Content(b) => b # 1 /\ b - 1 \in Blocks
         /\ \A b \in Blocks : type[b] = "webhook" => ~ Content(b)
<1>1. \A b \in Blocks : type[b] = "scrape" <=> b = 1
  BY TypeRules DEF States
<1> QED BY <1>1, Sizes DEF Content

LEMMA HeardGives ==
  ASSUME NEW p, Heard(p), engine \in {"no", "asked", "heard"}
  PROVE  /\ \/ pc' = p \/ pc' = "gone"
            \/ pc' = "stopped" /\ pc \in {"slot", "act", "record"}
         /\ engine' \in {"no", "asked", "heard"}
BY DEF Heard, InsideTry

LEMMA AnsweredGives ==
  ASSUME NEW p, Answered(p), engine \in {"no", "asked", "heard"}
  PROVE  /\ \/ pc' = p \/ pc' = pc \/ pc' = "gone"
            \/ pc' = "stopped" /\ pc \in {"slot", "act", "record"}
         /\ engine' \in {"no", "asked", "heard"}
BY HeardGives DEF Answered

(* A set of blocks is finite, and grows by what it is given. *)
LEMMA Charges ==
  ASSUME NEW C \in SUBSET Blocks, NEW b \in Blocks
  PROVE  /\ Cardinality(C) \in Nat /\ Cardinality(C \cup {b}) \in Nat
         /\ Cardinality(C) <= Cardinality(C \cup {b})
<1>1. IsFiniteSet(Blocks)
  BY Sizes, FS_Interval
<1>2. IsFiniteSet(C) /\ C \cup {b} \in SUBSET Blocks
  BY <1>1, FS_Subset
<1>3. IsFiniteSet(C \cup {b})
  BY <1>1, <1>2, FS_Subset
<1> QED BY <1>2, <1>3, FS_AddElement, FS_CardinalityType

-----------------------------------------------------------------------------
LEMMA InitInv == Init => RunInv
<1> SUFFICES ASSUME Init PROVE RunInv
  OBVIOUS
<1>1. States
  <2>1. TypeOK
    BY Sizes DEF Init, TypeOK
  <2>2. type \in Runnable /\ pc \in Places
    BY DEF Init, Places
  <2>3. late \subseteq [of : Blocks, to : {"running", "waiting", "completed", "failed"}]
    BY DEF Init
  <2> QED BY <2>1, <2>2, <2>3 DEF Init, States
<1>2. RunFollows
  BY DEF Init, RunFollows
<1>3. InOrder
  <2>1. \A b \in Blocks : ~ (b < 1)
    BY Sizes
  <2> QED BY <2>1, Sizes DEF Init, InOrder, Here
<1>6. Lateness
  BY DEF Init, Lateness
<1>4. Telling
  BY TypeRules DEF Init, Telling
<1>5. Paid
  BY FS_EmptySet DEF Init, Paid
<1> QED BY <1>1, <1>2, <1>3, <1>4, <1>5, <1>6 DEF RunInv

-----------------------------------------------------------------------------
(* The API *)

LEMMA CreateRunInv ==
  ASSUME RunInv, CreateRun
  PROVE  RunInv'
<1> USE DEF CreateRun, blockVars, storeVars, wfVars, actVars, lateVars
<1>0. States /\ RunFollows /\ InOrder /\ Lateness /\ Telling /\ Paid
  BY DEF RunInv
<1>1. States'
  BY <1>0 DEF States, TypeOK, Places
<1>2. RunFollows'
  BY <1>0 DEF States, TypeOK, RunFollows
<1>3. InOrder'
  BY <1>0 DEF States, TypeOK, RunFollows, InOrder, Here
<1>10. Lateness'
  BY <1>0 DEF States, TypeOK, RunFollows, Lateness
<1>4. Telling'
  BY <1>0 DEF Telling
<1>5. Paid'
  BY <1>0 DEF Paid, Content
<1> QED BY <1>1, <1>2, <1>3, <1>4, <1>5, <1>10 DEF RunInv

LEMMA StartWorkflowInv ==
  ASSUME RunInv, StartWorkflow
  PROVE  RunInv'
<1> USE DEF StartWorkflow, runVars, blockVars, storeVars, wfVars, actVars, lateVars
<1>0. States /\ RunFollows /\ InOrder /\ Lateness /\ Telling /\ Paid
  BY DEF RunInv
<1>1. States'
  BY <1>0 DEF States, TypeOK, Places
<1>2. RunFollows'
  BY <1>0 DEF States, TypeOK, RunFollows
<1>3. InOrder'
  BY <1>0 DEF States, TypeOK, RunFollows, InOrder, Here
<1>10. Lateness'
  BY <1>0 DEF States, TypeOK, RunFollows, Lateness
<1>4. Telling'
  BY <1>0 DEF Telling, RunFollows
<1>5. Paid'
  <2>1. at = 1 /\ charged = {} /\ ~wall /\ at' = 1 /\ charged' = {} /\ ~wall'
    BY <1>0 DEF RunFollows
  <2>2. Cardinality(charged') = 0 /\ ~ (0 > Limit)
    BY <2>1, Sizes, FS_EmptySet
  <2>3. \A b \in Blocks : ~ (b < 1)
    BY Sizes
  <2> QED BY <1>0, <2>1, <2>2, <2>3 DEF Paid, Content
<1> QED BY <1>1, <1>2, <1>3, <1>4, <1>5, <1>10 DEF RunInv

LEMMA FailStartInv ==
  ASSUME RunInv, FailStart
  PROVE  RunInv'
<1> USE DEF FailStart, storeVars, wfVars, actVars, lateVars
<1>0. States /\ RunFollows /\ InOrder /\ Lateness /\ Telling /\ Paid
  BY DEF RunInv
<1>6. \A b \in Blocks : block'[b] = "skipped"
  OBVIOUS
<1>1. States'
  <2>1. block' \in [Blocks -> {"pending", "running", "waiting", "completed", "failed", "skipped"}]
    OBVIOUS
  <2>2. TypeOK'
    BY <1>0, <2>1 DEF States, TypeOK
  <2> QED BY <1>0, <2>2 DEF States, Places
<1>2. RunFollows'
  BY <1>0, <1>6 DEF States, TypeOK, RunFollows
<1>3. InOrder'
  BY <1>0 DEF States, TypeOK, RunFollows, InOrder, Here
<1>10. Lateness'
  BY <1>0 DEF States, TypeOK, RunFollows, Lateness
<1>4. Telling'
  BY <1>0 DEF Telling
<1>5. Paid'
  BY <1>0 DEF Paid, Content
<1> QED BY <1>1, <1>2, <1>3, <1>4, <1>5, <1>10 DEF RunInv

LEMMA CallersInv ==
  ASSUME RunInv, ApiDies \/ CancelRun \/ EngineIsAsked
  PROVE  RunInv'
<1> USE DEF ApiDies, CancelRun, EngineIsAsked, runVars, blockVars, storeVars, wfVars,
                  actVars, lateVars
<1>0. States /\ RunFollows /\ InOrder /\ Lateness /\ Telling /\ Paid
  BY DEF RunInv
<1>1. States'
  <2>1. TypeOK'
    BY <1>0 DEF States, TypeOK
  <2> QED BY <1>0, <2>1 DEF States, Places
<1>2. RunFollows'
  BY <1>0 DEF States, TypeOK, RunFollows
<1>3. InOrder'
  BY <1>0 DEF InOrder, Here
<1>10. Lateness'
  BY <1>0 DEF States, TypeOK, RunFollows, Lateness
<1>4. Telling'
  BY <1>0 DEF Telling
<1>5. Paid'
  BY <1>0 DEF Paid, Content
<1> QED BY <1>1, <1>2, <1>3, <1>4, <1>5, <1>10 DEF RunInv

-----------------------------------------------------------------------------
(* Writes of blocks *)

(* What a block's row says of its output is charged when the block's is. *)
LEMMA WriteOutput ==
  ASSUME States, Paid, NEW b \in Blocks, NEW st, WriteBlock(b, st),
         st = "completed" /\ Content(b) => b \in charged
  PROVE  /\ output' \in [Blocks -> 0..N]
         /\ \A c \in Blocks : output'[c] # 0 => output'[c] \in charged
<1>1. /\ output \in [Blocks -> 0..N] /\ b \in 0..N /\ 0 \in 0..N
      /\ \A c \in Blocks : output[c] # 0 => output[c] \in charged
  BY Sizes DEF States, TypeOK, Paid
<1>2. ~ Content(b) => b - 1 \in Blocks
  BY ContentOf
<1>3. CASE st = "failed"
  BY <1>1, <1>3 DEF WriteBlock
<1>4. CASE st = "completed" /\ Content(b)
  BY <1>1, <1>4 DEF WriteBlock
<1>5. CASE st = "completed" /\ ~ Content(b)
  <2>1. output' = [output EXCEPT ![b] = output[b - 1]] /\ b - 1 \in Blocks
    BY <1>2, <1>5 DEF WriteBlock
  <2> QED BY <1>1, <2>1
<1>6. CASE st \notin {"completed", "failed"}
  BY <1>1, <1>6 DEF WriteBlock
<1> QED BY <1>3, <1>4, <1>5, <1>6

(* A late write lands on a block that is overdue already. *)
LEMMA LateWriteInv ==
  ASSUME RunInv, LateWrite
  PROVE  RunInv'
<1> USE DEF runVars, storeVars, apiVars, wfVars, actVars
<1>0. States /\ RunFollows /\ InOrder /\ Lateness /\ Telling /\ Paid
  BY DEF RunInv
<1>1. PICK w \in late :
        /\ late' = late \ {w}
        /\ UNCHANGED blockVars \/ WriteBlock(w.of, w.to)
        /\ UNCHANGED <<type, runVars, storeVars, apiVars, engine, pc, wfVars, actVars, overdue,
                       unheard>>
        /\ w.to = "running" => UNCHANGED blockVars \/ MayBegin
  BY DEF LateWrite
<1>2. /\ w.of \in Blocks /\ w.to \in {"running", "waiting", "completed", "failed"}
      /\ w.of \in overdue
      /\ pc = "begin" /\ w.of = at => w.to = "running"
      /\ w.to = "completed" /\ Content(w.of) => w.of \in charged
  BY <1>0, <1>1 DEF States, Lateness, Paid
<1>3. /\ block' \in [Blocks -> {"pending", "running", "waiting", "completed", "failed", "skipped"}]
      /\ \A b \in Blocks : block'[b] = block[b] \/ (b = w.of /\ block'[b] = w.to)
  BY <1>0, <1>1, <1>2 DEF WriteBlock, blockVars, States, TypeOK
<1>4. /\ output' \in [Blocks -> 0..N]
      /\ \A b \in Blocks : output'[b] # 0 => output'[b] \in charged
  BY <1>0, <1>1, <1>2, WriteOutput DEF States, Paid, blockVars, TypeOK
<1>5. States'
  <2>1. TypeOK'
    BY <1>0, <1>1, <1>3, <1>4 DEF States, TypeOK
  <2> QED BY <1>0, <1>1, <2>1 DEF States
<1>6. RunFollows'
  BY <1>0, <1>1, <1>2, <1>3 DEF RunFollows
<1>7. InOrder'
  <2>1. at \in Blocks /\ at' = at /\ pc' = pc /\ run' = run /\ overdue' = overdue /\ unheard' = unheard
    BY <1>0, <1>1 DEF States, TypeOK
  <2>2. w.of # at => (Here(block[at])' <=> Here(block[at]))
    BY <1>3, <2>1 DEF Here
  <2>3. ~ (w.of > at)
    BY <1>0, <1>2, <2>1, Sizes DEF Lateness
  <2> QED BY <1>0, <1>2, <1>3, <2>1, <2>2, <2>3 DEF InOrder
<1>10. Lateness'
  BY <1>0, <1>1, <1>2, <1>3 DEF States, TypeOK, Lateness
<1>8. Telling'
  BY <1>0, <1>1 DEF Telling
<1>9. Paid'
  BY <1>0, <1>1, <1>4 DEF Paid, Content
<1> QED BY <1>5, <1>6, <1>7, <1>8, <1>9, <1>10 DEF RunInv

LEMMA WriteHere ==
  ASSUME RunInv, NEW st \in {"running", "waiting", "completed", "failed"}, WriteBlock(at, st),
         st = "completed" /\ Content(at) => at \in charged
  PROVE  /\ block' \in [Blocks -> {"pending", "running", "waiting", "completed", "failed",
                                   "skipped"}]
         /\ block'[at] = st
         /\ \A b \in Blocks : b # at => block'[b] = block[b]
         /\ output' \in [Blocks -> 0..N]
         /\ \A b \in Blocks : output'[b] # 0 => output'[b] \in charged
<1>1. States /\ Paid /\ at \in Blocks
  BY DEF RunInv, States, TypeOK
<1>2. /\ output' \in [Blocks -> 0..N]
      /\ \A b \in Blocks : output'[b] # 0 => output'[b] \in charged
  BY <1>1, WriteOutput
<1> QED BY <1>1, <1>2 DEF WriteBlock, States, TypeOK

(* A mirror outlives the attempt that serves it, and nothing else happens. *)
LEMMA OverrunInv ==
  ASSUME RunInv, NEW st \in {"running", "waiting", "completed", "failed"}, Overrun(at, st),
         pc # "none", pc = "begin" => st = "running",
         st = "completed" /\ Content(at) => at \in charged,
         UNCHANGED <<type, runVars, blockVars, storeVars, request, pc, wfVars, tries, told>>,
         engine' \in {"no", "asked", "heard"},
         \/ act' = act
         \/ /\ pc = "act" /\ act = "trying" /\ tries < MaxAttempts
            /\ act' \in {"failed", "stopped", "resting"}
  PROVE  RunInv'
<1> USE DEF Overrun, runVars, blockVars, storeVars, wfVars
<1>0. /\ States /\ RunFollows /\ InOrder /\ Lateness /\ Telling /\ Paid
      /\ at \in Blocks
  BY DEF RunInv, States, TypeOK
<1>1. States'
  <2>1. TypeOK'
    BY <1>0 DEF States, TypeOK
  <2> QED BY <1>0, <2>1 DEF States
<1>2. RunFollows'
  BY <1>0 DEF RunFollows
<1>3. InOrder'
  BY <1>0 DEF InOrder, Here
<1>4. Lateness'
  BY <1>0, Sizes DEF Lateness
<1>5. Telling'
  BY <1>0 DEF Telling
<1>6. Paid'
  BY <1>0 DEF Paid, Content
<1> QED BY <1>1, <1>2, <1>3, <1>4, <1>5, <1>6 DEF RunInv

-----------------------------------------------------------------------------
(* The block loop *)

LEMMA BeginBlockInv ==
  ASSUME RunInv, BeginBlock
  PROVE  RunInv'
<1> USE DEF runVars, storeVars, apiVars, wfVars
<1>0. /\ States /\ RunFollows /\ InOrder /\ Lateness /\ Telling /\ Paid
      /\ at \in Blocks /\ pc = "begin"
      /\ UNCHANGED <<type, runVars, storeVars, apiVars, wfVars>>
  BY DEF RunInv, States, TypeOK, BeginBlock
<1>1. CASE ~MayBegin /\ Answered("cut") /\ UNCHANGED <<blockVars, lateVars, actVars>>
  <2> USE DEF blockVars, lateVars, actVars
  <2>0. pc' \in {"begin", "cut", "gone"} /\ engine' \in {"no", "asked", "heard"}
    BY <1>0, <1>1, AnsweredGives DEF States, TypeOK
  <2>1. States'
    <3>1. TypeOK'
      BY <1>0, <1>1, <2>0 DEF States, TypeOK
    <3> QED BY <1>0, <1>1, <2>0, <3>1 DEF States, Places
  <2>2. RunFollows'
    BY <1>0, <1>1, <2>0 DEF RunFollows
  <2>3. InOrder'
    BY <1>0, <1>1, <2>0 DEF InOrder, Here
  <2>4. Lateness'
    BY <1>0, <1>1, <2>0 DEF Lateness
  <2>5. Telling'
    BY <1>0, <1>1, <2>0 DEF Telling
  <2>6. Paid'
    BY <1>0, <1>1, <2>0 DEF Paid, Content
  <2> QED BY <2>1, <2>2, <2>3, <2>4, <2>5, <2>6 DEF RunInv
<1>2. CASE /\ MayBegin
           /\ WriteBlock(at, "running")
           /\ Answered(IF type[at] = "scrape" THEN "slot" ELSE "act")
           /\ act' = "trying" /\ tries' = 1 /\ stop' = FALSE
           /\ told' = IF type[at] = "webhook" THEN 1 ELSE told
           /\ unheard' = IF pc' = pc THEN {at} ELSE {}
           /\ UNCHANGED <<late, overdue>>
  <2>0. /\ pc' \in {"begin", "slot", "act", "gone"} /\ engine' \in {"no", "asked", "heard"}
        /\ pc' = "slot" => type[at] = "scrape"
    BY <1>0, <1>2, AnsweredGives DEF States, TypeOK
  <2>7. /\ block' \in [Blocks -> {"pending", "running", "waiting", "completed", "failed",
                                  "skipped"}]
        /\ block'[at] = "running"
        /\ \A b \in Blocks : b # at => block'[b] = block[b]
        /\ output' \in [Blocks -> 0..N]
        /\ \A b \in Blocks : output'[b] # 0 => output'[b] \in charged
    BY <1>2, WriteHere
  <2>8. type[at] = "webhook" => told \in {0, 1}
    <3>1. ASSUME type[at] = "webhook", told > 0, unheard = {} PROVE FALSE
      <4>1. PICK b \in Blocks : type[b] = "webhook" /\ b < at
        BY <1>0, <3>1 DEF Telling
      <4> QED BY <1>0, <3>1, <4>1, TypeRules, Sizes DEF States
    <3> QED BY <1>0, <3>1, Sizes DEF Telling, States, TypeOK
  <2>1. States'
    <3>1. TypeOK'
      <4>1. 1 \in 0..MaxAttempts
        BY Sizes
      <4> QED BY <1>0, <1>2, <2>0, <2>7, <4>1 DEF States, TypeOK
    <3> QED BY <1>0, <1>2, <2>0, <3>1 DEF States, Places
  <2>2. RunFollows'
    BY <1>0, <1>2, <2>0, <2>7 DEF RunFollows, MayBegin
  <2>3. InOrder'
    BY SMTT(30), <1>0, <1>2, <2>0, <2>7, Sizes DEF InOrder, Here
  <2>4. Lateness'
    BY <1>0, <1>2, <2>0, <2>7 DEF Lateness
  <2>5. Telling'
    <3>1. told' > 0 => \E b \in Blocks :
            /\ type[b] = "webhook" /\ b <= at
            /\ b < at \/ pc' # "begin" \/ unheard' # {}
      BY <1>0, <1>2, <2>0, Sizes DEF Telling
    <3> QED BY <1>0, <1>2, <2>0, <3>1 DEF Telling
  <2>6. Paid'
    BY <1>0, <1>2, <2>0, <2>7 DEF Paid, Content
  <2> QED BY <2>1, <2>2, <2>3, <2>4, <2>5, <2>6 DEF RunInv
<1>3. CASE Overrun(at, "running") /\ UNCHANGED <<blockVars, actVars, engine, pc, stranded>>
  BY <1>0, <1>3, OverrunInv DEF actVars, States, TypeOK
<1> QED BY <1>1, <1>2, <1>3 DEF BeginBlock

(* The steps of the block's activity write no row. *)
LEMMA ActivityInv ==
  ASSUME RunInv, SlotTaken \/ AttemptSucceeds \/ ActivityFails \/ AttemptLost
  PROVE  RunInv'
<1> USE DEF SlotTaken, AttemptSucceeds, ActivityFails, AttemptLost, runVars, blockVars, storeVars,
            apiVars, wfVars, actVars, lateVars
<1>0. /\ States /\ RunFollows /\ InOrder /\ Lateness /\ Telling /\ Paid
      /\ at \in Blocks
  BY DEF RunInv, States, TypeOK
<1>1. States'
  <2>1. TypeOK'
    BY <1>0 DEF States, TypeOK
  <2> QED BY <1>0, <2>1 DEF States, Places
<1>2. RunFollows'
  BY <1>0 DEF RunFollows
<1>3. InOrder'
  BY <1>0 DEF InOrder, Here
<1>4. Lateness'
  BY <1>0 DEF Lateness
<1>5. Telling'
  BY <1>0 DEF Telling
<1>6. Paid'
  <2>1. /\ stored \subseteq stored'
        /\ pc' = "act" /\ act' = "done" /\ Content(at) => at \in stored'
    BY <1>0 DEF Paid, Telling
  <2> QED BY <1>0, <2>1 DEF Paid, Content
<1> QED BY <1>1, <1>2, <1>3, <1>4, <1>5, <1>6 DEF RunInv

LEMMA AttemptFailsInv ==
  ASSUME RunInv, AttemptFails
  PROVE  RunInv'
<1> USE DEF runVars, storeVars, apiVars, wfVars
<1>0. /\ States /\ RunFollows /\ InOrder /\ Lateness /\ Telling /\ Paid
      /\ at \in Blocks /\ pc = "act" /\ act = "trying" /\ tries < MaxAttempts
      /\ act' \in {"failed", "stopped", "resting"}
      /\ UNCHANGED <<type, runVars, storeVars, apiVars, engine, pc, wfVars, tries, told>>
  BY DEF RunInv, States, TypeOK, AttemptFails
<1>1. CASE UNCHANGED lateVars /\ WriteBlock(at, "waiting")
  <2>0. WriteBlock(at, "waiting") /\ UNCHANGED <<late, overdue, unheard>>
    BY <1>1 DEF lateVars
  <2>7. /\ block' \in [Blocks -> {"pending", "running", "waiting", "completed", "failed",
                                  "skipped"}]
        /\ block'[at] = "waiting"
        /\ \A b \in Blocks : b # at => block'[b] = block[b]
        /\ output' \in [Blocks -> 0..N]
        /\ \A b \in Blocks : output'[b] # 0 => output'[b] \in charged
    BY <2>0, WriteHere
  <2>1. States'
    <3>1. TypeOK'
      BY <1>0, <2>0, <2>7 DEF States, TypeOK
    <3> QED BY <1>0, <2>0, <3>1 DEF States, Places
  <2>2. RunFollows'
    BY <1>0, <2>0, <2>7 DEF RunFollows
  <2>3. InOrder'
    BY <1>0, <2>0, <2>7, Sizes DEF InOrder, Here
  <2>4. Lateness'
    BY <1>0, <2>0 DEF Lateness
  <2>5. Telling'
    BY <1>0, <2>0 DEF Telling
  <2>6. Paid'
    BY <1>0, <2>0, <2>7 DEF Paid, Content
  <2> QED BY <2>1, <2>2, <2>3, <2>4, <2>5, <2>6 DEF RunInv
<1>2. CASE UNCHANGED <<lateVars, blockVars>>
  <2> USE DEF blockVars, lateVars
  <2>0. UNCHANGED <<block, output, late, overdue, unheard>>
    BY <1>2
  <2>1. States'
    <3>1. TypeOK'
      BY <1>0, <2>0 DEF States, TypeOK
    <3> QED BY <1>0, <2>0, <3>1 DEF States, Places
  <2>2. RunFollows'
    BY <1>0, <2>0 DEF RunFollows
  <2>3. InOrder'
    BY <1>0, <2>0 DEF InOrder, Here
  <2>4. Lateness'
    BY <1>0, <2>0 DEF Lateness
  <2>5. Telling'
    BY <1>0, <2>0 DEF Telling
  <2>6. Paid'
    BY <1>0, <2>0 DEF Paid, Content
  <2> QED BY <2>1, <2>2, <2>3, <2>4, <2>5, <2>6 DEF RunInv
<1>3. CASE Overrun(at, "waiting") /\ UNCHANGED blockVars
  BY <1>0, <1>3, OverrunInv DEF States, TypeOK
<1> QED BY <1>1, <1>2, <1>3 DEF AttemptFails

(* A webhook's next attempt begins only in a run that may go on. *)
LEMMA AttemptBeginsInv ==
  ASSUME RunInv, AttemptBegins
  PROVE  RunInv'
<1> USE DEF runVars, storeVars, apiVars, wfVars, lateVars
<1>0. /\ States /\ RunFollows /\ InOrder /\ Lateness /\ Telling /\ Paid
      /\ at \in Blocks /\ pc = "act" /\ act = "resting" /\ tries < MaxAttempts
      /\ tries \in Nat /\ unheard = {}
      /\ UNCHANGED <<type, runVars, storeVars, apiVars, engine, pc, wfVars, lateVars>>
  <2>1. pc = "act" /\ act = "resting" /\ RunInv
    BY DEF AttemptBegins
  <2>2. at \in Blocks /\ tries \in Nat
    BY <2>1, Sizes DEF RunInv, States, TypeOK
  <2>3. tries < MaxAttempts /\ unheard = {}
    BY <2>1 DEF RunInv, Telling, Lateness
  <2> QED BY <2>1, <2>2, <2>3 DEF RunInv, AttemptBegins
<1>1. CASE act' = "trying" /\ type[at] = "webhook"
  <2>0. WriteBlock(at, "running") /\ told' = told + 1 /\ tries' = tries + 1 /\ told = tries
    BY <1>0, <1>1 DEF AttemptBegins, Telling
  <2>7. /\ block' \in [Blocks -> {"pending", "running", "waiting", "completed", "failed",
                                  "skipped"}]
        /\ block'[at] = "running"
        /\ \A b \in Blocks : b # at => block'[b] = block[b]
        /\ output' \in [Blocks -> 0..N]
        /\ \A b \in Blocks : output'[b] # 0 => output'[b] \in charged
    BY <2>0, WriteHere
  <2>1. States'
    <3>1. tries + 1 \in 0..MaxAttempts
      BY <1>0, Sizes
    <3>2. TypeOK'
      BY <1>0, <1>1, <2>0, <2>7, <3>1 DEF States, TypeOK
    <3> QED BY <1>0, <2>0, <3>2 DEF States, Places
  <2>2. RunFollows'
    BY <1>0, <2>0, <2>7 DEF RunFollows
  <2>3. InOrder'
    <3>1. UNCHANGED <<run, at, pc, overdue>> /\ pc = "act"
      BY <1>0
    <3>2. Here(block[at])'
      BY <2>7, <3>1 DEF Here
    <3>3. \A b \in Blocks : b # at => block'[b] = block[b]
      BY <2>7
    <3>4. at \in Int /\ \A b \in Blocks : b \in Int
      BY <1>0, Sizes
    <3> QED BY <1>0, <3>1, <3>2, <3>3, <3>4 DEF InOrder
  <2>4. Lateness'
    BY <1>0, <2>0 DEF Lateness
  <2>5. Telling'
    <3>1. \E b \in Blocks : type[b] = "webhook" /\ b <= at /\ (b < at \/ pc # "begin")
      BY <1>0, <1>1, Sizes
    <3> QED BY <1>0, <1>1, <2>0, <3>1 DEF Telling
  <2>6. Paid'
    <3>1. UNCHANGED <<type, at, pc, charged, stored, late, wall, run, result, note>>
      BY <1>0
    <3> QED BY <1>0, <1>1, <2>7, <3>1 DEF Paid, Content
  <2> QED BY <2>1, <2>2, <2>3, <2>4, <2>5, <2>6 DEF RunInv
<1>2. CASE ~ (act' = "trying" /\ type[at] = "webhook")
  <2> USE DEF blockVars
  <2>0. /\ UNCHANGED <<block, output, told>>
        /\ \/ act' = "stopped" /\ tries' = tries
           \/ act' = "trying" /\ tries' = tries + 1 /\ type[at] # "webhook"
    BY <1>0, <1>2 DEF AttemptBegins
  <2>1. States'
    <3>1. tries + 1 \in 0..MaxAttempts
      BY <1>0, Sizes
    <3>2. TypeOK'
      BY <1>0, <2>0, <3>1 DEF States, TypeOK
    <3> QED BY <1>0, <2>0, <3>2 DEF States, Places
  <2>2. RunFollows'
    BY <1>0, <2>0 DEF RunFollows
  <2>3. InOrder'
    BY <1>0, <2>0 DEF InOrder, Here
  <2>4. Lateness'
    BY <1>0, <2>0 DEF Lateness
  <2>5. Telling'
    BY <1>0, <2>0 DEF Telling
  <2>6. Paid'
    BY <1>0, <2>0 DEF Paid, Content
  <2> QED BY <2>1, <2>2, <2>3, <2>4, <2>5, <2>6 DEF RunInv
<1> QED BY <1>1, <1>2

LEMMA ActivityAnsweredInv ==
  ASSUME RunInv, ActivityAnswered
  PROVE  RunInv'
<1> USE DEF runVars, blockVars, storeVars, apiVars, wfVars, lateVars
<1>0. /\ States /\ RunFollows /\ InOrder /\ Lateness /\ Telling /\ Paid
      /\ at \in Blocks /\ pc = "act" /\ act' = "idle" /\ tries' = 0
      /\ UNCHANGED <<type, runVars, blockVars, storeVars, apiVars, wfVars, told, lateVars>>
  BY DEF RunInv, States, TypeOK, ActivityAnswered
<1>1. /\ pc' \in {"record", "settle", "failed", "stopped", "gone"}
      /\ engine' \in {"no", "asked", "heard"}
      /\ pc' = "record" => act = "done" /\ Content(at)
      /\ pc' = "settle" => ~ Content(at)
  BY <1>0, HeardGives DEF ActivityAnswered, States, TypeOK
<1>2. States'
  <2>1. TypeOK'
    BY <1>0, <1>1, Sizes DEF States, TypeOK
  <2> QED BY <1>0, <1>1, <2>1 DEF States, Places
<1>3. RunFollows'
  BY <1>0, <1>1 DEF RunFollows
<1>4. InOrder'
  BY <1>0, <1>1 DEF InOrder, Here
<1>5. Lateness'
  BY <1>0, <1>1 DEF Lateness
<1>6. Telling'
  BY <1>0, <1>1 DEF Telling
<1>7. Paid'
  BY <1>0, <1>1 DEF Paid, Content
<1> QED BY <1>2, <1>3, <1>4, <1>5, <1>6, <1>7 DEF RunInv

(* The ledger grows by the block, and the wall is told of it by the answer. *)
LEMMA RecordStorageInv ==
  ASSUME RunInv, RecordStorage
  PROVE  RunInv'
<1> USE DEF runVars, blockVars, apiVars, actVars, lateVars
<1>0. /\ States /\ RunFollows /\ InOrder /\ Lateness /\ Telling /\ Paid
      /\ at \in Blocks /\ pc = "record" /\ charged' = charged \cup {at}
      /\ charged \in SUBSET Blocks
      /\ UNCHANGED <<type, runVars, blockVars, stored, apiVars, at, noted, actVars, lateVars>>
  BY DEF RunInv, States, TypeOK, RecordStorage
<1>1. /\ pc' \in {"settle", "record", "stopped", "gone"} /\ engine' \in {"no", "asked", "heard"}
      /\ wall' = IF pc' = "settle" THEN wall \/ Cardinality(charged') > Limit ELSE wall
  BY <1>0, AnsweredGives DEF RecordStorage, States, TypeOK
<1>2. States'
  <2>1. TypeOK'
    BY <1>0, <1>1 DEF States, TypeOK
  <2>2. wall' \in BOOLEAN
    BY <1>0, <1>1 DEF States
  <2> QED BY <1>0, <1>1, <2>1, <2>2 DEF States, Places
<1>3. RunFollows'
  BY <1>0, <1>1 DEF RunFollows
<1>4. InOrder'
  BY <1>0, <1>1 DEF InOrder, Here
<1>5. Lateness'
  BY <1>0, <1>1 DEF Lateness
<1>6. Telling'
  BY <1>0, <1>1 DEF Telling
<1>7. Paid'
  <2>1. /\ Cardinality(charged) \in Nat /\ Cardinality(charged') \in Nat
        /\ Cardinality(charged) <= Cardinality(charged')
    BY <1>0, Charges
  <2>2. /\ wall' => Cardinality(charged') > Limit
        /\ pc' = "settle" /\ Cardinality(charged') > Limit => wall'
    <3>1. wall => Cardinality(charged) > Limit
      BY <1>0 DEF Paid
    <3>2. Cardinality(charged) > Limit => Cardinality(charged') > Limit
      BY <2>1, Sizes
    <3> QED BY <1>1, <3>1, <3>2
  <2>3. charged \subseteq charged' /\ at \in charged' /\ charged' \subseteq stored'
    BY <1>0 DEF Paid
  <2>4. run' # "completed"
    BY <1>0 DEF RunFollows
  <2> QED BY <1>0, <1>1, <2>2, <2>3, <2>4 DEF Paid, Content
<1> QED BY <1>2, <1>3, <1>4, <1>5, <1>6, <1>7 DEF RunInv

LEMMA SettleBlockInv ==
  ASSUME RunInv, SettleBlock
  PROVE  RunInv'
<1> USE DEF runVars, storeVars, apiVars, actVars
<1>0. /\ States /\ RunFollows /\ InOrder /\ Lateness /\ Telling /\ Paid
      /\ at \in Blocks /\ pc = "settle"
      /\ UNCHANGED <<type, runVars, storeVars, apiVars, noted, wall, actVars>>
      /\ at' = IF pc' = "begin" THEN at + 1 ELSE at
  BY DEF RunInv, States, TypeOK, SettleBlock
<1>9. Content(at) => at \in charged
  BY <1>0 DEF Paid
<1>1. CASE /\ WriteBlock(at, "completed") /\ UNCHANGED lateVars
           /\ Answered(IF at = N THEN "complete" ELSE IF noted THEN "cut" ELSE "begin")
  <2> USE DEF lateVars
  <2>0. /\ pc' \in {"settle", "complete", "cut", "begin", "gone"}
        /\ engine' \in {"no", "asked", "heard"}
        /\ pc' = "complete" => at = N
        /\ pc' = "begin" => at # N
    BY <1>0, <1>1, AnsweredGives DEF States, TypeOK
  <2>7. /\ block' \in [Blocks -> {"pending", "running", "waiting", "completed", "failed",
                                  "skipped"}]
        /\ block'[at] = "completed"
        /\ \A b \in Blocks : b # at => block'[b] = block[b]
        /\ output' \in [Blocks -> 0..N]
        /\ \A b \in Blocks : output'[b] # 0 => output'[b] \in charged
    BY <1>1, <1>9, WriteHere
  <2>8. at' \in Blocks
    BY <1>0, <2>0, Sizes
  <2>1. States'
    <3>1. TypeOK'
      BY <1>0, <1>1, <2>0, <2>7, <2>8 DEF States, TypeOK
    <3> QED BY <1>0, <1>1, <2>0, <3>1 DEF States, Places
  <2>2. RunFollows'
    BY <1>0, <2>0, <2>7 DEF RunFollows
  <2>3. InOrder'
    <3> SUFFICES ASSUME run \in {"none", "running"} PROVE InOrder'
      BY <1>0 DEF InOrder
    <3>1. /\ \A b \in Blocks : b < at => block[b] = "completed" \/ b \in overdue
          /\ \A b \in Blocks : b > at => block[b] = "pending"
      BY <1>0 DEF InOrder
    <3>2. CASE pc' = "begin"
      <4>1. at' = at + 1 /\ overdue' = overdue
        BY <1>0, <1>1, <3>2
      <4>2. \A b \in Blocks : b < at' => block'[b] = "completed" \/ b \in overdue'
        BY <1>0, <2>7, <3>1, <4>1, Sizes
      <4>3. \A b \in Blocks : b >= at' => block'[b] = "pending"
        BY <1>0, <2>7, <3>1, <4>1, Sizes
      <4> QED BY <2>8, <3>2, <4>2, <4>3, Sizes DEF InOrder, Here
    <3>3. CASE pc' # "begin"
      <4>1. at' = at /\ overdue' = overdue
        BY <1>0, <1>1, <3>3
      <4>2. Here(block[at])'
        BY <2>0, <2>7, <3>3, <4>1 DEF Here
      <4> QED BY <1>0, <2>7, <3>1, <4>1, <4>2, Sizes DEF InOrder
    <3> QED BY <3>2, <3>3
  <2>4. Lateness'
    <3>1. UNCHANGED <<late, overdue, unheard>> /\ unheard = {}
      BY <1>0, <1>1 DEF Lateness
    <3>2. /\ \A b \in overdue : b \in Blocks /\ b <= at
          /\ \A w \in late : w.of \in overdue
      BY <1>0 DEF States, Lateness
    <3>3. \A b \in overdue : b <= at' /\ (pc' = "begin" => b # at')
      BY <1>0, <3>2, Sizes
    <3> QED BY <2>0, <3>1, <3>2, <3>3 DEF Lateness
  <2>5. Telling'
    BY <1>0, <1>1, <2>0, Sizes DEF Telling, Lateness
  <2>6. Paid'
    <3>1. \A b \in Blocks : Content(b) /\ b <= at => b \in charged
      BY <1>0, <1>9, Sizes DEF Paid
    <3>2. \A b \in Blocks : b < at' \/ (b = at' /\ pc' \in {"settle", "complete"}) => b <= at
      BY <1>0, <2>0, Sizes
    <3>3. run' # "completed"
      BY <1>0 DEF RunFollows
    <3>4. UNCHANGED <<type, charged, stored, wall, late>>
      BY <1>0, <1>1
    <3> QED BY <1>0, <2>0, <2>7, <3>1, <3>2, <3>3, <3>4 DEF Paid, Content
  <2> QED BY <2>1, <2>2, <2>3, <2>4, <2>5, <2>6 DEF RunInv
<1>2. CASE Overrun(at, "completed") /\ UNCHANGED <<blockVars, engine, pc, stranded>>
  <2>1. at' = at
    BY <1>0, <1>2
  <2> QED BY <1>0, <1>2, <1>9, <2>1, OverrunInv DEF States, TypeOK, wfVars
<1> QED BY <1>1, <1>2 DEF SettleBlock

LEMMA BlockFailedInv ==
  ASSUME RunInv, BlockFailed
  PROVE  RunInv'
<1> USE DEF runVars, storeVars, apiVars, wfVars, actVars
<1>0. /\ States /\ RunFollows /\ InOrder /\ Lateness /\ Telling /\ Paid
      /\ at \in Blocks /\ pc \in {"failed", "stopped"}
      /\ UNCHANGED <<type, runVars, storeVars, apiVars, wfVars, actVars>>
  BY DEF RunInv, States, TypeOK, BlockFailed
<1>1. CASE /\ WriteBlock(at, "failed") /\ UNCHANGED lateVars
           /\ Answered(IF pc = "failed" THEN "fail" ELSE "cut")
  <2> USE DEF lateVars
  <2>0. /\ pc' \in {pc, "fail", "cut", "gone"} /\ engine' \in {"no", "asked", "heard"}
    BY <1>0, <1>1, AnsweredGives DEF States, TypeOK
  <2>7. /\ block' \in [Blocks -> {"pending", "running", "waiting", "completed", "failed",
                                  "skipped"}]
        /\ block'[at] = "failed"
        /\ \A b \in Blocks : b # at => block'[b] = block[b]
        /\ output' \in [Blocks -> 0..N]
        /\ \A b \in Blocks : output'[b] # 0 => output'[b] \in charged
    BY <1>1, WriteHere
  <2>1. States'
    <3>1. TypeOK'
      BY <1>0, <1>1, <2>0, <2>7 DEF States, TypeOK
    <3> QED BY <1>0, <1>1, <2>0, <3>1 DEF States, Places
  <2>2. RunFollows'
    BY <1>0, <2>0, <2>7 DEF RunFollows
  <2>3. InOrder'
    <3>1. Here(block[at])'
      BY <1>0, <2>0, <2>7 DEF Here
    <3> QED BY <1>0, <1>1, <2>7, <3>1, Sizes DEF InOrder
  <2>4. Lateness'
    BY <1>0, <1>1, <2>0 DEF Lateness
  <2>5. Telling'
    BY <1>0, <1>1, <2>0 DEF Telling
  <2>6. Paid'
    BY <1>0, <1>1, <2>0, <2>7 DEF Paid, Content
  <2> QED BY <2>1, <2>2, <2>3, <2>4, <2>5, <2>6 DEF RunInv
<1>2. CASE Overrun(at, "failed") /\ UNCHANGED <<blockVars, engine, pc, stranded>>
  BY <1>0, <1>2, OverrunInv DEF States, TypeOK
<1> QED BY <1>1, <1>2 DEF BlockFailed

-----------------------------------------------------------------------------
(* The run's end *)

LEMMA LeastNat ==
  ASSUME NEW T \in SUBSET Nat, T # {}
  PROVE  \E x \in T : \A y \in T : x <= y
<1> DEFINE R == OpToRel(<, Nat)
<1>1. IsWellFoundedOn(R, Nat)
  BY NatLessThanWellFounded
<1>2. \A x, y \in Nat : y < x => <<y, x>> \in R
  BY DEF OpToRel
<1> HIDE DEF R
<1>3. PICK x \in T : \A y \in T : ~ (<<y, x>> \in R)
  BY <1>1, WFMin
<1>4. \A y \in T : x \in Nat /\ y \in Nat /\ ~ (y < x)
  BY <1>2, <1>3
<1> QED BY <1>4


(* A pipeline has a last content block: its result. *)
LEMMA ResultIs ==
  ASSUME States, NEW r, r = CHOOSE b \in Blocks : /\ Content(b)
                                                  /\ \A c \in b + 1..N : ~ Content(c)
  PROVE  r \in Blocks /\ Content(r)
<1> DEFINE T == {N - b : b \in {c \in Blocks : Content(c)}}
<1>1. Content(1) /\ 1 \in Blocks
  BY TypeRules, Sizes DEF States, Content
<1>2. PICK x \in T : \A y \in T : x <= y
  <2>1. T \in SUBSET Nat /\ T # {}
    BY <1>1, Sizes
  <2> HIDE DEF T
  <2> QED BY <2>1, LeastNat
<1>3. PICK b \in Blocks : Content(b) /\ x = N - b
  BY <1>2
<1>4. \A c \in b + 1..N : ~ Content(c)
  <2> SUFFICES ASSUME NEW c \in b + 1..N, Content(c) PROVE FALSE
    OBVIOUS
  <2>1. c \in Blocks /\ N - c \in T /\ N - c < x
    BY <1>3, Sizes
  <2>2. x <= N - c
    BY <1>2, <2>1
  <2> QED BY <1>3, <2>1, <2>2, Sizes
<1> QED BY <1>3, <1>4

LEMMA EndRunInv ==
  ASSUME RunInv, EndRun
  PROVE  RunInv'
<1> USE DEF storeVars, apiVars, wfVars, actVars, lateVars
<1> DEFINE st == CASE pc = "complete" -> "completed" [] pc = "fail" -> "failed" [] OTHER -> "cancelled"
<1>0. /\ States /\ RunFollows /\ InOrder /\ Lateness /\ Telling /\ Paid
      /\ at \in Blocks /\ pc \in {"complete", "fail", "cut"}
      /\ UNCHANGED <<type, storeVars, apiVars, wfVars, actVars, lateVars>>
      /\ WriteRun(st)
  BY DEF RunInv, States, TypeOK, EndRun
<1>1. pc' \in {"over", pc, "gone"} /\ engine' \in {"no", "asked", "heard"}
  BY <1>0, AnsweredGives DEF EndRun, States, TypeOK
<1>2. run # "none"
  BY <1>0 DEF RunFollows
<1>3. /\ st = "completed" <=> pc = "complete"
      /\ st \in {"completed", "failed", "cancelled"}
  BY <1>0
<1>4. UNCHANGED <<cancelReq, output>>
  BY <1>0 DEF WriteRun
<1> HIDE DEF st
<1>5. /\ run = "running" => run' = st
      /\ run # "running" => UNCHANGED <<run, result, note>>
  BY <1>0 DEF WriteRun
<1>6. /\ block' \in [Blocks -> {"pending", "running", "waiting", "completed", "failed", "skipped"}]
      /\ run' \in {"failed", "cancelled"} => \A b \in Blocks : block'[b] # "pending"
  BY <1>0 DEF WriteRun, States, TypeOK
<1>7. run = "running" =>
        /\ result' \in 0..N /\ note' \in BOOLEAN
        /\ st = "completed" => result' \in charged /\ (note' <=> Cardinality(charged) > Limit)
  <2> SUFFICES ASSUME run = "running"
               PROVE  /\ result' \in 0..N /\ note' \in BOOLEAN
                      /\ st = "completed" => /\ result' \in charged
                                             /\ note' <=> Cardinality(charged) > Limit
    OBVIOUS
  <2>1. CASE st = "completed"
    <3>1. pc = "complete" /\ at = N
      BY <1>0, <1>3, <2>1 DEF RunFollows
    <3>2. result' = CHOOSE b \in Blocks : Content(b) /\ \A c \in b + 1..N : ~ Content(c)
      BY <1>0, <2>1 DEF WriteRun, Effect
    <3>3. result' \in Blocks /\ Content(result')
      BY <1>0, <3>2, ResultIs
    <3>4. \A b \in Blocks : Content(b) => b \in charged
      BY <1>0, <3>1, Sizes DEF Paid
    <3>5. note' = (st = "completed" /\ wall)
      BY <1>0, <2>1, Zenon DEF WriteRun
    <3>6. wall \in BOOLEAN /\ (wall <=> Cardinality(charged) > Limit)
      BY <1>0, <3>1 DEF Paid, States
    <3>7. note' <=> wall
      BY <2>1, <3>5
    <3>8. note' \in BOOLEAN
      BY <3>5
    <3>9. result' \in 0..N
      BY <3>3, Sizes
    <3> QED BY <3>3, <3>4, <3>6, <3>7, <3>8, <3>9
  <2>2. CASE st # "completed"
    <3>1. result' = 0
      BY <1>0, <2>2 DEF WriteRun
    <3>2. note' = (st = "completed" /\ wall)
      BY <1>0, Zenon DEF WriteRun
    <3>3. note' \in BOOLEAN
      BY <3>2
    <3> QED BY <2>2, <3>1, <3>3, Sizes
  <2> QED BY <2>1, <2>2
<1>8. States'
  <2>1. TypeOK'
    BY <1>0, <1>1, <1>3, <1>4, <1>5, <1>6, <1>7 DEF States, TypeOK
  <2>2. note' \in BOOLEAN
    BY <1>0, <1>5, <1>7 DEF States
  <2> QED BY <1>0, <1>1, <1>4, <2>1, <2>2 DEF States, Places
<1>9. RunFollows'
  <2>1. run' = "completed" => pc = "complete"
    BY <1>0, <1>3, <1>5 DEF RunFollows
  <2>2. run' # "none" /\ (request = "failed" => run' = "failed")
    BY <1>0, <1>2, <1>3, <1>5 DEF RunFollows
  <2> QED BY <1>0, <1>1, <1>2, <1>6, <2>1, <2>2 DEF RunFollows
<1>10. InOrder'
  <2>1. run' \notin {"none", "running"}
    BY <1>2, <1>3, <1>5
  <2> QED BY <2>1 DEF InOrder
<1>11. Lateness'
  BY <1>0, <1>1 DEF Lateness
<1>12. Telling'
  BY <1>0, <1>1 DEF Telling
<1>13. Paid'
  <2>1. UNCHANGED <<type, at, charged, stored, late, output, wall>>
    BY <1>0, <1>4
  <2>2. run' = "completed" => result' \in charged /\ (note' <=> Cardinality(charged) > Limit)
    BY <1>0, <1>5, <1>7 DEF Paid
  <2> QED BY <1>0, <1>1, <2>1, <2>2 DEF Paid, Content
<1> QED BY <1>8, <1>9, <1>10, <1>11, <1>12, <1>13 DEF RunInv

-----------------------------------------------------------------------------
(* What the environment does to the workflow *)

LEMMA CallGivesUpInv ==
  ASSUME RunInv, CallGivesUp
  PROVE  RunInv'
<1> USE DEF CallGivesUp, runVars, blockVars, storeVars, apiVars, wfVars, actVars, lateVars
<1>0. /\ States /\ RunFollows /\ InOrder /\ Lateness /\ Telling /\ Paid
      /\ at \in Blocks
      /\ pc' = "gone" \/ (pc = "record" /\ pc' = "failed")
  BY DEF RunInv, States, TypeOK
<1>1. States'
  <2>1. TypeOK'
    BY <1>0 DEF States, TypeOK
  <2> QED BY <1>0, <2>1 DEF States, Places
<1>2. RunFollows'
  BY <1>0 DEF RunFollows
<1>3. InOrder'
  BY <1>0 DEF InOrder, Here
<1>4. Lateness'
  BY <1>0 DEF Lateness
<1>5. Telling'
  BY <1>0 DEF Telling
<1>6. Paid'
  BY <1>0 DEF Paid, Content
<1> QED BY <1>1, <1>2, <1>3, <1>4, <1>5, <1>6 DEF RunInv

LEMMA CancelHeardInv ==
  ASSUME RunInv, CancelHeard
  PROVE  RunInv'
<1> USE DEF CancelHeard, runVars, blockVars, storeVars, apiVars, lateVars
<1>0. /\ States /\ RunFollows /\ InOrder /\ Lateness /\ Telling /\ Paid
      /\ at \in Blocks
      /\ pc' = pc \/ (pc = "slot" /\ pc' = "stopped")
      /\ act' = act \/ (pc = "act" /\ act = "resting" /\ act' = "stopped")
  BY DEF RunInv, States, TypeOK
<1>1. States'
  <2>1. TypeOK'
    BY <1>0 DEF States, TypeOK
  <2> QED BY <1>0, <2>1 DEF States, Places
<1>2. RunFollows'
  BY <1>0 DEF RunFollows
<1>3. InOrder'
  BY <1>0 DEF InOrder, Here
<1>4. Lateness'
  BY <1>0 DEF Lateness
<1>5. Telling'
  BY <1>0 DEF Telling
<1>6. Paid'
  BY <1>0 DEF Paid, Content
<1> QED BY <1>1, <1>2, <1>3, <1>4, <1>5, <1>6 DEF RunInv

LEMMA NextInv ==
  ASSUME RunInv, [Next]_vars
  PROVE  RunInv'
<1>1. CASE UNCHANGED vars
  <2> USE <1>1 DEF vars, runVars, blockVars, storeVars, apiVars, wfVars, actVars, lateVars
  <2>1. States'
    BY DEF RunInv, States, TypeOK
  <2>2. RunFollows'
    BY DEF RunInv, RunFollows
  <2>3. InOrder'
    BY DEF RunInv, InOrder, Here
  <2>4. Lateness'
    BY DEF RunInv, Lateness
  <2>5. Telling'
    BY DEF RunInv, Telling
  <2>6. Paid'
    BY DEF RunInv, Paid, Content
  <2> QED BY <2>1, <2>2, <2>3, <2>4, <2>5, <2>6 DEF RunInv
<1> QED BY <1>1, CreateRunInv, StartWorkflowInv, FailStartInv, CallersInv, LateWriteInv,
           BeginBlockInv, ActivityInv, AttemptFailsInv, AttemptBeginsInv, ActivityAnsweredInv,
           RecordStorageInv, SettleBlockInv, BlockFailedInv, EndRunInv, CallGivesUpInv,
           CancelHeardInv DEF Next

(* The invariant of a run, for any pipeline, retries and perils. *)
THEOREM RunInvHolds == Spec => []RunInv
<1>1. Init => RunInv
  BY InitInv
<1>2. RunInv /\ [Next]_vars => RunInv'
  BY NextInv
<1> QED BY <1>1, <1>2, PTL DEF Spec

(* What a run charges it keeps, and its blocks hand on, and it names as its *)
(* result, only what is charged; and a run that took its owner past the     *)
(* limit says so (workflows/activities/pipelines.py, workflows/pipeline.py). *)
THEOREM OutputsCharged == Spec => []OutputsAreCharged
<1>1. RunInv => OutputsAreCharged
  BY DEF RunInv, States, Paid, OutputsAreCharged
<1> QED BY <1>1, RunInvHolds, PTL

-----------------------------------------------------------------------------
(* The contract: each step of a run is one of its steps, or none *)

Show(st) == IF st \in {"running", "waiting"} THEN "active" ELSE st
Shown == [b \in Blocks |-> Show(block[b])]

PromiseStep == Promise!Next \/ UNCHANGED Promise!vars

LEMMA BlockStep ==
  ASSUME NEW b \in Blocks,
         \/ Promise!Begin(b) \/ Promise!DeliverAgain(b) \/ Promise!Settle(b)
         \/ Promise!Outlive(b) \/ Promise!LandLate(b) \/ Promise!Hear(b)
  PROVE  PromiseStep
<1>1. b \in Promise!Blocks
  BY DEF Promise!Blocks, Blocks
<1> QED BY <1>1 DEF PromiseStep, Promise!Next

(* What the contract does not see. *)
LEMMA Hidden ==
  ASSUME UNCHANGED <<run, cancelReq, told, overdue, unheard>>, Shown' = Shown,
         request' = "failed" <=> request = "failed"
  PROVE  PromiseStep
BY DEF PromiseStep, Promise!vars, Shown, Show

LEMMA ShowOne ==
  ASSUME States, NEW b \in Blocks, NEW st, block' = [block EXCEPT ![b] = st]
  PROVE  Shown' = [Shown EXCEPT ![b] = Show(st)]
<1>1. block \in [Blocks -> {"pending", "running", "waiting", "completed", "failed", "skipped"}]
  BY DEF States, TypeOK
<1> QED BY <1>1 DEF Shown

(* A write on an overdue block. *)
LEMMA LandsLate ==
  ASSUME States, NEW b \in overdue, NEW st \in {"running", "waiting", "completed", "failed"},
         block' = [block EXCEPT ![b] = st],
         UNCHANGED <<run, cancelReq, told, overdue, unheard>>,
         request' = "failed" <=> request = "failed"
  PROVE  PromiseStep
<1>1. b \in Blocks
  BY DEF States
<1>2. Shown' = [Shown EXCEPT ![b] = Show(st)] /\ Show(st) \in {"active", "completed", "failed"}
  BY <1>1, ShowOne DEF Show
<1>3. Promise!LandLate(b)
  BY <1>2 DEF Promise!LandLate, Promise!Outcomes, Shown, Show
<1> QED BY <1>1, <1>3, BlockStep

(* What the workflow writes of the block it is at, once that has begun. *)
LEMMA SettlesBlock ==
  ASSUME RunInv, NEW st \in {"waiting", "completed", "failed"}, WriteBlock(at, st),
         \/ pc = "act" /\ st = "waiting"
         \/ pc = "settle" /\ st = "completed"
         \/ pc \in {"failed", "stopped"} /\ st = "failed",
         UNCHANGED <<run, cancelReq, told, overdue, unheard, request>>
  PROVE  PromiseStep
<1>1. /\ States /\ at \in Blocks /\ block' = [block EXCEPT ![at] = st]
      /\ RunFollows /\ InOrder
  BY DEF RunInv, States, TypeOK, WriteBlock
<1>2. Shown' = [Shown EXCEPT ![at] = Show(st)] /\ Show(st) \in {"active", "completed", "failed"}
  BY <1>1, ShowOne DEF Show
<1>3. /\ Shown \in [Blocks -> {"pending", "active", "completed", "failed", "skipped"}]
      /\ Shown[at] = Show(block[at])
  BY <1>1 DEF Shown, Show, States, TypeOK
<1>7. PICK b \in Blocks : b = at
  BY <1>1
<1>4. CASE at \in overdue
  BY <1>1, <1>4, LandsLate
<1>5. CASE request = "failed"
  <2>1. Promise!Settle(b)
    BY <1>2, <1>5, <1>7 DEF Promise!Settle, Promise!Outcomes, Shown, Show
  <2> QED BY <2>1, BlockStep
<1>6. CASE request # "failed" /\ at \notin overdue
  <2>1. Here(block[at])
    BY <1>1, <1>6 DEF RunFollows, InOrder
  <2>2. block[at] \in {"running", "waiting"} \/ block[at] = st
    BY <2>1 DEF Here
  <2>3. CASE Show(block[at]) = Show(st)
    BY <1>2, <1>3, <2>3, Hidden
  <2>4. CASE block[at] \in {"running", "waiting"} /\ Show(st) # "active"
    <3>1. Shown[at] = "active" /\ Show(st) \in {"completed", "failed"}
      BY <1>2, <1>3, <2>4 DEF Show
    <3>2. Promise!Settle(b)
      BY <1>2, <1>7, <3>1 DEF Promise!Settle, Promise!Outcomes, Shown, Show
    <3> QED BY <3>2, BlockStep
  <2> QED BY <1>2, <2>2, <2>3, <2>4 DEF Show
<1> QED BY <1>4, <1>5, <1>6

LEMMA Outlives ==
  ASSUME RunInv, NEW st, Overrun(at, st),
         UNCHANGED <<run, cancelReq, told, block, request>>
  PROVE  PromiseStep
<1>1. at \in Blocks /\ overdue' = overdue \cup {at} /\ unheard' = unheard
  BY DEF RunInv, States, TypeOK, Overrun
<1>2. Promise!Outlive(at)
  BY <1>1 DEF Promise!Outlive
<1> QED BY <1>1, <1>2, BlockStep

LEMMA InitPromise == Init => Promise!Init
BY DEF Init, Promise!Init, Promise!Blocks, Blocks

LEMMA ApiPromise ==
  ASSUME RunInv, CreateRun \/ FailStart \/ CancelRun
  PROVE  PromiseStep
<1> USE DEF blockVars, lateVars, actVars
<1>0. RunFollows
  BY DEF RunInv
<1>1. CASE CreateRun
  <2>1. Promise!Submit
    BY <1>0, <1>1 DEF CreateRun, RunFollows, Promise!Submit
  <2> QED BY <2>1 DEF PromiseStep, Promise!Next
<1>2. CASE FailStart
  <2>1. Promise!FailStart
    BY <1>0, <1>2 DEF FailStart, RunFollows, Promise!FailStart, Promise!Blocks, Blocks
  <2> QED BY <2>1 DEF PromiseStep, Promise!Next
<1>3. CASE CancelRun
  <2>1. Promise!AskToStop
    BY <1>3 DEF CancelRun, Promise!AskToStop, Promise!MayWork
  <2> QED BY <2>1 DEF PromiseStep, Promise!Next
<1> QED BY <1>1, <1>2, <1>3

(* Steps whose effects are the workflow's own. *)
LEMMA InnerPromise ==
  ASSUME RunInv,
         \/ StartWorkflow \/ ApiDies \/ EngineIsAsked \/ SlotTaken \/ AttemptSucceeds
         \/ ActivityFails \/ AttemptLost \/ ActivityAnswered \/ RecordStorage \/ CallGivesUp
         \/ CancelHeard
  PROVE  PromiseStep
<1>1. UNCHANGED <<run, cancelReq, told, overdue, unheard, block>>
  BY DEF StartWorkflow, ApiDies, EngineIsAsked, SlotTaken, AttemptSucceeds, ActivityFails,
         AttemptLost, ActivityAnswered, RecordStorage, CallGivesUp, CancelHeard, runVars,
         blockVars, actVars, lateVars
<1>2. request' = request \/ {request, request'} \subseteq {"committed", "refused", "over"}
  BY DEF StartWorkflow, ApiDies, EngineIsAsked, SlotTaken, AttemptSucceeds, ActivityFails,
         AttemptLost, ActivityAnswered, RecordStorage, CallGivesUp, CancelHeard, apiVars
<1> QED BY <1>1, <1>2, Hidden DEF Shown, Show

LEMMA LateWritePromise ==
  ASSUME RunInv, LateWrite
  PROVE  PromiseStep
<1> USE DEF runVars, apiVars, actVars
<1>1. PICK w \in late :
        /\ UNCHANGED blockVars \/ WriteBlock(w.of, w.to)
        /\ UNCHANGED <<runVars, apiVars, actVars, overdue, unheard>>
  BY DEF LateWrite
<1>2. States /\ w.of \in overdue /\ w.to \in {"running", "waiting", "completed", "failed"}
  BY <1>1 DEF RunInv, States, Lateness
<1>3. CASE UNCHANGED blockVars
  BY <1>1, <1>3, Hidden DEF blockVars, Shown, Show
<1>4. CASE WriteBlock(w.of, w.to)
  BY <1>1, <1>2, <1>4, LandsLate DEF WriteBlock
<1> QED BY <1>1, <1>3, <1>4

LEMMA BeginBlockPromise ==
  ASSUME RunInv, BeginBlock
  PROVE  PromiseStep
<1> USE DEF runVars, apiVars
<1>0. /\ States /\ RunFollows /\ InOrder /\ Lateness /\ Telling
      /\ at \in Blocks /\ pc = "begin"
      /\ UNCHANGED <<type, runVars, apiVars>>
  BY DEF RunInv, States, TypeOK, BeginBlock
<1>1. CASE UNCHANGED <<blockVars, lateVars, actVars>>
  BY <1>0, <1>1, Hidden DEF blockVars, lateVars, actVars, Shown, Show
<1>2. CASE /\ MayBegin
           /\ WriteBlock(at, "running")
           /\ told' = IF type[at] = "webhook" THEN 1 ELSE told
           /\ unheard' \in {{}, {at}}
           /\ UNCHANGED <<late, overdue>>
  <2>1. Shown' = [Shown EXCEPT ![at] = "active"]
    BY <1>0, <1>2, ShowOne DEF WriteBlock, Show
  <2>2. run = "running" /\ ~cancelReq
    BY <1>2 DEF MayBegin
  <2>3. CASE unheard = {}
    <3>1. /\ block[at] = "pending" \/ at \in overdue
          /\ \A b \in Blocks : b < at => block[b] = "completed" \/ b \in overdue
      BY <1>0, <2>2, <2>3 DEF InOrder, Here
    <3>2. type[at] = "webhook" => told = 0
      <4> SUFFICES ASSUME type[at] = "webhook", told > 0 PROVE FALSE
        BY <1>0, Sizes DEF States, TypeOK
      <4>1. PICK b \in Blocks : type[b] = "webhook" /\ b < at
        BY <1>0, <2>3 DEF Telling
      <4> QED BY <1>0, <4>1, TypeRules, Sizes DEF States
    <3>3. told' \in {told, told + 1}
      BY <1>2, <3>2
    <3>5. PICK b \in Blocks : b = at
      BY <1>0
    <3>4. Promise!Begin(b)
      <4>1. \A c \in 1..at - 1 : Shown[c] = "completed" \/ c \in overdue
        BY <1>0, <3>1, Sizes DEF Shown, Show
      <4>2. Shown[at] = "pending" \/ at \in overdue
        BY <1>0, <3>1 DEF Shown, Show
      <4> QED BY <1>0, <1>2, <2>1, <2>2, <2>3, <3>3, <3>5, <4>1, <4>2
              DEF Promise!Begin, Promise!MayWork, Shown, Show
    <3> QED BY <3>4, BlockStep
  <2>4. CASE unheard = {at}
    <3>1. block[at] = "running" /\ told' = told
      BY <1>0, <1>2, <2>2, <2>4 DEF Lateness, Telling
    <3>2. Shown' = Shown
      BY <1>0, <2>1, <3>1 DEF Shown, Show
    <3>3. CASE unheard' = unheard
      BY <1>0, <1>2, <2>2, <3>1, <3>2, <3>3, Hidden
    <3>4. CASE unheard' = {}
      <4>1. Promise!Hear(at)
        BY <1>0, <1>2, <2>4, <3>1, <3>2, <3>4 DEF Promise!Hear, Shown, Show
      <4> QED BY <1>0, <4>1, BlockStep
    <3> QED BY <1>2, <2>4, <3>3, <3>4
  <2> QED BY <1>0, <2>3, <2>4 DEF Lateness
<1>3. CASE Overrun(at, "running") /\ UNCHANGED <<blockVars, actVars>>
  BY <1>0, <1>3, Outlives DEF blockVars, actVars
<1> QED BY <1>1, <1>2, <1>3 DEF BeginBlock

LEMMA AttemptPromise ==
  ASSUME RunInv, AttemptFails \/ AttemptBegins
  PROVE  PromiseStep
<1> USE DEF runVars, apiVars, blockVars, lateVars
<1>0. /\ States /\ RunFollows /\ InOrder /\ at \in Blocks /\ pc = "act"
      /\ UNCHANGED <<runVars, apiVars>>
  BY DEF RunInv, States, TypeOK, AttemptFails, AttemptBegins
<1>1. CASE UNCHANGED <<blockVars, lateVars, told>>
  BY <1>0, <1>1, Hidden DEF Shown, Show
<1>2. CASE UNCHANGED <<lateVars, told>> /\ WriteBlock(at, "waiting")
  BY <1>0, <1>2, SettlesBlock
<1>3. CASE UNCHANGED <<blockVars, told>> /\ Overrun(at, "waiting")
  BY <1>0, <1>3, Outlives
<1>4. CASE MayBegin /\ WriteBlock(at, "running") /\ told' = told + 1 /\ UNCHANGED lateVars
  <2>1. Shown' = [Shown EXCEPT ![at] = "active"]
    BY <1>0, <1>4, ShowOne DEF WriteBlock, Show
  <2>2. Shown[at] = "active" \/ at \in overdue
    BY <1>0, <1>4 DEF InOrder, Here, MayBegin, Shown, Show
  <2>4. PICK b \in Blocks : b = at
    BY <1>0
  <2>3. Promise!DeliverAgain(b)
    BY <2>4, <1>0, <1>4, <2>1, <2>2 DEF MayBegin, Promise!DeliverAgain, Promise!MayWork, Shown, Show
  <2> QED BY <2>3, BlockStep
<1> QED BY <1>1, <1>2, <1>3, <1>4 DEF AttemptFails, AttemptBegins

LEMMA SettlePromise ==
  ASSUME RunInv, SettleBlock \/ BlockFailed
  PROVE  PromiseStep
<1> USE DEF runVars, apiVars, blockVars, actVars, lateVars
<1>1. UNCHANGED <<run, cancelReq, told, request>>
  BY DEF SettleBlock, BlockFailed
<1>2. CASE SettleBlock
  BY <1>1, <1>2, SettlesBlock, Outlives DEF SettleBlock
<1>3. CASE BlockFailed
  BY <1>1, <1>3, SettlesBlock, Outlives DEF BlockFailed
<1> QED BY <1>2, <1>3

LEMMA EndRunPromise ==
  ASSUME RunInv, EndRun
  PROVE  PromiseStep
<1> USE DEF actVars, lateVars
<1> DEFINE st == CASE pc = "complete" -> "completed" [] pc = "fail" -> "failed" [] OTHER -> "cancelled"
<1>0. /\ States /\ RunFollows /\ InOrder /\ Lateness /\ at \in Blocks
      /\ WriteRun(st)
      /\ UNCHANGED <<cancelReq, told, overdue, unheard, request>>
  BY DEF RunInv, States, TypeOK, EndRun, WriteRun, apiVars
<1>1. \/ pc = "complete" /\ st = "completed" /\ at = N
      \/ pc = "fail" /\ st = "failed"
      \/ pc = "cut" /\ st = "cancelled"
  <2>1. pc \in {"complete", "fail", "cut"}
    BY DEF EndRun
  <2>2. pc = "complete" => at = N
    BY <1>0 DEF RunFollows
  <2> QED BY <2>1, <2>2
<1> HIDE DEF st
<1>2. /\ run = "running" => run' = st
      /\ run # "running" => run' = run
      /\ block' = IF run' \in {"failed", "cancelled"}
                    THEN [b \in Blocks |-> IF block[b] = "pending" THEN "skipped" ELSE block[b]]
                    ELSE block
  BY <1>0 DEF WriteRun
<1>3. CASE run # "running"
  <2>1. block' = block
    BY <1>0, <1>2, <1>3 DEF RunFollows, States, TypeOK
  <2> QED BY <1>0, <1>2, <1>3, <2>1, Hidden DEF Shown, Show
<1>4. CASE run = "running"
  <2>1. /\ \A b \in Blocks : b < at => block[b] = "completed" \/ b \in overdue
        /\ \A b \in Blocks : b > at => block[b] = "pending"
        /\ Here(block[at]) \/ at \in overdue
    BY <1>0, <1>4 DEF InOrder
  <2>2. \A b \in Blocks : b < at \/ b = at \/ b > at
    BY <1>0, Sizes
  <2>3. CASE st = "completed"
    <3>1. \A b \in Blocks : Shown[b] = "completed" \/ b \in overdue
      BY <1>0, <1>1, <2>1, <2>2, <2>3, Sizes DEF Here, Shown, Show
    <3>2. run' = "completed" /\ Shown' = Shown
      BY <1>2, <1>4, <2>3 DEF Shown, Show
    <3>3. Promise!End
      BY <1>0, <1>4, <3>1, <3>2 DEF Promise!End, Promise!Blocks, Blocks, Shown, Show
    <3> QED BY <3>3 DEF PromiseStep, Promise!Next
  <2>4. CASE st \in {"failed", "cancelled"}
    <3>1. run' = st
      BY <1>2, <1>4
    <3>2. Shown' = [b \in Blocks |-> IF Shown[b] = "pending" THEN "skipped" ELSE Shown[b]]
      <4>1. block' = [b \in Blocks |-> IF block[b] = "pending" THEN "skipped" ELSE block[b]]
        BY <1>2, <2>4, <3>1
      <4> QED BY <4>1 DEF Shown, Show
    <3>3. st = "failed" => Shown[at] = "failed" \/ at \in overdue
      BY <1>0, <1>1, <2>1 DEF Here, Shown, Show
    <3>4. \A b \in Blocks : Shown[b] = "active" => b \in overdue \/ (b \in unheard /\ st = "cancelled")
      <4> SUFFICES ASSUME NEW b \in Blocks, Shown[b] = "active", b \notin overdue
                   PROVE  b \in unheard /\ st = "cancelled"
        OBVIOUS
      <4>1. block[b] \in {"running", "waiting"}
        BY <1>0 DEF Shown, Show, States, TypeOK
      <4>2. b = at
        BY <2>1, <2>2, <4>1
      <4> QED BY <1>1, <2>1, <2>4, <4>1, <4>2 DEF Here
    <3>5. Promise!End
      BY <1>0, <1>4, <2>4, <3>1, <3>2, <3>3, <3>4 DEF Promise!End, Promise!Blocks, Blocks, Shown, Show
    <3> QED BY <3>5 DEF PromiseStep, Promise!Next
  <2> QED BY <1>1, <2>3, <2>4
<1> QED BY <1>3, <1>4

(* A run does what its owner may count on: its blocks run one at a time and  *)
(* in order, none begins and nothing is delivered once the run is over or    *)
(* its cancel was asked for, and its outcome is its blocks'; for any         *)
(* pipeline and any perils (workflows/pipeline.py, activities/pipelines.py). *)
THEOREM RunKeepsPromise == Spec => KeepsPromise
<1>1. Init => Promise!Init
  BY InitPromise
<1>2. RunInv /\ [Next]_vars => [Promise!Next]_(Promise!vars)
  <2> SUFFICES ASSUME RunInv, [Next]_vars PROVE PromiseStep
    BY DEF PromiseStep
  <2>1. CASE UNCHANGED vars
    BY <2>1, Hidden DEF vars, runVars, blockVars, apiVars, actVars, lateVars, Shown, Show
  <2> QED BY <2>1, ApiPromise, InnerPromise, LateWritePromise, BeginBlockPromise, AttemptPromise,
             SettlePromise, EndRunPromise DEF Next
<1> QED BY <1>1, <1>2, RunInvHolds, PTL DEF Spec, KeepsPromise, Promise!Spec
=============================================================================
