------------------------- MODULE NotificationProofs -------------------------
(***************************************************************************)
(* Theorems about the two ways an end is told.  WebhookDelivery, for any   *)
(* rows, attempt cap, backoff, grace and perils: every step but Tick and   *)
(* the sweep's reading is a step of one row, so the invariants are proved  *)
(* row by row.  Watch, for any runs, clients, queue length and losses: the *)
(* sockets that subscribe before they read are followed one by one.        *)
(***************************************************************************)
EXTENDS WebhookDelivery, Watch, TLAPS, FiniteSetTheorems

-----------------------------------------------------------------------------
(* The inductive invariant *)

(* The lock is held on a pending row, and by a workflow that is not asleep. *)
Locked(d) ==
    /\ poster[d] # "none" => status[d] = "pending" /\ flow[d] # "asleep"
    /\ poster[d] = "awaited" => flow[d] = "asking"

(* Nothing knows of a row that is not written. *)
Unwritten(d) ==
    status[d] = "none" =>
        /\ flow[d] = "none" /\ ~start[d] /\ d \notin found /\ loaded[d] = NotLoaded
        /\ attempts[d] = 0 /\ accepted[d] = 0

(* A pending row has attempts left, also if a retry by hand is about to    *)
(* write it: a row it loaded at an end has not moved since.                *)
AttemptsLeft(d) ==
    /\ status[d] = "pending" => attempts[d] < MaxAttempts
    /\ loaded[d].status \in {"delivered", "exhausted"} /\ status[d] # "gone" =>
          status[d] = loaded[d].status /\ attempts[d] = loaded[d].attempts
    /\ loaded[d].status = "none" => loaded[d] = NotLoaded

(* An acceptance not yet accounted for is the row's delivered status. *)
Accounted(d) ==
    /\ accepted[d] <= 1 + unrecorded[d] + rearmed[d]
    /\ status[d] \notin {"delivered", "gone"} => accepted[d] <= unrecorded[d] + rearmed[d]

Earned(d) ==
    /\ status[d] = "delivered" => accepted[d] > 0
    /\ status[d] = "exhausted" /\ rearmed[d] = 0 => blocked[d] \/ attempts[d] = MaxAttempts

SleepMatches(d) ==
    flow[d] = "asleep" /\ status[d] = "pending" /\ rearmed[d] = 0 =>
        nap[d] = IF due[d] > 0 THEN due[d] ELSE 0

RowInv(d) ==
    /\ Locked(d) /\ Unwritten(d) /\ AttemptsLeft(d) /\ Accounted(d) /\ Earned(d)
    /\ SleepMatches(d)

Inv == \A d \in Rows : RowInv(d)

-----------------------------------------------------------------------------
(* Every step, seen from one row. *)

(* What a row's own step does, in scalars. *)
Keeps(d) ==
    /\ status'[d] = status[d] /\ attempts'[d] = attempts[d] /\ due'[d] = due[d]
    /\ start'[d] = start[d] /\ flow'[d] = flow[d] /\ nap'[d] = nap[d]
    /\ poster'[d] = poster[d] /\ (d \in found' => d \in found) /\ loaded'[d] = loaded[d]
    /\ accepted'[d] = accepted[d] /\ unrecorded'[d] = unrecorded[d]
    /\ rearmed'[d] = rearmed[d] /\ blocked'[d] = blocked[d]

RowStep(d) ==
    Attempt(d) \/ Wake(d) \/ StartPending(d) \/ RetryWrites(d) \/ Environment(d) \/ SweepStarts(d)

LEMMA InitInv == Init => TypeOK /\ Inv
<1> SUFFICES ASSUME Init PROVE TypeOK /\ Inv
  OBVIOUS
<1>1. TypeOK
  BY AttemptsAssumption DEF Init, TypeOK, Attempts, NotLoaded
<1>2. Inv
  BY DEF Init, Inv, RowInv, Locked, Unwritten, AttemptsLeft, Accounted, Earned, SleepMatches,
     NotLoaded
<1> QED BY <1>1, <1>2

-----------------------------------------------------------------------------
(* Types *)

LEMMA CommitType ==
  ASSUME TypeOK, NEW d \in Rows, RowInv(d), NEW ok \in BOOLEAN, CommitAttempt(d, ok)
  PROVE  /\ attempts[d] + 1 \in Attempts /\ status[d] = "pending"
         /\ poster' = [poster EXCEPT ![d] = "none"]
         /\ attempts' \in [Rows -> Attempts]
         /\ status' \in [Rows -> {"none", "pending", "delivered", "exhausted", "gone"}]
         /\ due' \in [Rows -> Int]
         /\ accepted' \in [Rows -> Nat]
<1>1. status[d] = "pending" /\ attempts[d] < MaxAttempts
  BY DEF CommitAttempt, RowInv, Locked, AttemptsLeft
<1>2. attempts[d] + 1 \in Attempts
  BY <1>1, AttemptsAssumption DEF TypeOK, Attempts
<1>3. Wait(attempts[d] + 1) \in Int
  BY <1>2, BackoffAssumption DEF Wait
<1>4. attempts' \in [Rows -> Attempts]
  BY <1>2 DEF CommitAttempt, TypeOK
<1>5. status' \in [Rows -> {"none", "pending", "delivered", "exhausted", "gone"}]
  BY DEF CommitAttempt, TypeOK
<1>6. due' \in [Rows -> Int]
  BY <1>3 DEF CommitAttempt, TypeOK
<1>7. accepted' \in [Rows -> Nat]
  BY DEF CommitAttempt, TypeOK
<1> QED BY <1>1, <1>2, <1>4, <1>5, <1>6, <1>7 DEF CommitAttempt

LEMMA AttemptType ==
  ASSUME TypeOK, NEW d \in Rows, RowInv(d), Attempt(d)
  PROVE  TypeOK'
<1>1. CASE AttemptGone(d) \/ BeginAttempt(d)
  BY <1>1 DEF TypeOK, AttemptGone, BeginAttempt, rowVars, flowVars, history
<1>2. ASSUME NEW ok \in BOOLEAN, EndAttempt(d, ok)
      PROVE  TypeOK'
  <2>1. CommitAttempt(d, ok)
    BY <1>2 DEF EndAttempt
  <2>2. due' \in [Rows -> Int]
    BY <2>1, CommitType
  <2>3. RetryIn(d) \in Nat
    BY <2>2 DEF RetryIn
  <2>4. nap' \in [Rows -> Nat] /\ flow' \in [Rows -> {"none", "asking", "asleep"}]
    BY <1>2, <2>3 DEF EndAttempt, Answered, TypeOK
  <2> QED BY ZenonT(60), <1>2, <2>1, <2>2, <2>4, CommitType DEF EndAttempt, TypeOK
<1>3. ASSUME NEW ok \in BOOLEAN, EndStrayAttempt(d, ok)
      PROVE  TypeOK'
  <2>1. CommitAttempt(d, ok)
    BY <1>3 DEF EndStrayAttempt
  <2> QED BY <1>3, <2>1, CommitType DEF EndStrayAttempt, TypeOK, flowVars
<1> QED BY <1>1, <1>2, <1>3 DEF Attempt

LEMMA EnvironmentType ==
  ASSUME TypeOK, NEW d \in Rows, RowInv(d), Environment(d)
  PROVE  TypeOK'
<1>0. Peril(d) => perils' \in [Rows -> Nat]
  BY DEF Peril, TypeOK
<1> HIDE DEF Peril
<1>1. CASE WriteRow(d)
  BY <1>1 DEF TypeOK, WriteRow, flowVars, history
<1>7. CASE StartLost(d)
  BY <1>0, <1>7 DEF TypeOK, StartLost, rowVars, flowVars, history
<1>8. CASE DeleteRow(d)
  BY <1>0, <1>8 DEF TypeOK, DeleteRow, flowVars, history
<1>9. CASE AttemptBlocked(d)
  BY <1>0, <1>9 DEF TypeOK, AttemptBlocked
<1>2. CASE AttemptTimesOut(d)
  BY <1>0, <1>2 DEF TypeOK, AttemptTimesOut, rowVars, flowVars, history
<1>10. CASE WindowPasses(d)
  BY <1>0, <1>10 DEF TypeOK, WindowPasses, rowVars, history
<1>11. CASE SweepFails(d)
  BY <1>0, <1>11 DEF TypeOK, SweepFails, rowVars, flowVars, history
<1>3. CASE RetryLoads(d)
  BY <1>3 DEF TypeOK, RetryLoads, Peril, rowVars, flowVars, history
<1>4. ASSUME NEW ok \in BOOLEAN, EndAttemptUnheard(d, ok)
      PROVE  TypeOK'
  <2>1. CommitAttempt(d, ok)
    BY <1>4 DEF EndAttemptUnheard
  <2> QED BY <1>4, <2>1, CommitType DEF EndAttemptUnheard, TypeOK, Peril, flowVars
<1>5. ASSUME NEW ok \in BOOLEAN, AttemptDies(d, ok)
      PROVE  TypeOK'
  BY <1>5 DEF AttemptDies, TypeOK, Peril, rowVars, flowVars
<1> QED BY <1>1, <1>2, <1>3, <1>4, <1>5, <1>7, <1>8, <1>9, <1>10, <1>11 DEF Environment

LEMMA TypeStep == TypeOK /\ Inv /\ [Next]_vars => TypeOK'
<1> SUFFICES ASSUME TypeOK, Inv, [Next]_vars PROVE TypeOK'
  OBVIOUS
<1>1. CASE UNCHANGED vars
  BY <1>1 DEF vars, rowVars, flowVars, history, TypeOK
<1>2. CASE Tick
  BY <1>2, SweepAssumption DEF Tick, TypeOK, history
<1>3. CASE Sweep
  BY <1>3 DEF Sweep, SweepReads, SweepStarts, Started, TypeOK, rowVars, flowVars, history
<1>4. ASSUME NEW d \in Rows, Attempt(d) \/ Wake(d) \/ StartPending(d) \/ RetryWrites(d) \/ Environment(d)
      PROVE  TypeOK'
  <2>1. RowInv(d)
    BY DEF Inv
  <2>2. CASE Attempt(d)
    BY <2>1, <2>2, AttemptType
  <2>3. CASE Wake(d) \/ StartPending(d)
    BY <2>3 DEF Wake, StartPending, Started, TypeOK, rowVars, history
  <2>4. CASE RetryWrites(d)
    <3>1. 0 \in Attempts /\ NotLoaded \in [status : {"none", "pending", "delivered", "exhausted"},
                                            attempts : Attempts]
      BY AttemptsAssumption DEF Attempts, NotLoaded
    <3>2. loaded' \in [Rows -> [status : {"none", "pending", "delivered", "exhausted"},
                               attempts : Attempts]]
      BY <2>4, <3>1 DEF RetryWrites, TypeOK
    <3>3. CASE status[d] = "gone"
      BY <2>4, <3>2, <3>3 DEF RetryWrites, TypeOK, rowVars, flowVars
    <3>4. CASE status[d] # "gone"
      <4>3. /\ \E x \in {status[d], "pending"} : status' = [status EXCEPT ![d] = x]
            /\ \E n \in {attempts[d], 0} : attempts' = [attempts EXCEPT ![d] = n]
            /\ due' = [due EXCEPT ![d] = 0]
            /\ start' = [start EXCEPT ![d] = TRUE]
            /\ rearmed' = [rearmed EXCEPT ![d] = @ + 1]
        BY <2>4, <3>4 DEF RetryWrites
      <4>1. /\ status' \in [Rows -> {"none", "pending", "delivered", "exhausted", "gone"}]
            /\ attempts' \in [Rows -> Attempts]
            /\ due' \in [Rows -> Int]
        BY <3>1, <4>3 DEF TypeOK
      <4>2. start' \in [Rows -> BOOLEAN] /\ rearmed' \in [Rows -> Nat]
        BY <4>3 DEF TypeOK
      <4> QED BY <2>4, <3>2, <4>1, <4>2 DEF RetryWrites, TypeOK, flowVars
    <3> QED BY <3>3, <3>4
  <2>5. CASE Environment(d)
    BY <2>1, <2>5, EnvironmentType
  <2> QED BY <1>4, <2>2, <2>3, <2>4, <2>5
<1> QED BY <1>1, <1>2, <1>3, <1>4 DEF Next

-----------------------------------------------------------------------------
(* The invariant, one kind of step at a time. *)

LEMMA KeepsInv ==
  ASSUME NEW d \in Rows, RowInv(d), Keeps(d)
  PROVE  RowInv(d)'
BY DEF RowInv, Keeps, Locked, Unwritten, AttemptsLeft, Accounted, Earned, SleepMatches, NotLoaded

LEMMA StepsAreLocal ==
  ASSUME TypeOK, NEW d \in Rows, NEW e \in Rows, d # e, RowStep(e)
  PROVE  Keeps(d)
<1>1. CASE Attempt(e)
  BY <1>1 DEF Attempt, AttemptGone, BeginAttempt, EndAttempt, EndStrayAttempt, CommitAttempt,
     Answered, TypeOK, Keeps, rowVars, flowVars, history
<1>2. CASE Wake(e) \/ StartPending(e) \/ SweepStarts(e)
  BY <1>2 DEF Wake, StartPending, SweepStarts, Started, TypeOK, Keeps, rowVars, flowVars, history
<1>3. CASE RetryWrites(e)
  BY <1>3 DEF RetryWrites, TypeOK, Keeps, rowVars, flowVars, history
<1>4. CASE Environment(e)
  <2>1. CASE WriteRow(e) \/ StartLost(e) \/ DeleteRow(e)
    BY <2>1 DEF WriteRow, StartLost, DeleteRow, TypeOK, Keeps, rowVars, flowVars, history
  <2>2. CASE AttemptBlocked(e) \/ AttemptTimesOut(e) \/ WindowPasses(e)
    BY <2>2 DEF AttemptBlocked, AttemptTimesOut, WindowPasses, TypeOK, Keeps, rowVars, flowVars,
       history
  <2>3. CASE SweepFails(e)
    BY <2>3 DEF SweepFails, TypeOK, Keeps, rowVars, flowVars, history
  <2>4. CASE RetryLoads(e)
    BY <2>4 DEF RetryLoads, TypeOK, Keeps, rowVars, flowVars, history
  <2>5. ASSUME NEW ok \in BOOLEAN, EndAttemptUnheard(e, ok) \/ AttemptDies(e, ok)
        PROVE  Keeps(d)
    BY <2>5 DEF EndAttemptUnheard, AttemptDies, CommitAttempt, TypeOK, Keeps, rowVars, flowVars
  <2> QED BY <1>4, <2>1, <2>2, <2>3, <2>4, <2>5 DEF Environment
<1> QED BY <1>1, <1>2, <1>3, <1>4 DEF RowStep

LEMMA TickInv ==
  ASSUME TypeOK, NEW d \in Rows, RowInv(d), Tick
  PROVE  RowInv(d)'
<1>1. /\ status' = status /\ attempts' = attempts /\ start' = start /\ flow' = flow
      /\ poster' = poster /\ found' = found /\ loaded' = loaded /\ accepted' = accepted
      /\ unrecorded' = unrecorded /\ rearmed' = rearmed /\ blocked' = blocked
  BY DEF Tick, history
<1>2. /\ due'[d] = IF due[d] >= -Grace THEN due[d] - 1 ELSE due[d]
      /\ nap'[d] = IF nap[d] > 0 THEN nap[d] - 1 ELSE 0
  BY DEF Tick
<1>3. due[d] \in Int /\ nap[d] \in Nat
  BY DEF TypeOK
<1>4. SleepMatches(d)'
  BY <1>1, <1>2, <1>3, SweepAssumption DEF RowInv, SleepMatches
<1> QED BY <1>1, <1>4 DEF RowInv, Locked, Unwritten, AttemptsLeft, Accounted, Earned, NotLoaded

(* What a committed attempt leaves behind. *)
LEMMA CommitEffect ==
  ASSUME TypeOK, NEW d \in Rows, RowInv(d), NEW ok \in BOOLEAN, CommitAttempt(d, ok)
  PROVE  /\ status[d] = "pending" /\ flow[d] # "asleep" /\ poster'[d] = "none"
         /\ \/ status'[d] = "delivered" /\ accepted'[d] = accepted[d] + 1
            \/ status'[d] = "exhausted" /\ accepted'[d] = accepted[d] /\ attempts'[d] = MaxAttempts
            \/ status'[d] = "pending" /\ accepted'[d] = accepted[d] /\ attempts'[d] < MaxAttempts
<1>1. /\ status[d] = "pending" /\ flow[d] # "asleep" /\ attempts[d] < MaxAttempts
  BY DEF CommitAttempt, RowInv, Locked, AttemptsLeft
<1>2. poster'[d] = "none" /\ attempts'[d] = attempts[d] + 1
  BY DEF CommitAttempt, TypeOK
<1>3. attempts[d] \in Nat /\ MaxAttempts \in Nat
  BY AttemptsAssumption DEF TypeOK, Attempts
<1>4. CASE ok
  BY <1>1, <1>2, <1>4 DEF CommitAttempt, TypeOK
<1>5. CASE ~ok
  <2>1. accepted'[d] = accepted[d]
    BY <1>5 DEF CommitAttempt, TypeOK
  <2>2. status'[d] = IF Spent(attempts[d] + 1) THEN "exhausted" ELSE "pending"
    BY <1>1, <1>5 DEF CommitAttempt, TypeOK
  <2> QED BY <1>1, <1>2, <1>3, <2>1, <2>2 DEF Spent
<1> QED BY <1>4, <1>5

(* A committed attempt keeps the invariant, if what it does to the         *)
(* workflow leaves it awake or asleep until the row is due.                *)
LEMMA CommitInv ==
  ASSUME TypeOK, NEW d \in Rows, RowInv(d), NEW ok \in BOOLEAN, CommitAttempt(d, ok),
         loaded' = loaded, unrecorded' = unrecorded, rearmed' = rearmed, blocked' = blocked,
         \/ flow'[d] = flow[d]
         \/ nap'[d] = RetryIn(d) \/ status'[d] # "pending"
  PROVE  RowInv(d)'
<1>1. /\ status[d] = "pending" /\ flow[d] # "asleep" /\ poster'[d] = "none"
      /\ \/ status'[d] = "delivered" /\ accepted'[d] = accepted[d] + 1
         \/ status'[d] = "exhausted" /\ accepted'[d] = accepted[d] /\ attempts'[d] = MaxAttempts
         \/ status'[d] = "pending" /\ accepted'[d] = accepted[d] /\ attempts'[d] < MaxAttempts
  BY CommitEffect
<1>2. accepted[d] \in Nat /\ unrecorded[d] \in Nat /\ rearmed[d] \in Nat
  BY DEF TypeOK
<1>3. loaded[d].status \notin {"delivered", "exhausted"}
  BY <1>1 DEF RowInv, AttemptsLeft
<1>4. Locked(d)' /\ Unwritten(d)' /\ AttemptsLeft(d)'
  BY <1>1, <1>3 DEF RowInv, Locked, Unwritten, AttemptsLeft
<1>5. Accounted(d)'
  BY <1>1, <1>2 DEF RowInv, Accounted
<1>6. Earned(d)'
  BY <1>1, <1>2 DEF Earned
<1>7. SleepMatches(d)'
  BY <1>1 DEF SleepMatches, RetryIn
<1> QED BY <1>4, <1>5, <1>6, <1>7 DEF RowInv

LEMMA AttemptInv ==
  ASSUME TypeOK, NEW d \in Rows, RowInv(d), Attempt(d)
  PROVE  RowInv(d)'
<1>1. CASE AttemptGone(d)
  BY <1>1 DEF AttemptGone, Attemptable, rowVars, history, TypeOK, RowInv, Locked, Unwritten,
     AttemptsLeft, Accounted, Earned, SleepMatches
<1>2. CASE BeginAttempt(d)
  BY <1>2 DEF BeginAttempt, Attemptable, rowVars, flowVars, history, TypeOK, RowInv, Locked,
     Unwritten, AttemptsLeft, Accounted, Earned, SleepMatches
<1>3. ASSUME NEW ok \in BOOLEAN, EndAttempt(d, ok)
      PROVE  RowInv(d)'
  <2>1. CommitAttempt(d, ok)
    BY <1>3 DEF EndAttempt
  <2>2. nap'[d] = RetryIn(d) \/ status'[d] # "pending"
    BY <1>3 DEF EndAttempt, Answered, TypeOK
  <2> QED BY <1>3, <2>1, <2>2, CommitInv DEF EndAttempt
<1>4. ASSUME NEW ok \in BOOLEAN, EndStrayAttempt(d, ok)
      PROVE  RowInv(d)'
  <2>1. CommitAttempt(d, ok) /\ flow'[d] = flow[d]
    BY <1>4 DEF EndStrayAttempt, flowVars
  <2> QED BY <1>4, <2>1, CommitInv DEF EndStrayAttempt
<1> QED BY <1>1, <1>2, <1>3, <1>4 DEF Attempt

LEMMA RetryInv ==
  ASSUME TypeOK, NEW d \in Rows, RowInv(d), RetryWrites(d)
  PROVE  RowInv(d)'
<1>1. /\ loaded[d] # NotLoaded /\ poster[d] = "none" /\ loaded'[d] = NotLoaded
      /\ flow'[d] = flow[d] /\ nap'[d] = nap[d] /\ poster'[d] = poster[d] /\ found' = found
      /\ accepted'[d] = accepted[d] /\ unrecorded'[d] = unrecorded[d] /\ blocked'[d] = blocked[d]
  BY DEF RetryWrites, Unlocked, TypeOK, flowVars
<1>2. status[d] # "none"
  BY <1>1 DEF RowInv, Unwritten
<1>3. accepted[d] \in Nat /\ unrecorded[d] \in Nat /\ rearmed[d] \in Nat
  BY DEF TypeOK
<1>4. CASE status[d] = "gone"
  <2>1. status' = status /\ attempts' = attempts /\ due' = due /\ start' = start /\ rearmed' = rearmed
    BY <1>4 DEF RetryWrites, rowVars
  <2> QED BY <1>1, <1>2, <1>4, <2>1 DEF RowInv, Locked, Unwritten, AttemptsLeft, Accounted, Earned,
          SleepMatches, NotLoaded
<1>5. CASE status[d] # "gone"
  <2>1. /\ status'[d] = IF loaded[d].status = "pending" THEN status[d] ELSE "pending"
        /\ attempts'[d] = IF loaded[d].attempts = 0 THEN attempts[d] ELSE 0
        /\ rearmed'[d] = rearmed[d] + 1
    BY <1>5 DEF RetryWrites, TypeOK
  <2>2. loaded[d].status \in {"none", "pending", "delivered", "exhausted"}
    BY DEF TypeOK
  <2>3. 0 < MaxAttempts
    BY AttemptsAssumption
  <2>4. AttemptsLeft(d)'
    <3>1. loaded'[d].status = "none"
      BY <1>1 DEF NotLoaded
    <3>2. CASE loaded[d].status = "pending"
      BY <1>1, <2>1, <2>3, <3>1, <3>2 DEF RowInv, AttemptsLeft
    <3>3. CASE loaded[d].status \in {"delivered", "exhausted"}
      <4>1. attempts[d] = loaded[d].attempts
        BY <1>5, <3>3 DEF RowInv, AttemptsLeft
      <4> QED BY <1>1, <2>1, <2>3, <3>1, <4>1 DEF AttemptsLeft
    <3>4. CASE loaded[d].status = "none"
      BY <1>5, <2>1, <2>3, <3>1, <3>4, <1>1, <2>2 DEF AttemptsLeft, NotLoaded, TypeOK
    <3> QED BY <2>2, <3>2, <3>3, <3>4
  <2>5. Accounted(d)'
    BY <1>1, <1>3, <1>5, <2>1 DEF RowInv, Accounted
  <2>6. Earned(d)'
    BY <1>1, <1>3, <2>1 DEF RowInv, Earned
  <2>7. SleepMatches(d)' /\ Locked(d)' /\ Unwritten(d)'
    BY <1>1, <1>2, <1>3, <2>1 DEF RowInv, SleepMatches, Locked, Unwritten
  <2> QED BY <2>4, <2>5, <2>6, <2>7 DEF RowInv
<1> QED BY <1>4, <1>5

LEMMA EnvironmentInv ==
  ASSUME TypeOK, NEW d \in Rows, RowInv(d), Environment(d)
  PROVE  RowInv(d)'
<1> USE DEF RowInv, Locked, Unwritten, AttemptsLeft, Accounted, Earned, SleepMatches
<1>1. CASE WriteRow(d)
  BY <1>1, AttemptsAssumption DEF WriteRow, NotLoaded, flowVars, history, TypeOK
<1>2. CASE StartLost(d)
  BY <1>2 DEF StartLost, rowVars, flowVars, history, TypeOK
<1>3. CASE DeleteRow(d)
  BY <1>3 DEF DeleteRow, Unlocked, flowVars, history, TypeOK
<1>4. CASE AttemptBlocked(d)
  BY <1>4 DEF AttemptBlocked, Attemptable, Unlocked, TypeOK
<1>5. CASE AttemptTimesOut(d)
  BY <1>5 DEF AttemptTimesOut, rowVars, flowVars, history, TypeOK
<1>6. CASE WindowPasses(d)
  BY <1>6 DEF WindowPasses, rowVars, history, TypeOK
<1>7. CASE SweepFails(d)
  BY <1>7 DEF SweepFails, rowVars, flowVars, history, TypeOK
<1>8. CASE RetryLoads(d)
  <2>1. loaded'[d].status = status[d] /\ loaded'[d].attempts = attempts[d]
    BY <1>8 DEF RetryLoads, TypeOK
  <2> QED BY <1>8, <2>1 DEF RetryLoads, rowVars, flowVars, history
<1>9. ASSUME NEW ok \in BOOLEAN, EndAttemptUnheard(d, ok)
      PROVE  RowInv(d)'
  <2>1. CommitAttempt(d, ok) /\ flow'[d] = flow[d]
    BY <1>9 DEF EndAttemptUnheard, flowVars
  <2> HIDE DEF RowInv
  <2> QED BY <1>9, <2>1, CommitInv DEF EndAttemptUnheard
<1>10. ASSUME NEW ok \in BOOLEAN, AttemptDies(d, ok)
       PROVE  RowInv(d)'
  <2>1. accepted[d] \in Nat /\ unrecorded[d] \in Nat /\ rearmed[d] \in Nat
    BY DEF TypeOK
  <2>2. /\ poster'[d] = "none"
        /\ \/ accepted'[d] = accepted[d] /\ unrecorded'[d] = unrecorded[d]
           \/ accepted'[d] = accepted[d] + 1 /\ unrecorded'[d] = unrecorded[d] + 1
    BY <1>10 DEF AttemptDies, TypeOK
  <2>3. status[d] = "pending"
    BY <1>10 DEF AttemptDies
  <2> QED BY <1>10, <2>1, <2>2, <2>3 DEF AttemptDies, rowVars, flowVars
<1> HIDE DEF RowInv
<1> QED BY <1>1, <1>2, <1>3, <1>4, <1>5, <1>6, <1>7, <1>8, <1>9, <1>10 DEF Environment

LEMMA RowStepInv ==
  ASSUME TypeOK, NEW d \in Rows, RowInv(d), RowStep(d)
  PROVE  RowInv(d)'
<1>1. CASE Wake(d) \/ StartPending(d)
  BY <1>1 DEF Wake, StartPending, Started, rowVars, history, TypeOK, RowInv, Locked, Unwritten,
     AttemptsLeft, Accounted, Earned, SleepMatches
<1>2. CASE SweepStarts(d)
  BY <1>2 DEF SweepStarts, Started, rowVars, history, TypeOK, RowInv, Locked, Unwritten,
     AttemptsLeft, Accounted, Earned, SleepMatches
<1> QED BY <1>1, <1>2, AttemptInv, RetryInv, EnvironmentInv DEF RowStep

LEMMA InvStep == TypeOK /\ Inv /\ [Next]_vars => Inv'
<1> SUFFICES ASSUME TypeOK, Inv, [Next]_vars, NEW d \in Rows PROVE RowInv(d)'
  BY DEF Inv
<1>1. RowInv(d)
  BY DEF Inv
<1>2. CASE UNCHANGED vars
  BY <1>1, <1>2, KeepsInv DEF vars, rowVars, flowVars, history, Keeps
<1>3. CASE Tick
  BY <1>1, <1>3, TickInv
<1>4. CASE SweepReads
  <2>1. found' \subseteq {e \in Rows : status[e] = "pending"}
    BY <1>4 DEF SweepReads, Overdue
  <2> QED BY <1>1, <1>4, <2>1 DEF SweepReads, rowVars, flowVars, history, RowInv, Locked, Unwritten,
          AttemptsLeft, Accounted, Earned, SleepMatches
<1>5. ASSUME NEW e \in Rows, RowStep(e)
      PROVE  RowInv(d)'
  <2>1. CASE d = e
    BY <1>1, <1>5, <2>1, RowStepInv
  <2>2. CASE d # e
    BY <1>1, <1>5, <2>2, StepsAreLocal, KeepsInv
  <2> QED BY <2>1, <2>2
<1> QED BY <1>2, <1>3, <1>4, <1>5 DEF Next, Sweep, RowStep

LEMMA InvHolds == Spec => [](TypeOK /\ Inv)
<1>1. TypeOK /\ Inv /\ [Next]_vars => (TypeOK /\ Inv)'
  BY TypeStep, InvStep
<1> QED BY InitInv, <1>1, PTL DEF Spec

-----------------------------------------------------------------------------
(* The theorems *)

(* Every reachable state has its types: in particular a row's attempts     *)
(* never pass the cap, whatever attempts and retries cross.                *)
THEOREM TypeCorrect == Spec => []TypeOK
BY InvHolds, PTL

(* A receiver that accepted an event is sent it again only after a lost    *)
(* commit or a retry by hand.                                              *)
THEOREM AcceptedOnceHolds == Spec => []AcceptedOnce
<1>1. Inv => AcceptedOnce
  BY DEF Inv, RowInv, Accounted, AcceptedOnce
<1> QED BY InvHolds, <1>1, PTL

(* A row is delivered only if accepted, given up only when its attempts    *)
(* are spent or its URL was refused.                                       *)
THEOREM OutcomesAreEarned == Spec => []OutcomeEarned
<1>1. Inv => OutcomeEarned
  BY DEF Inv, RowInv, Earned, OutcomeEarned
<1> QED BY InvHolds, <1>1, PTL

(* The workflow's timer and the row's next_attempt_at agree. *)
THEOREM SleepsMatchRows == Spec => []SleepMatchesRow
<1>1. Inv => SleepMatchesRow
  BY DEF Inv, RowInv, SleepMatches, SleepMatchesRow
<1> QED BY InvHolds, <1>1, PTL

(* No late, stray or repeated attempt reopens a delivered row. *)
THEOREM DeliveredRowsStay == Spec => DeliveredIsFinal
<1> DEFINE Stays(d) == status[d] = "delivered" /\ status'[d] # "delivered" =>
                         status'[d] = "gone" \/ loaded[d].status \in {"delivered", "exhausted"}
<1>1. ASSUME TypeOK, NEW d \in Rows, RowInv(d), RowStep(d), status[d] = "delivered"
      PROVE  Stays(d)
  <2>1. poster[d] = "none"
    BY <1>1 DEF RowInv, Locked
  <2>2. CASE Attempt(d)
    BY <1>1, <2>1, <2>2 DEF Attempt, AttemptGone, BeginAttempt, EndAttempt, EndStrayAttempt,
       CommitAttempt, rowVars
  <2>3. CASE Wake(d) \/ StartPending(d) \/ SweepStarts(d)
    BY <1>1, <2>3 DEF Wake, StartPending, SweepStarts, rowVars
  <2>4. CASE RetryWrites(d)
    <3>1. loaded[d] # NotLoaded
      BY <2>4 DEF RetryWrites
    <3>2. loaded[d].status # "none"
      BY <1>1, <3>1 DEF RowInv, AttemptsLeft
    <3>3. loaded[d].status \in {"none", "pending", "delivered", "exhausted"}
      BY <1>1 DEF TypeOK
    <3> QED BY <1>1, <2>4, <3>2, <3>3 DEF RetryWrites, TypeOK
  <2>5. CASE Environment(d)
    BY <1>1, <2>1, <2>5 DEF Environment, WriteRow, StartLost, DeleteRow, AttemptBlocked, Attemptable,
       AttemptTimesOut, WindowPasses, SweepFails, RetryLoads, EndAttemptUnheard, AttemptDies,
       CommitAttempt, rowVars, TypeOK
  <2> QED BY <1>1, <2>2, <2>3, <2>4, <2>5 DEF RowStep
<1>2. TypeOK /\ Inv /\ [Next]_vars => [\A d \in Rows : Stays(d)]_vars
  <2> SUFFICES ASSUME TypeOK, Inv, [Next]_vars, NEW d \in Rows PROVE Stays(d)
    OBVIOUS
  <2>1. CASE UNCHANGED vars
    BY <2>1 DEF vars, rowVars
  <2>2. CASE Tick \/ SweepReads
    BY <2>2 DEF Tick, SweepReads, rowVars
  <2>3. ASSUME NEW e \in Rows, RowStep(e)
        PROVE  Stays(d)
    <3>1. CASE d = e
      BY <1>1, <2>3, <3>1 DEF Inv
    <3>2. CASE d # e
      BY <2>3, <3>2, StepsAreLocal DEF Keeps
    <3> QED BY <3>1, <3>2
  <2> QED BY <2>1, <2>2, <2>3 DEF Next, Sweep, RowStep
<1> QED BY <1>2, InvHolds, PTL DEF Spec, DeliveredIsFinal

-----------------------------------------------------------------------------
(*                                 WATCH                                   *)
(* The inductive invariant *)

Messages == [run : Runs, status : 1..Last]

SocketTypes ==
    /\ statuses \in [Runs -> 0..Last] /\ latest \in Runs
    /\ wire \in Seq(Messages) /\ conn \in {"up", "half", "lost"}
    /\ pc \in [Watchers -> {"connecting", "read", "subscribed", "open", "told"}]
    /\ told \in [Watchers -> [run : Runs, status : 0..Last]]
    /\ queue \in [Watchers -> Seq(Messages)] /\ \A w \in Watchers : Len(queue[w]) <= QueueMax
    /\ ghosts \in Nat /\ deaf \subseteq Watchers /\ quiet \subseteq Runs
    /\ \A w \in Watchers : statuses[RunOf[w]] # 0

Counted == count = Cardinality(Subscribed) + ghosts /\ count <= Limit

Now(r) == [run |-> r, status |-> statuses[r]]
Coming(r) == \E i \in 1..Len(wire) : wire[i] = Now(r)

(* The wire says nothing a run has not come to, and what it says of a run  *)
(* is followed by what the run has come to, if that notified.              *)
Wired ==
    /\ conn # "up" => wire = <<>>
    /\ \A i \in 1..Len(wire) :
          /\ wire[i].status <= statuses[wire[i].run]
          /\ wire[i].run \notin quiet => \E j \in i..Len(wire) : wire[j] = Now(wire[i].run)

Queued(w) ==
    \A i \in 1..Len(queue[w]) :
        queue[w][i].run = RunOf[w] /\ queue[w][i].status <= statuses[RunOf[w]]

Hearing(w) == w \in Subscribed \ deaf

(* Who lost no notification: the connection never went since it subscribed, *)
(* and if what its run has come to notified, its queue ends with that or it  *)
(* is on the wire, and a socket with nothing to come has told it.           *)
Heard(w) ==
    /\ conn = "up"
    /\ RunOf[w] \notin quiet =>
         /\ queue[w] # <<>> => queue[w][Len(queue[w])] = Now(RunOf[w]) \/ Coming(RunOf[w])
         /\ pc[w] = "open" => told[w] = Now(RunOf[w]) \/ queue[w] # <<>> \/ Coming(RunOf[w])

Follows(w) ==
    /\ Queued(w)
    /\ Hearing(w) => Heard(w)
    /\ pc[w] = "told" => statuses[RunOf[w]] = Last

WatchInv ==
    /\ SocketTypes /\ Counted /\ Wired
    /\ \A w \in Watchers \ Early : Follows(w)

-----------------------------------------------------------------------------
(* Sequences *)

LEMMA Appended ==
  ASSUME NEW S, NEW s \in Seq(S), NEW e \in S
  PROVE  /\ Append(s, e) \in Seq(S) /\ Len(Append(s, e)) = Len(s) + 1 /\ Len(s) \in Nat
         /\ \A i \in 1..Len(s) : Append(s, e)[i] = s[i]
         /\ Append(s, e)[Len(s) + 1] = e /\ Append(s, e) # <<>>
  OBVIOUS

LEMMA Shortened ==
  ASSUME NEW S, NEW s \in Seq(S), s # <<>>
  PROVE  /\ Tail(s) \in Seq(S) /\ Len(Tail(s)) = Len(s) - 1 /\ Len(s) \in Nat \ {0}
         /\ \A i \in 1..Len(s) - 1 : Tail(s)[i] = s[i + 1]
         /\ Head(s) = s[1] /\ Head(s) \in S
  OBVIOUS

LEMMA EmptyIs ==
  ASSUME NEW S
  PROVE  <<>> \in Seq(S) /\ Len(<<>>) = 0 
  OBVIOUS

LEMMA Indexed ==
  ASSUME NEW S, NEW s \in Seq(S)
  PROVE  Len(s) \in Nat /\ (s # <<>> <=> Len(s) > 0) /\ \A i \in 1..Len(s) : s[i] \in S
  OBVIOUS

-----------------------------------------------------------------------------
(* Counting *)

LEMMA SubscribedIsFinite == IsFiniteSet(Subscribed) /\ Cardinality(Subscribed) \in Nat
  BY WatchAssumption, FS_Subset, FS_CardinalityType DEF Subscribed

LEMMA PcMoves ==
  ASSUME SocketTypes, NEW w \in Watchers, NEW at, pc' = [pc EXCEPT ![w] = at]
  PROVE  Subscribed' = IF at \in {"subscribed", "open"} THEN Subscribed \cup {w}
                       ELSE Subscribed \ {w}
  BY DEF SocketTypes, Subscribed

LEMMA OneMoreCounted ==
  ASSUME Counted, NEW w \in Watchers, w \notin Subscribed, Subscribed' = Subscribed \cup {w},
         ghosts \in Nat, ghosts' = ghosts, ~(count >= Limit), count' = count + 1
  PROVE  Counted'
<1>1. IsFiniteSet(Subscribed) /\ Cardinality(Subscribed) \in Nat
  BY SubscribedIsFinite
<1>2. Cardinality(Subscribed \cup {w}) = Cardinality(Subscribed) + 1
  BY <1>1, FS_AddElement
<1>3. Cardinality(Subscribed)' = Cardinality(Subscribed) + 1
  BY <1>2
<1> QED BY <1>1, <1>3, WatchAssumption DEF Counted

LEMMA OneLessCounted ==
  ASSUME Counted, NEW w \in Watchers, w \in Subscribed, Subscribed' = Subscribed \ {w},
         ghosts \in Nat,
         \/ ghosts' = ghosts /\ count' = count - 1
         \/ ghosts' = ghosts + 1 /\ count' = count
  PROVE  Counted'
<1>1. IsFiniteSet(Subscribed) /\ Cardinality(Subscribed) \in Nat
  BY SubscribedIsFinite
<1>2. Cardinality(Subscribed \ {w}) = Cardinality(Subscribed) - 1
  BY <1>1, FS_RemoveElement
<1>3. Cardinality(Subscribed)' = Cardinality(Subscribed) - 1
  BY <1>2
<1> QED BY <1>1, <1>3, WatchAssumption DEF Counted

LEMMA SameCounted ==
  ASSUME Counted, Subscribed' = Subscribed, ghosts' = ghosts, count' = count
  PROVE  Counted'
  BY DEF Counted

LEMMA CountedKept ==
  ASSUME SocketTypes, Counted, WatchNext
  PROVE  Counted'
<1> USE DEF runVars, notifierVars
<1>0. ghosts \in Nat
  BY DEF SocketTypes
<1>1. ASSUME NEW w \in Watchers, NEW at \in {"subscribed", "open"}, Subscribe(w, at),
             pc[w] \notin {"subscribed", "open"}
      PROVE  Counted'
  <2>1. w \notin Subscribed
    BY <1>1 DEF Subscribed
  <2>2. CASE count >= Limit
    <3>1. Subscribed' = Subscribed \ {w}
      BY <1>1, <2>2, PcMoves DEF Subscribe
    <3>2. Subscribed' = Subscribed /\ ghosts' = ghosts /\ count' = count
      BY <1>1, <2>1, <2>2, <3>1 DEF Subscribe
    <3> QED BY <3>2, SameCounted
  <2>3. CASE ~(count >= Limit)
    <3>1. Subscribed' = Subscribed \cup {w}
      BY <1>1, <2>3, PcMoves DEF Subscribe
    <3> QED BY <1>0, <1>1, <2>1, <2>3, <3>1, OneMoreCounted DEF Subscribe
  <2> QED BY <2>2, <2>3
<1>2. ASSUME NEW w \in Watchers, NEW at \in {"told", "connecting"}, Unsubscribe(w, at),
             pc[w] \in {"subscribed", "open"}, ghosts' = ghosts
      PROVE  Counted'
  <2>1. w \in Subscribed
    BY <1>2 DEF Subscribed
  <2>2. Subscribed' = Subscribed \ {w}
    BY <1>2, PcMoves DEF Unsubscribe
  <2> QED BY <1>0, <1>2, <2>1, <2>2, OneLessCounted DEF Unsubscribe
<1>3. ASSUME NEW w \in Watchers, SocketSteps(w) PROVE Counted'
  <2>1. CASE ReadsRow(w)
    <3>1. Subscribed' = Subscribed \ {w} /\ w \notin Subscribed
      BY <2>1, PcMoves DEF ReadsRow, Subscribed
    <3>2. ghosts' = ghosts /\ count' = count
      BY <2>1 DEF ReadsRow
    <3> QED BY <3>1, <3>2, SameCounted
  <2>2. CASE SubscribesAfter(w)
    BY <1>1, <2>2 DEF SubscribesAfter
  <2>3. CASE SubscribesFirst(w)
    BY <1>1, <2>3 DEF SubscribesFirst
  <2>4. CASE Rereads(w)
    <3>1. CASE Unsubscribe(w, "told")
      BY <1>2, <2>4, <3>1 DEF Rereads
    <3>2. CASE pc' = [pc EXCEPT ![w] = "open"] /\ UNCHANGED <<queue, count, deaf>>
      <4>1. Subscribed' = Subscribed \cup {w}
        BY <3>2, PcMoves
      <4>2. w \in Subscribed /\ ghosts' = ghosts
        BY <2>4 DEF Rereads, Subscribed
      <4> QED BY <3>2, <4>1, <4>2, SameCounted
    <3> QED BY <2>4, <3>1, <3>2 DEF Rereads
  <2>5. CASE Forwards(w)
    <3>1. CASE Unsubscribe(w, "told")
      BY <1>2, <2>5, <3>1 DEF Forwards
    <3>2. CASE UNCHANGED <<pc, count, deaf>>
      BY <2>5, <3>2, SameCounted DEF Forwards, Subscribed
    <3> QED BY <2>5, <3>1, <3>2 DEF Forwards
  <2>6. CASE TimesOut(w)
    BY <1>2, <2>6 DEF TimesOut
  <2> QED BY <1>3, <2>1, <2>2, <2>3, <2>4, <2>5, <2>6 DEF SocketSteps
<1>4. ASSUME NEW w \in Watchers, ClientDrops(w) PROVE Counted'
  <2>1. w \in Subscribed
    BY <1>4 DEF ClientDrops, Subscribed
  <2>2. Subscribed' = Subscribed \ {w}
    BY <1>4, PcMoves DEF ClientDrops
  <2> QED BY <1>0, <1>4, <2>1, <2>2, OneLessCounted DEF ClientDrops
<1>5. CASE GhostEnds
  <2>1. Subscribed' = Subscribed /\ Cardinality(Subscribed) \in Nat
    BY <1>5, SubscribedIsFinite DEF GhostEnds, Subscribed
  <2> QED BY <1>0, <1>5, <2>1, WatchAssumption DEF GhostEnds, Counted
<1>6. CASE (\E r \in Runs : Make(r) \/ Advance(r) \/ AdvanceSilently(r)) \/ Deliver \/ LoseConnection \/ HealthCheck
           \/ Reconnect
  BY <1>6, SameCounted DEF Make, Advance, AdvanceSilently, Deliver, LoseConnection, HealthCheck, Reconnect, Subscribed
<1> QED BY <1>3, <1>4, <1>5, <1>6 DEF WatchNext

-----------------------------------------------------------------------------
(* Types *)

LEMMA AdvanceEffect ==
  ASSUME SocketTypes, NEW r \in Runs, Advance(r)
  PROVE  /\ statuses[r] \in 1..(Last - 1) /\ statuses'[r] = statuses[r] + 1
         /\ statuses' \in [Runs -> 0..Last]
         /\ \A x \in Runs : x # r => statuses'[x] = statuses[x]
         /\ Now(r)' \in Messages
         /\ wire' = IF conn = "up" THEN Append(wire, Now(r)') ELSE wire
  BY WatchAssumption DEF SocketTypes, Advance, Now, Messages

LEMMA SilentEffect ==
  ASSUME SocketTypes, NEW r \in Runs, AdvanceSilently(r)
  PROVE  /\ statuses[r] \in 1..(Last - 1) /\ statuses'[r] \in 1..Last /\ statuses[r] < statuses'[r]
         /\ statuses' \in [Runs -> 0..Last]
         /\ \A x \in Runs : x # r => statuses'[x] = statuses[x]
         /\ quiet' = quiet \cup {r} /\ UNCHANGED <<latest, wire, conn, pc, told, queue, deaf>>
<1>1. PICK t \in Silent : /\ t.run = r /\ statuses[r] = t.from
                          /\ statuses' = [statuses EXCEPT ![r] = t.to]
  BY DEF AdvanceSilently
<1>2. t.from \in 1..(Last - 1) /\ t.to \in 1..Last /\ t.from < t.to /\ Last \in Nat
  BY WatchAssumption
<1>3. statuses'[r] = t.to /\ statuses' \in [Runs -> 0..Last] /\ \A x \in Runs : x # r => statuses'[x] = statuses[x]
  BY <1>1, <1>2 DEF SocketTypes
<1> QED BY <1>1, <1>2, <1>3 DEF AdvanceSilently, notifierVars

LEMMA MakeEffect ==
  ASSUME SocketTypes, NEW r \in Runs, Make(r)
  PROVE  /\ statuses[r] = 0 /\ statuses'[r] = 1 /\ statuses' \in [Runs -> 0..Last]
         /\ \A x \in Runs : x # r => statuses'[x] = statuses[x]
         /\ latest' \in Runs
  BY WatchAssumption DEF SocketTypes, Make

LEMMA DeliverEffect ==
  ASSUME SocketTypes, Deliver
  PROVE  LET m == Head(wire)
             full == {w \in Subscribed : Hears(w, m.run) /\ Len(queue[w]) >= QueueMax}
         IN /\ wire # <<>> /\ conn = "up" /\ wire' = Tail(wire) /\ m \in Messages
            /\ deaf' = deaf \cup full /\ deaf' \subseteq Watchers
            /\ \A w \in Watchers :
                 queue'[w] = IF w \in Subscribed \ full /\ Hears(w, m.run)
                             THEN Append(queue[w], m) ELSE queue[w]
            /\ queue' \in [Watchers -> Seq(Messages)]
            /\ \A w \in Watchers : Len(queue'[w]) <= QueueMax
<1> DEFINE m == Head(wire)
           full == {w \in Subscribed : Hears(w, m.run) /\ Len(queue[w]) >= QueueMax}
<1>1. wire # <<>> /\ conn = "up" /\ wire' = Tail(wire) /\ deaf' = deaf \cup full
      /\ queue' = [w \in Watchers |-> IF w \in Subscribed \ full /\ Hears(w, m.run)
                                      THEN Append(queue[w], m) ELSE queue[w]]
  BY DEF Deliver
<1>2. m \in Messages
  BY <1>1, Shortened DEF SocketTypes
<1>3. deaf' \subseteq Watchers
  BY <1>1 DEF SocketTypes, Subscribed
<1>4. ASSUME NEW w \in Watchers
      PROVE  queue'[w] \in Seq(Messages) /\ Len(queue'[w]) <= QueueMax
  <2>1. queue[w] \in Seq(Messages) /\ Len(queue[w]) <= QueueMax /\ QueueMax \in Nat
    BY WatchAssumption DEF SocketTypes
  <2>2. CASE w \in Subscribed \ full /\ Hears(w, m.run)
    <3>1. queue'[w] = Append(queue[w], m) /\ ~(Len(queue[w]) >= QueueMax)
      BY <1>1, <2>2
    <3> HIDE DEF m, full
    <3> QED BY <1>2, <2>1, <3>1, Appended
  <2>3. CASE ~(w \in Subscribed \ full /\ Hears(w, m.run))
    BY <1>1, <2>1, <2>3
  <2> QED BY <2>2, <2>3
<1> HIDE DEF m, full
<1>5. queue' \in [Watchers -> Seq(Messages)]
  BY <1>1, <1>4
<1> QED BY <1>1, <1>2, <1>3, <1>4, <1>5 DEF m, full

(* What every step of a socket, or of its client, does to it alone.        *)
LEMMA SocketEffect ==
  ASSUME SocketTypes, NEW w \in Watchers, SocketSteps(w) \/ ClientDrops(w)
  PROVE  /\ UNCHANGED <<runVars, notifierVars>>
         /\ pc' \in [Watchers -> {"connecting", "read", "subscribed", "open", "told"}]
         /\ told' \in [Watchers -> [run : Runs, status : 0..Last]]
         /\ queue' \in [Watchers -> Seq(Messages)]
         /\ queue'[w] \in {queue[w], <<>>} \/ (queue[w] # <<>> /\ queue'[w] = Tail(queue[w]))
         /\ deaf' \subseteq Watchers /\ ghosts' \in Nat
         /\ \A v \in Watchers : v # w =>
               pc'[v] = pc[v] /\ told'[v] = told[v] /\ queue'[v] = queue[v] /\ (v \in deaf' <=> v \in deaf)
<1> USE DEF runVars, notifierVars
<1>0. /\ Untold(w) \in [run : Runs, status : 0..Last] /\ RowOf(w) \in [run : Runs, status : 0..Last]
      /\ <<>> \in Seq(Messages) /\ queue[w] \in Seq(Messages)
  BY WatchAssumption, EmptyIs DEF SocketTypes, Untold, RowOf, Row
<1>1. UNCHANGED <<runVars, notifierVars>> /\ (ghosts' = ghosts \/ ghosts' = ghosts + 1)
  BY DEF SocketSteps, ReadsRow, SubscribesAfter, SubscribesFirst, Subscribe, Rereads, Forwards,
         TimesOut, ClientDrops
<1>2. \E at \in {"connecting", "read", "subscribed", "open", "told"} : pc' = [pc EXCEPT ![w] = at]
  <2>1. CASE SocketSteps(w) /\ ~Forwards(w)
    BY <2>1 DEF SocketSteps, ReadsRow, SubscribesAfter, SubscribesFirst, Subscribe, Rereads,
         TimesOut, Unsubscribe
  <2>2. CASE ClientDrops(w)
    BY <2>2 DEF ClientDrops
  <2>3. CASE Forwards(w)
    <3>1. \/ pc' = [pc EXCEPT ![w] = "told"]
          \/ pc' = pc
      BY <2>3 DEF Forwards, Unsubscribe
    <3>2. pc = [pc EXCEPT ![w] = pc[w]] /\ pc[w] \in {"connecting", "read", "subscribed", "open", "told"}
      BY DEF SocketTypes
    <3> QED BY <3>1, <3>2
  <2> QED BY <2>1, <2>2, <2>3
<1>3. told' = told \/ \E m \in [run : Runs, status : 0..Last] : told' = [told EXCEPT ![w] = m]
  <2>1. CASE Forwards(w)
    <3>1. Head(queue[w]) \in Messages
      BY <1>0, <2>1, Shortened DEF Forwards
    <3>2. Head(queue[w]) \in [run : Runs, status : 0..Last]
      BY <3>1, WatchAssumption DEF Messages
    <3> QED BY <2>1, <3>2 DEF Forwards, Tells
  <2>2. CASE ~Forwards(w)
    BY <1>0, <2>2 DEF SocketSteps, ReadsRow, SubscribesAfter, SubscribesFirst, Subscribe, Rereads,
         TimesOut, ClientDrops, Tells
  <2> QED BY <2>1, <2>2
<1>4. \/ queue' = queue \/ queue' = [queue EXCEPT ![w] = <<>>]
      \/ queue[w] # <<>> /\ queue' = [queue EXCEPT ![w] = Tail(@)]
  BY DEF SocketSteps, ReadsRow, SubscribesAfter, SubscribesFirst, Subscribe, Rereads, Forwards,
         TimesOut, ClientDrops, Unsubscribe
<1>5. deaf' = deaf \/ deaf' = deaf \cup {w} \/ deaf' = deaf \ {w}
  BY DEF SocketSteps, ReadsRow, SubscribesAfter, SubscribesFirst, Subscribe, Rereads, Forwards,
         TimesOut, ClientDrops, Unsubscribe
<1>6. queue[w] # <<>> => Tail(queue[w]) \in Seq(Messages)
  BY <1>0, Shortened
<1>7. /\ pc' \in [Watchers -> {"connecting", "read", "subscribed", "open", "told"}]
      /\ \A v \in Watchers : v # w => pc'[v] = pc[v]
  BY <1>2 DEF SocketTypes
<1>8. /\ told' \in [Watchers -> [run : Runs, status : 0..Last]]
      /\ \A v \in Watchers : v # w => told'[v] = told[v]
  <2> DEFINE Told == [run : Runs, status : 0..Last]
  <2>1. told \in [Watchers -> Told] /\ (told' = told \/ \E m \in Told : told' = [told EXCEPT ![w] = m])
    BY <1>3 DEF SocketTypes
  <2> HIDE DEF Told
  <2>2. told' \in [Watchers -> Told] /\ \A v \in Watchers : v # w => told'[v] = told[v]
    BY <2>1
  <2> QED BY <2>2 DEF Told
<1>9. /\ queue' \in [Watchers -> Seq(Messages)]
      /\ \A v \in Watchers : v # w => queue'[v] = queue[v]
      /\ queue'[w] \in {queue[w], <<>>} \/ (queue[w] # <<>> /\ queue'[w] = Tail(queue[w]))
  BY <1>0, <1>4, <1>6 DEF SocketTypes
<1>10. deaf' \subseteq Watchers /\ ghosts' \in Nat
  BY <1>1, <1>5 DEF SocketTypes
<1> QED BY <1>1, <1>5, <1>7, <1>8, <1>9, <1>10

LEMMA SocketTypesKept ==
  ASSUME SocketTypes, WatchNext
  PROVE  SocketTypes'
<1> USE DEF runVars, notifierVars
<1>1. ASSUME NEW r \in Runs, Advance(r) PROVE SocketTypes'
  <2>1. wire' \in Seq(Messages)
    <3>1. wire \in Seq(Messages) /\ Now(r)' \in Messages
          /\ wire' = IF conn = "up" THEN Append(wire, Now(r)') ELSE wire
      BY <1>1, AdvanceEffect DEF SocketTypes
    <3> PICK m \in Messages : m = Now(r)'
      BY <3>1
    <3>2. Append(wire, m) \in Seq(Messages)
      BY <3>1, Appended
    <3> QED BY <3>1, <3>2
  <2>2. \A w \in Watchers : statuses'[RunOf[w]] # 0
    BY SMTT(30), <1>1, AdvanceEffect, WatchAssumption DEF SocketTypes
  <2> QED BY <1>1, <2>1, <2>2, AdvanceEffect DEF Advance, SocketTypes
<1>2. ASSUME NEW r \in Runs, Make(r) PROVE SocketTypes'
  <2>1. \A w \in Watchers : statuses'[RunOf[w]] # 0
    BY <1>2, MakeEffect, WatchAssumption DEF SocketTypes
  <2> QED BY <1>2, <2>1, MakeEffect DEF Make, SocketTypes
<1>0. ASSUME NEW r \in Runs, AdvanceSilently(r) PROVE SocketTypes'
  <2>1. \A w \in Watchers : statuses'[RunOf[w]] # 0
    BY <1>0, SilentEffect, WatchAssumption DEF SocketTypes
  <2> QED BY <1>0, <2>1, SilentEffect DEF AdvanceSilently, SocketTypes
<1>3. CASE Deliver
  <2>1. wire' \in Seq(Messages)
    <3>1. wire \in Seq(Messages) /\ wire # <<>> /\ wire' = Tail(wire)
      BY <1>3 DEF Deliver, SocketTypes
    <3> QED BY <3>1, Shortened
  <2> QED BY <1>3, <2>1, DeliverEffect DEF Deliver, SocketTypes
<1>4. CASE LoseConnection
  <2>1. wire' \in Seq(Messages)
    BY <1>4, EmptyIs DEF LoseConnection
  <2> QED BY <1>4, <2>1 DEF LoseConnection, SocketTypes, Subscribed
<1>5. CASE HealthCheck \/ Reconnect
  BY <1>5 DEF HealthCheck, Reconnect, SocketTypes
<1>6. CASE GhostEnds
  BY <1>6 DEF GhostEnds, SocketTypes
<1>7. ASSUME NEW w \in Watchers, SocketSteps(w) \/ ClientDrops(w) PROVE SocketTypes'
  <2>1. \A v \in Watchers : Len(queue'[v]) <= QueueMax
    <3>1. Len(<<>>) = 0 /\ QueueMax \in Nat /\ queue[w] \in Seq(Messages) /\ Len(queue[w]) <= QueueMax
      BY WatchAssumption, EmptyIs DEF SocketTypes
    <3>2. queue[w] # <<>> => Len(Tail(queue[w])) = Len(queue[w]) - 1 /\ Len(queue[w]) \in Nat
      BY <3>1, Shortened
    <3>3. Len(queue'[w]) <= QueueMax
      <4>1. queue'[w] \in {queue[w], <<>>} \/ (queue[w] # <<>> /\ queue'[w] = Tail(queue[w]))
        BY <1>7, SocketEffect
      <4>2. CASE queue'[w] = queue[w]
        BY <3>1, <4>2
      <4>3. CASE queue'[w] = <<>>
        <5>1. 0 <= QueueMax
          BY <3>1
        <5> QED BY <3>1, <4>3, <5>1
      <4>4. CASE queue[w] # <<>> /\ queue'[w] = Tail(queue[w])
        <5>1. \A m, n \in Nat : m <= n => m - 1 <= n
          OBVIOUS
        <5> QED BY <3>1, <3>2, <4>4, <5>1
      <4> QED BY <4>1, <4>2, <4>3, <4>4
    <3>4. \A v \in Watchers : v # w => queue'[v] = queue[v]
      BY <1>7, SocketEffect
    <3> QED BY <3>3, <3>4 DEF SocketTypes
  <2> QED BY <1>7, <2>1, SocketEffect DEF SocketTypes
<1> QED BY <1>0, <1>1, <1>2, <1>3, <1>4, <1>5, <1>6, <1>7 DEF WatchNext

-----------------------------------------------------------------------------
(* The wire *)

LEMMA WiredStays ==
  ASSUME Wired, UNCHANGED <<statuses, quiet, wire>>, conn' = conn \/ conn # "up" \/ wire = <<>>
  PROVE  Wired'
  BY DEF Wired, Now

(* Nothing is said of a run before it is made.                             *)
LEMMA NothingOfUnmade ==
  ASSUME SocketTypes, Wired, NEW i \in 1..Len(wire)
  PROVE  wire[i] \in Messages /\ statuses[wire[i].run] # 0
<1>1. wire \in Seq(Messages)
  BY DEF SocketTypes
<1>2. wire[i] \in Messages /\ wire[i].status <= statuses[wire[i].run]
  BY <1>1, Indexed DEF Wired
<1>3. wire[i].run \in Runs /\ wire[i].status \in 1..Last /\ statuses[wire[i].run] \in 0..Last
  BY <1>2 DEF SocketTypes, Messages
<1> QED BY <1>2, <1>3, WatchAssumption

LEMMA AdvancingKeepsWired ==
  ASSUME SocketTypes, Wired, NEW r \in Runs, Advance(r)
  PROVE  Wired'
<1>1. wire \in Seq(Messages) /\ statuses \in [Runs -> 0..Last] /\ conn' = conn /\ quiet' = quiet \ {r}
  BY DEF SocketTypes, Advance
<1>2. CASE conn # "up"
  <2>1. wire' = <<>>
    BY <1>2, AdvanceEffect DEF Wired
  <2> QED BY <2>1, EmptyIs DEF Wired
<1>3. CASE conn = "up"
  <2> PICK m \in Messages : m = Now(r)'
    BY AdvanceEffect
  <2>1. wire' = Append(wire, m)
    BY <1>3, AdvanceEffect
  <2>2. /\ Len(wire') = Len(wire) + 1 /\ Len(wire) \in Nat
        /\ \A i \in 1..Len(wire) : wire'[i] = wire[i]
        /\ wire'[Len(wire) + 1] = m
    BY <1>1, <2>1, Appended
  <2>3. m.run = r /\ m.status = statuses'[r]
    BY DEF Now
  <2>4. ASSUME NEW i \in 1..Len(wire')
        PROVE  /\ wire'[i].status <= statuses'[wire'[i].run]
               /\ wire'[i].run \notin quiet' => \E j \in i..Len(wire') :
                     wire'[j] = [run |-> wire'[i].run, status |-> statuses'[wire'[i].run]]
    <3>1. CASE i = Len(wire) + 1
      <4>1. wire'[i] = m /\ i \in i..Len(wire') /\ statuses'[r] <= statuses'[r]
        BY <2>2, <3>1, AdvanceEffect
      <4>2. wire'[i] = [run |-> wire'[i].run, status |-> statuses'[wire'[i].run]]
        BY <2>3, <4>1 DEF Now
      <4> QED BY <2>3, <4>1, <4>2
    <3>2. CASE i \in 1..Len(wire)
      <4>1. wire'[i] = wire[i] /\ wire[i] \in Messages /\ wire[i].status <= statuses[wire[i].run]
        BY <1>1, <2>2, <3>2, Indexed DEF Wired
      <4>2. CASE wire[i].run = r
        <5>1. wire'[i].status <= statuses'[wire'[i].run]
          BY <4>1, <4>2, AdvanceEffect DEF Messages
        <5>2. /\ Len(wire) + 1 \in i..Len(wire')
              /\ wire'[Len(wire) + 1] =
                    [run |-> wire'[i].run, status |-> statuses'[wire'[i].run]]
          BY <2>2, <3>2, <4>1, <4>2 DEF Now
        <5> QED BY <5>1, <5>2
      <4>3. CASE wire[i].run # r
        <5>1. statuses'[wire[i].run] = statuses[wire[i].run] /\ (wire[i].run \in quiet' <=> wire[i].run \in quiet)
          BY <1>1, <4>1, <4>3, AdvanceEffect DEF Messages
        <5>2. CASE wire[i].run \in quiet
          BY <4>1, <5>1, <5>2
        <5>3. CASE wire[i].run \notin quiet
          <6>1. PICK j \in i..Len(wire) : wire[j] = Now(wire[i].run)
            BY <3>2, <5>3 DEF Wired
          <6>2. j \in i..Len(wire') /\ wire'[j] = wire[j]
            BY <2>2, <3>2
          <6> QED BY <4>1, <5>1, <6>1, <6>2 DEF Now
        <5> QED BY <5>2, <5>3
      <4> QED BY <4>2, <4>3
    <3> QED BY <2>2, <3>1, <3>2
  <2> QED BY <1>1, <1>3, <2>4 DEF Wired, Now
<1> QED BY <1>2, <1>3

LEMMA SilenceKeepsWired ==
  ASSUME SocketTypes, Wired, NEW r \in Runs, AdvanceSilently(r)
  PROVE  Wired'
<1>1. wire' = wire /\ conn' = conn /\ quiet' = quiet \cup {r} /\ wire \in Seq(Messages)
  BY SilentEffect DEF SocketTypes
<1>2. ASSUME NEW i \in 1..Len(wire)
      PROVE  /\ wire[i].status <= statuses'[wire[i].run]
             /\ wire[i].run \notin quiet' => \E j \in i..Len(wire) :
                     wire[j] = [run |-> wire[i].run, status |-> statuses'[wire[i].run]]
  <2>1. wire[i] \in Messages /\ wire[i].status <= statuses[wire[i].run]
    BY <1>1, Indexed DEF Wired
  <2>2. CASE wire[i].run = r
    <3>1. wire[i].status \in Nat /\ statuses[r] \in Nat /\ statuses'[r] \in Nat /\ statuses[r] < statuses'[r]
      BY <2>1, SilentEffect, WatchAssumption DEF Messages
    <3>2. wire[i].status <= statuses'[r]
      BY <2>1, <2>2, <3>1
    <3> QED BY <1>1, <2>2, <3>2
  <2>3. CASE wire[i].run # r
    <3>1. statuses'[wire[i].run] = statuses[wire[i].run]
      BY <2>1, <2>3, SilentEffect DEF Messages
    <3> QED BY <1>1, <2>1, <3>1 DEF Wired, Now
  <2> QED BY <2>2, <2>3
<1> QED BY <1>1, <1>2 DEF Wired, Now

LEMMA WiredKept ==
  ASSUME SocketTypes, Wired, WatchNext
  PROVE  Wired'
<1> USE DEF runVars, notifierVars
<1>1. ASSUME NEW r \in Runs, Make(r) PROVE Wired'
  <2>1. wire' = wire /\ conn' = conn /\ quiet' = quiet
    BY <1>1 DEF Make
  <2>2. \A i \in 1..Len(wire) : statuses'[wire[i].run] = statuses[wire[i].run]
    BY <1>1, NothingOfUnmade, MakeEffect DEF Messages
  <2> QED BY <2>1, <2>2 DEF Wired, Now
<1>2. CASE Deliver
  <2>1. wire \in Seq(Messages) /\ wire # <<>> /\ wire' = Tail(wire) /\ conn' = conn /\ statuses' = statuses
        /\ conn = "up" /\ quiet' = quiet
    BY <1>2 DEF Deliver, SocketTypes
  <2>2. /\ Len(wire') = Len(wire) - 1 /\ Len(wire) \in Nat \ {0}
        /\ \A i \in 1..Len(wire) - 1 : wire'[i] = wire[i + 1]
    BY <2>1, Shortened
  <2>3. ASSUME NEW i \in 1..Len(wire')
        PROVE  /\ wire'[i].status <= statuses'[wire'[i].run]
               /\ wire'[i].run \notin quiet' => \E j \in i..Len(wire') :
                     wire'[j] = [run |-> wire'[i].run, status |-> statuses'[wire'[i].run]]
    <3>1. i + 1 \in 1..Len(wire) /\ wire'[i] = wire[i + 1]
      BY <2>2
    <3>2. wire[i + 1].status <= statuses[wire[i + 1].run]
      BY <3>1 DEF Wired
    <3>3. ASSUME wire[i + 1].run \notin quiet
          PROVE  \E j \in i..Len(wire') : wire'[j] = Now(wire[i + 1].run)
      <4>1. PICK j \in (i + 1)..Len(wire) : wire[j] = Now(wire[i + 1].run)
        BY <3>1, <3>3 DEF Wired
      <4>2. j - 1 \in i..Len(wire') /\ j - 1 \in 1..Len(wire) - 1 /\ (j - 1) + 1 = j
        BY <2>2, <3>1, <4>1
      <4>3. wire'[j - 1] = wire[j]
        BY <2>2, <4>2
      <4> QED BY <4>1, <4>2, <4>3
    <3> QED BY <2>1, <3>1, <3>2, <3>3 DEF Now
  <2> QED BY <2>1, <2>3 DEF Wired, Now
<1>3. CASE LoseConnection
  <2>1. wire' = <<>>
    BY <1>3 DEF LoseConnection
  <2> QED BY <2>1, EmptyIs DEF Wired
<1>4. CASE HealthCheck \/ Reconnect \/ GhostEnds
  BY <1>4, WiredStays DEF HealthCheck, Reconnect, GhostEnds
<1>5. ASSUME NEW w \in Watchers, SocketSteps(w) \/ ClientDrops(w) PROVE Wired'
  BY <1>5, SocketEffect, WiredStays
<1> QED BY <1>1, <1>2, <1>3, <1>4, <1>5, AdvancingKeepsWired, SilenceKeepsWired DEF WatchNext

-----------------------------------------------------------------------------
(* The sockets that subscribe before they read *)

LEMMA FirstHearsItsRun ==
  ASSUME NEW w \in Watchers \ Early
  PROVE  Row(w) = RunOf[w] /\ RunOf[w] \in Runs /\ \A r : Hears(w, r) <=> RunOf[w] = r
  BY WatchAssumption DEF Row, Hears

LEMMA FollowsStays ==
  ASSUME NEW w \in Watchers, Follows(w), UNCHANGED <<statuses, quiet, wire>>, pc'[w] = pc[w],
         told'[w] = told[w], queue'[w] = queue[w], w \in deaf' <=> w \in deaf,
         Hearing(w) => conn' = conn
  PROVE  Follows(w)'
<1>1. Hearing(w)' <=> Hearing(w)
  BY DEF Hearing, Subscribed
<1>2. Now(RunOf[w])' = Now(RunOf[w]) /\ (Coming(RunOf[w])' <=> Coming(RunOf[w]))
  BY DEF Now, Coming
<1>3. Hearing(w)' => Heard(w)'
  BY <1>1, <1>2 DEF Follows, Heard
<1>4. Queued(w)'
  BY DEF Follows, Queued
<1> QED BY <1>3, <1>4 DEF Follows

(* A socket that has left its subscription.                                *)
LEMMA FollowsNothing ==
  ASSUME NEW w \in Watchers, Queued(w) \/ queue'[w] = <<>>, statuses' = statuses,
         queue'[w] = queue[w] \/ queue'[w] = <<>>, SocketTypes,
         pc' = [pc EXCEPT ![w] = "connecting"] \/ (pc' = [pc EXCEPT ![w] = "told"] /\ statuses[RunOf[w]] = Last)
  PROVE  Follows(w)'
<1>1. pc'[w] = "connecting" \/ (pc'[w] = "told" /\ statuses'[RunOf[w]] = Last)
  BY DEF SocketTypes
<1>2. ~Hearing(w)'
  BY <1>1 DEF Hearing, Subscribed
<1>3. Queued(w)'
  <2>1. CASE queue'[w] = <<>>
    BY <2>1, EmptyIs DEF Queued
  <2>2. CASE queue'[w] # <<>>
    BY <2>2 DEF Queued
  <2> QED BY <2>1, <2>2
<1> QED BY <1>1, <1>2, <1>3 DEF Follows

LEMMA AdvancingFollows ==
  ASSUME SocketTypes, Wired, NEW w \in Watchers \ Early, Follows(w), NEW r \in Runs, Advance(r)
  PROVE  Follows(w)'
<1>1. UNCHANGED <<conn, pc, told, queue, deaf>> /\ quiet' = quiet \ {r}
  BY DEF Advance
<1>2. CASE r = RunOf[w]
  <2>1. statuses[r] \in 1..(Last - 1) /\ statuses'[r] = statuses[r] + 1
    BY AdvanceEffect
  <2>2. pc'[w] # "told"
    BY <1>1, <1>2, <2>1, WatchAssumption DEF Follows
  <2>3. Queued(w)'
    <3>1. \A i \in 1..Len(queue[w]) : queue[w][i].status \in Nat
      <4>1. queue[w] \in Seq(Messages)
        BY DEF SocketTypes
      <4>2. \A i \in 1..Len(queue[w]) : queue[w][i] \in Messages
        BY <4>1, Indexed
      <4> QED BY <4>2, WatchAssumption DEF Messages
    <3> QED BY SMTT(30), <1>1, <1>2, <2>1, <3>1, WatchAssumption DEF Follows, Queued
  <2>4. conn = "up" => Coming(r)'
    <3> SUFFICES ASSUME conn = "up" PROVE Coming(r)'
      OBVIOUS
    <3> PICK m \in Messages : m = Now(r)'
      BY AdvanceEffect
    <3>1. wire' = Append(wire, m) /\ wire \in Seq(Messages)
      BY AdvanceEffect DEF SocketTypes
    <3>2. Len(wire') = Len(wire) + 1 /\ Len(wire) \in Nat /\ wire'[Len(wire) + 1] = m
      BY <3>1, Appended
    <3> QED BY <3>2 DEF Coming, Now
  <2>5. Hearing(w)' => Heard(w)'
    BY <1>1, <1>2, <2>4 DEF Follows, Hearing, Subscribed, Heard
  <2> QED BY <2>2, <2>3, <2>5 DEF Follows
<1>3. CASE r # RunOf[w]
  <2>1. statuses'[RunOf[w]] = statuses[RunOf[w]]
    BY <1>3, AdvanceEffect, FirstHearsItsRun
  <2>2. Now(RunOf[w])' = Now(RunOf[w])
    BY <2>1 DEF Now
  <2>3. Coming(RunOf[w]) => Coming(RunOf[w])'
    <3> SUFFICES ASSUME Coming(RunOf[w]) PROVE Coming(RunOf[w])'
      OBVIOUS
    <3> PICK m \in Messages : m = Now(r)'
      BY AdvanceEffect
    <3>1. wire' = Append(wire, m) \/ wire' = wire
      BY AdvanceEffect
    <3>2. wire \in Seq(Messages)
      BY DEF SocketTypes
    <3>3. Len(Append(wire, m)) = Len(wire) + 1 /\ Len(wire) \in Nat
          /\ \A i \in 1..Len(wire) : Append(wire, m)[i] = wire[i]
      BY <3>2, Appended
    <3>4. PICK i \in 1..Len(wire) : wire[i] = Now(RunOf[w])
      BY DEF Coming
    <3>5. i \in 1..Len(wire') /\ wire'[i] = wire[i]
      BY <3>1, <3>3
    <3> QED BY <2>2, <3>4, <3>5 DEF Coming
  <2>4. Hearing(w)' => Heard(w)'
    <3>1. Hearing(w)' => Heard(w)
      BY <1>1 DEF Follows, Hearing, Subscribed
    <3>2. RunOf[w] \in quiet' <=> RunOf[w] \in quiet
      BY <1>1, <1>3
    <3> QED BY <1>1, <2>2, <2>3, <3>1, <3>2 DEF Heard
  <2>5. Queued(w)'
    BY <1>1, <2>1 DEF Follows, Queued
  <2> QED BY <1>1, <2>1, <2>4, <2>5 DEF Follows
<1> QED BY <1>2, <1>3

LEMMA SilenceFollows ==
  ASSUME SocketTypes, NEW w \in Watchers \ Early, Follows(w), NEW r \in Runs, AdvanceSilently(r)
  PROVE  Follows(w)'
<1>1. UNCHANGED <<wire, conn, pc, told, queue, deaf>> /\ quiet' = quiet \cup {r}
  BY SilentEffect
<1>2. Hearing(w)' => Heard(w)
  BY <1>1 DEF Hearing, Subscribed, Follows
<1>3. CASE r = RunOf[w]
  <2>1. statuses[r] \in 1..(Last - 1) /\ statuses'[r] \in 1..Last /\ statuses[r] < statuses'[r]
    BY SilentEffect
  <2>2. pc'[w] # "told"
    BY <1>1, <1>3, <2>1, WatchAssumption DEF Follows
  <2>3. Queued(w)'
    <3>1. \A i \in 1..Len(queue[w]) : queue[w][i].status \in Nat
      <4>1. queue[w] \in Seq(Messages)
        BY DEF SocketTypes
      <4>2. \A i \in 1..Len(queue[w]) : queue[w][i] \in Messages
        BY <4>1, Indexed
      <4> QED BY <4>2, WatchAssumption DEF Messages
    <3> QED BY SMTT(30), <1>1, <1>3, <2>1, <3>1, WatchAssumption DEF Follows, Queued
  <2>4. Hearing(w)' => Heard(w)'
    BY <1>1, <1>2, <1>3 DEF Heard
  <2> QED BY <2>2, <2>3, <2>4 DEF Follows
<1>4. CASE r # RunOf[w]
  <2>1. statuses'[RunOf[w]] = statuses[RunOf[w]]
    BY <1>4, SilentEffect, FirstHearsItsRun
  <2>2. Now(RunOf[w])' = Now(RunOf[w]) /\ (Coming(RunOf[w])' <=> Coming(RunOf[w]))
    BY <1>1, <2>1 DEF Now, Coming
  <2>3. Hearing(w)' => Heard(w)'
    BY <1>1, <1>2, <1>4, <2>2 DEF Heard
  <2>4. Queued(w)'
    BY <1>1, <2>1 DEF Follows, Queued
  <2> QED BY <1>1, <2>1, <2>3, <2>4 DEF Follows
<1> QED BY <1>3, <1>4

LEMMA DeliveringFollows ==
  ASSUME SocketTypes, Wired, NEW w \in Watchers \ Early, Follows(w), Deliver
  PROVE  Follows(w)'
<1> DEFINE m == Head(wire)
           full == {v \in Subscribed : Hears(v, m.run) /\ Len(queue[v]) >= QueueMax}
<1>1. /\ UNCHANGED <<statuses, quiet, conn, pc, told>> /\ deaf' = deaf \cup full
      /\ queue'[w] = IF w \in Subscribed \ full /\ Hears(w, m.run)
                     THEN Append(queue[w], m) ELSE queue[w]
  BY DeliverEffect DEF Deliver, runVars
<1>2. wire \in Seq(Messages) /\ wire # <<>> /\ wire' = Tail(wire) /\ m \in Messages
      /\ queue[w] \in Seq(Messages)
  BY DeliverEffect DEF SocketTypes
<1>3. /\ Len(wire') = Len(wire) - 1 /\ Len(wire) \in Nat \ {0} /\ m = wire[1]
      /\ \A i \in 1..Len(wire) - 1 : wire'[i] = wire[i + 1]
  BY <1>2, Shortened
<1>4. Now(RunOf[w])' = Now(RunOf[w])
  BY <1>1 DEF Now
<1> HIDE DEF m, full
<1>5. Coming(RunOf[w]) => m = Now(RunOf[w]) \/ Coming(RunOf[w])'
  <2> SUFFICES ASSUME Coming(RunOf[w]), m # Now(RunOf[w]) PROVE Coming(RunOf[w])'
    OBVIOUS
  <2>1. PICK j \in 1..Len(wire) : wire[j] = Now(RunOf[w])
    BY DEF Coming
  <2>2. j # 1
    BY <1>3, <2>1
  <2>3. j - 1 \in 1..Len(wire') /\ j - 1 \in 1..Len(wire) - 1 /\ (j - 1) + 1 = j
    BY <1>3, <2>1, <2>2
  <2>4. wire'[j - 1] = wire[j]
    BY <1>3, <2>3
  <2> QED BY <1>4, <2>1, <2>3, <2>4 DEF Coming
<1>6. CASE w \in Subscribed \ full /\ Hears(w, m.run)
  <2>1. queue'[w] = Append(queue[w], m) /\ m.run = RunOf[w]
    BY <1>1, <1>6, FirstHearsItsRun
  <2>2. /\ Len(queue'[w]) = Len(queue[w]) + 1 /\ Len(queue[w]) \in Nat
        /\ \A i \in 1..Len(queue[w]) : queue'[w][i] = queue[w][i]
        /\ queue'[w][Len(queue[w]) + 1] = m /\ queue'[w] # <<>>
    <3>1. /\ Len(Append(queue[w], m)) = Len(queue[w]) + 1 /\ Len(queue[w]) \in Nat
          /\ \A i \in 1..Len(queue[w]) : Append(queue[w], m)[i] = queue[w][i]
          /\ Append(queue[w], m)[Len(queue[w]) + 1] = m /\ Append(queue[w], m) # <<>>
      BY <1>2, Appended
    <3> QED BY <2>1, <3>1
  <2>3. m.status <= statuses[RunOf[w]]
    BY <1>3, <2>1 DEF Wired
  <2>4. Queued(w)'
    BY <1>1, <2>1, <2>2, <2>3 DEF Follows, Queued
  <2>5. RunOf[w] \notin quiet => m = Now(RunOf[w]) \/ Coming(RunOf[w])'
    <3> SUFFICES ASSUME RunOf[w] \notin quiet PROVE m = Now(RunOf[w]) \/ Coming(RunOf[w])'
      OBVIOUS
    <3>1. PICK j \in 1..Len(wire) : wire[j] = Now(wire[1].run)
      <4>1. 1 \in 1..Len(wire)
        BY <1>3
      <4> QED BY <1>3, <2>1, <4>1 DEF Wired
    <3>2. Coming(RunOf[w])
      BY <1>3, <2>1, <3>1 DEF Coming
    <3> QED BY <1>5, <3>2
  <2>6. Hearing(w)' => Heard(w)'
    <3>1. Hearing(w)' => conn = "up"
      BY <1>1, <1>6 DEF Follows, Hearing, Subscribed, Heard
    <3> QED BY <1>1, <1>4, <2>2, <2>5, <3>1 DEF Heard
  <2> QED BY <1>1, <2>4, <2>6 DEF Follows
<1>7. CASE w \in full \/ w \notin Subscribed
  <2>1. ~Hearing(w)'
    BY <1>1, <1>7 DEF Hearing, Subscribed
  <2>2. queue'[w] = queue[w]
    BY <1>1, <1>7
  <2>3. Queued(w)'
    BY <1>1, <2>2 DEF Follows, Queued
  <2> QED BY <1>1, <2>1, <2>3 DEF Follows
<1>8. CASE ~Hears(w, m.run)
  <2>1. queue'[w] = queue[w] /\ m # Now(RunOf[w])
    BY <1>1, <1>8, FirstHearsItsRun DEF Now
  <2>2. Queued(w)'
    BY <1>1, <2>1 DEF Follows, Queued
  <2>3. Hearing(w)' => Hearing(w)
    BY <1>1 DEF Hearing, Subscribed
  <2>4. Hearing(w)' => Heard(w)'
    BY <1>1, <1>4, <1>5, <2>1, <2>3 DEF Follows, Heard
  <2> QED BY <1>1, <2>2, <2>4 DEF Follows
<1> QED BY <1>6, <1>7, <1>8

LEMMA SocketFollows ==
  ASSUME SocketTypes, Wired, NEW w \in Watchers \ Early, Follows(w), SocketSteps(w) \/ ClientDrops(w)
  PROVE  Follows(w)'
<1> USE DEF runVars, notifierVars
<1>1. UNCHANGED <<statuses, quiet, wire, conn>>
  BY SocketEffect
<1>2. Queued(w)
  BY DEF Follows
<1>3. queue \in [Watchers -> Seq(Messages)] /\ queue[w] \in Seq(Messages)
  BY DEF SocketTypes
<1>4. CASE SubscribesFirst(w)
  <2>1. CASE count >= Limit
    <3>1. pc' = [pc EXCEPT ![w] = "connecting"] /\ queue' = queue
      BY <1>4, <2>1 DEF SubscribesFirst, Subscribe
    <3> QED BY <1>1, <1>2, <3>1, FollowsNothing
  <2>2. CASE ~(count >= Limit)
    <3>1. /\ pc' = [pc EXCEPT ![w] = "subscribed"] /\ queue' = [queue EXCEPT ![w] = <<>>]
          /\ deaf' = IF conn = "up" THEN deaf ELSE deaf \cup {w}
      BY <1>4, <2>2 DEF SubscribesFirst, Subscribe
    <3>2. pc'[w] = "subscribed" /\ queue'[w] = <<>>
      BY <1>3, <3>1 DEF SocketTypes
    <3>3. Queued(w)'
      BY <3>2, EmptyIs DEF Queued
    <3>4. Hearing(w)' => Heard(w)'
      BY <1>1, <3>1, <3>2 DEF Hearing, Heard
    <3> QED BY <3>2, <3>3, <3>4 DEF Follows
  <2> QED BY <2>1, <2>2
<1>5. CASE Rereads(w)
  <2>1. Row(w) = RunOf[w]
    BY FirstHearsItsRun
  <2>2. CASE statuses[RunOf[w]] = Last
    <3>1. pc' = [pc EXCEPT ![w] = "told"] /\ queue' = [queue EXCEPT ![w] = <<>>]
      BY <1>5, <2>1, <2>2 DEF Rereads, Unsubscribe
    <3>2. queue'[w] = <<>>
      BY <1>3, <3>1
    <3> QED BY <1>1, <2>2, <3>1, <3>2, FollowsNothing
  <2>3. CASE statuses[RunOf[w]] # Last
    <3>1. /\ pc[w] = "subscribed" /\ pc' = [pc EXCEPT ![w] = "open"] /\ UNCHANGED <<queue, deaf>>
          /\ told' = [told EXCEPT ![w] = RowOf(w)]
      BY <1>5, <2>1, <2>3 DEF Rereads, Tells
    <3>2. pc'[w] = "open" /\ told'[w] = Now(RunOf[w])
      BY <2>1, <3>1 DEF SocketTypes, RowOf, Now
    <3>3. Queued(w)'
      BY <1>1, <1>2, <3>1 DEF Queued
    <3>4. Hearing(w)' => Hearing(w)
      BY <3>1 DEF Hearing, Subscribed
    <3>5. Now(RunOf[w])' = Now(RunOf[w]) /\ (Coming(RunOf[w])' <=> Coming(RunOf[w]))
      BY <1>1 DEF Now, Coming
    <3>6. Hearing(w)' => Heard(w)'
      BY <1>1, <3>1, <3>2, <3>4, <3>5 DEF Follows, Heard
    <3> QED BY <3>2, <3>3, <3>6 DEF Follows
  <2> QED BY <2>2, <2>3
<1>6. CASE Forwards(w)
  <2>1. pc[w] = "open" /\ queue[w] # <<>> /\ told' = [told EXCEPT ![w] = Head(queue[w])]
    BY <1>6 DEF Forwards, Tells
  <2>2. /\ Len(Tail(queue[w])) = Len(queue[w]) - 1 /\ Len(queue[w]) \in Nat \ {0}
        /\ \A i \in 1..Len(queue[w]) - 1 : Tail(queue[w])[i] = queue[w][i + 1]
        /\ Head(queue[w]) = queue[w][1] /\ Head(queue[w]) \in Messages
        /\ Tail(queue[w]) \in Seq(Messages)
    BY <1>3, <2>1, Shortened
  <2>3. queue[w][1].run = RunOf[w] /\ queue[w][1].status <= statuses[RunOf[w]]
    <3>1. 1 \in 1..Len(queue[w])
      BY <2>2
    <3> QED BY <1>2, <3>1 DEF Queued
  <2>4. CASE Head(queue[w]).status = Last
    <3>1. pc' = [pc EXCEPT ![w] = "told"] /\ queue' = [queue EXCEPT ![w] = <<>>]
      BY <1>6, <2>4 DEF Forwards, Unsubscribe
    <3>2. statuses[RunOf[w]] \in 0..Last /\ Last <= statuses[RunOf[w]]
      BY <2>2, <2>3, <2>4, FirstHearsItsRun DEF SocketTypes
    <3>3. statuses[RunOf[w]] = Last
      BY <3>2, WatchAssumption
    <3>4. queue'[w] = <<>>
      BY <1>3, <3>1
    <3> QED BY <1>1, <3>1, <3>3, <3>4, FollowsNothing
  <2>5. CASE Head(queue[w]).status # Last
    <3>1. queue' = [queue EXCEPT ![w] = Tail(@)] /\ UNCHANGED <<pc, deaf>>
      BY <1>6, <2>5 DEF Forwards
    <3>2. queue'[w] = Tail(queue[w]) /\ told'[w] = queue[w][1] /\ Len(queue'[w]) = Len(queue[w]) - 1
      BY <1>3, <2>1, <2>2, <3>1 DEF SocketTypes
    <3>3. Queued(w)'
      <4>1. ASSUME NEW i \in 1..Len(queue'[w])
            PROVE  queue'[w][i].run = RunOf[w] /\ queue'[w][i].status <= statuses[RunOf[w]]
        <5>1. i \in 1..Len(queue[w]) - 1 /\ i + 1 \in 1..Len(queue[w])
          BY <2>2, <3>2
        <5>2. queue'[w][i] = queue[w][i + 1]
          BY <2>2, <3>2, <5>1
        <5> QED BY <1>2, <5>1, <5>2 DEF Queued
      <4> QED BY <1>1, <4>1 DEF Queued
    <3>4. Hearing(w)' => Heard(w)
      BY <3>1 DEF Hearing, Subscribed, Follows
    <3>5. Now(RunOf[w])' = Now(RunOf[w]) /\ (Coming(RunOf[w])' <=> Coming(RunOf[w]))
      BY <1>1 DEF Now, Coming
    <3>6. Hearing(w)' => Heard(w)'
      <4>0. CASE RunOf[w] \in quiet
        BY <1>1, <3>4, <4>0 DEF Heard
      <4> SUFFICES ASSUME Hearing(w)', RunOf[w] \notin quiet PROVE Heard(w)'
        BY <4>0
      <4>1. queue[w][Len(queue[w])] = Now(RunOf[w]) \/ Coming(RunOf[w])
        BY <2>1, <3>4 DEF Heard
      <4>2. CASE Len(queue[w]) = 1
        <5>1. Len(queue'[w]) = 0 /\ queue'[w] \in Seq(Messages)
          BY <2>2, <3>2, <4>2
        <5>2. queue'[w] = <<>>
          BY <5>1
        <5> QED BY <1>1, <3>2, <3>4, <3>5, <4>1, <4>2, <5>2 DEF Heard
      <4>3. CASE Len(queue[w]) # 1
        <5>1. /\ Len(queue'[w]) \in 1..Len(queue[w]) - 1
              /\ Len(queue'[w]) + 1 = Len(queue[w])
          <6>1. \A n \in Nat \ {0} : n # 1 => n - 1 \in 1..n - 1 /\ (n - 1) + 1 = n
            OBVIOUS
          <6>2. Len(queue[w]) \in Nat \ {0} /\ Len(queue'[w]) = Len(queue[w]) - 1
            BY <2>2, <3>2
          <6> QED BY <4>3, <6>1, <6>2
        <5>2. queue'[w][Len(queue'[w])] = queue[w][Len(queue[w])]
          BY <2>2, <3>2, <5>1
        <5>3. queue'[w] # <<>>
          BY <5>1, EmptyIs
        <5> QED BY <1>1, <3>4, <3>5, <4>1, <5>2, <5>3 DEF Heard
      <4> QED BY <4>2, <4>3
    <3>7. pc'[w] = "open"
      BY <2>1, <3>1
    <3> QED BY <3>3, <3>6, <3>7 DEF Follows
  <2> QED BY <2>4, <2>5
<1>7. CASE TimesOut(w) \/ ClientDrops(w)
  <2>1. pc' = [pc EXCEPT ![w] = "connecting"] /\ queue' = [queue EXCEPT ![w] = <<>>]
    BY <1>7 DEF TimesOut, Unsubscribe, ClientDrops
  <2>2. queue'[w] = <<>>
    BY <1>3, <2>1
  <2> QED BY <1>1, <2>1, <2>2, FollowsNothing
<1> QED BY <1>4, <1>5, <1>6, <1>7 DEF SocketSteps, ReadsRow, SubscribesAfter

LEMMA FollowsKept ==
  ASSUME SocketTypes, Wired, NEW w \in Watchers \ Early, Follows(w), WatchNext
  PROVE  Follows(w)'
<1> USE DEF runVars, notifierVars
<1>1. ASSUME NEW r \in Runs, Make(r) PROVE Follows(w)'
  <2>1. r # RunOf[w]
    BY <1>1, MakeEffect DEF SocketTypes
  <2>2. statuses'[RunOf[w]] = statuses[RunOf[w]] /\ UNCHANGED <<quiet, wire, conn, pc, told, queue, deaf>>
    BY <1>1, <2>1, MakeEffect, FirstHearsItsRun DEF Make
  <2>3. Now(RunOf[w])' = Now(RunOf[w]) /\ (Coming(RunOf[w])' <=> Coming(RunOf[w]))
    BY <2>2 DEF Now, Coming
  <2>4. Hearing(w)' => Heard(w)'
    BY <2>2, <2>3 DEF Follows, Hearing, Subscribed, Heard
  <2> QED BY <2>2, <2>4 DEF Follows, Queued
<1>2. CASE LoseConnection
  <2>1. UNCHANGED <<statuses, pc, queue>> /\ deaf' = deaf \cup Subscribed
    BY <1>2 DEF LoseConnection
  <2>2. ~Hearing(w)'
    BY <2>1 DEF Hearing, Subscribed
  <2> QED BY <2>1, <2>2 DEF Follows, Queued
<1>3. CASE HealthCheck \/ Reconnect \/ GhostEnds
  <2>1. UNCHANGED <<statuses, quiet, wire, pc, told, queue, deaf>> /\ (conn' = conn \/ conn # "up")
    BY <1>3 DEF HealthCheck, Reconnect, GhostEnds
  <2>2. Hearing(w) => conn' = conn
    BY <2>1 DEF Follows, Heard
  <2> QED BY <2>1, <2>2, FollowsStays
<1>4. ASSUME NEW v \in Watchers, v # w, SocketSteps(v) \/ ClientDrops(v) PROVE Follows(w)'
  <2>1. UNCHANGED <<statuses, quiet, wire, conn>> /\ pc'[w] = pc[w] /\ told'[w] = told[w]
        /\ queue'[w] = queue[w] /\ (w \in deaf' <=> w \in deaf)
    BY <1>4, SocketEffect
  <2> QED BY <2>1, FollowsStays
<1> QED BY <1>1, <1>2, <1>3, <1>4, AdvancingFollows, SilenceFollows, DeliveringFollows,
       SocketFollows DEF WatchNext

-----------------------------------------------------------------------------
(* The invariant and the theorems *)

LEMMA WatchInvHoldsAtFirst == WatchInit => WatchInv
<1> SUFFICES ASSUME WatchInit PROVE WatchInv
  OBVIOUS
<1>1. \A w \in Watchers : RunOf[w] \in Asked /\ RunOf[w] \in Runs /\ queue[w] = <<>> /\ pc[w] = "connecting"
  BY WatchAssumption DEF WatchInit, Asked
<1>2. wire = <<>> /\ <<>> \in Seq(Messages) /\ Len(<<>>) = 0 /\ conn = "up"
  BY EmptyIs DEF WatchInit
<1>3. SocketTypes
  <2>1. statuses \in [Runs -> 0..Last] /\ \A w \in Watchers : statuses[RunOf[w]] # 0
    BY <1>1, WatchAssumption DEF WatchInit
  <2>2. latest \in Runs
    BY WatchAssumption DEF WatchInit, Asked
  <2>3. told \in [Watchers -> [run : Runs, status : 0..Last]]
    BY <1>1, WatchAssumption DEF WatchInit, Untold
  <2>4. queue \in [Watchers -> Seq(Messages)] /\ \A w \in Watchers : Len(queue[w]) <= QueueMax
    BY <1>1, <1>2, WatchAssumption DEF WatchInit
  <2> QED BY <1>2, <2>1, <2>2, <2>3, <2>4 DEF SocketTypes, WatchInit
<1>4. Counted
  <2>1. Subscribed = {}
    BY <1>1 DEF Subscribed
  <2>2. Cardinality(Subscribed) = 0
    BY <2>1, FS_EmptySet
  <2> QED BY <2>2, WatchAssumption DEF Counted, WatchInit
<1>5. Wired
  BY <1>2 DEF Wired
<1>6. \A w \in Watchers : Follows(w)
  BY <1>1, <1>2 DEF Follows, Queued, Hearing, Subscribed
<1> QED BY <1>3, <1>4, <1>5, <1>6 DEF WatchInv

LEMMA WatchInvIsKept ==
  ASSUME WatchInv, [WatchNext]_watchVars
  PROVE  WatchInv'
<1>1. CASE WatchNext
  BY <1>1, SocketTypesKept, CountedKept, WiredKept, FollowsKept DEF WatchInv
<1>2. CASE UNCHANGED watchVars
  <2> USE DEF watchVars, runVars, notifierVars
  <2>1. SocketTypes' /\ Counted' /\ Wired'
    BY <1>2 DEF WatchInv, SocketTypes, Counted, Subscribed, Wired, Now
  <2>2. \A w \in Watchers \ Early : Follows(w)'
    BY <1>2, FollowsStays DEF WatchInv
  <2> QED BY <2>1, <2>2 DEF WatchInv
<1> QED BY <1>1, <1>2

THEOREM WatchInvHolds == WatchSpec => []WatchInv
<1>1. WatchInv /\ [WatchNext]_watchVars => WatchInv'
  BY WatchInvIsKept
<1> QED BY <1>1, WatchInvHoldsAtFirst, PTL DEF WatchSpec

THEOREM CountsAreExact == WatchSpec => []CountIsExact
<1>1. WatchInv => CountIsExact
  BY DEF WatchInv, SocketTypes, Counted, CountIsExact, WatchTypeOK
<1> QED BY <1>1, WatchInvHolds, PTL

THEOREM NothingIsMissed == WatchSpec => []NothingMissed
<1>1. WatchInv => NothingMissed
  <2> SUFFICES ASSUME WatchInv, NEW w \in Watchers \ Early
               PROVE  /\ pc[w] = "open" /\ w \notin deaf /\ RunOf[w] \notin quiet =>
                            told[w] = Now(RunOf[w])
                            \/ \E i \in 1..Len(queue[w] \o wire) : (queue[w] \o wire)[i] = Now(RunOf[w])
                      /\ pc[w] = "told" => statuses[RunOf[w]] = Last
    BY DEF NothingMissed, Now
  <2>1. Follows(w) /\ queue[w] \in Seq(Messages) /\ wire \in Seq(Messages)
    BY DEF WatchInv, SocketTypes
  <2>2. /\ Len(queue[w] \o wire) = Len(queue[w]) + Len(wire)
        /\ Len(queue[w]) \in Nat /\ Len(wire) \in Nat
        /\ \A i \in 1..Len(queue[w]) : (queue[w] \o wire)[i] = queue[w][i]
        /\ \A i \in 1..Len(wire) : (queue[w] \o wire)[Len(queue[w]) + i] = wire[i]
    BY <2>1
  <2>3. ASSUME pc[w] = "open", w \notin deaf, RunOf[w] \notin quiet, told[w] # Now(RunOf[w])
        PROVE  \E i \in 1..Len(queue[w] \o wire) : (queue[w] \o wire)[i] = Now(RunOf[w])
    <3>1. Heard(w)
      BY <2>1, <2>3 DEF Follows, Hearing, Subscribed
    <3>2. CASE Coming(RunOf[w])
      <4>1. PICK i \in 1..Len(wire) : wire[i] = Now(RunOf[w])
        BY <3>2 DEF Coming
      <4>2. Len(queue[w]) + i \in 1..Len(queue[w] \o wire)
        BY <2>2
      <4> QED BY <2>2, <4>1, <4>2
    <3>3. CASE queue[w] # <<>> /\ queue[w][Len(queue[w])] = Now(RunOf[w])
      <4>1. Len(queue[w]) \in 1..Len(queue[w]) /\ Len(queue[w]) \in 1..Len(queue[w] \o wire)
        BY <2>1, <2>2, <3>3, Indexed
      <4> QED BY <2>2, <3>3, <4>1
    <3> QED BY <2>3, <3>1, <3>2, <3>3 DEF Heard
  <2> QED BY <2>1, <2>3 DEF Follows
<1> QED BY <1>1, WatchInvHolds, PTL
============================================================================
