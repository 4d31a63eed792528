---------------------------- MODULE SharedProofs ----------------------------
(***************************************************************************)
(* Theorems about the two resources all lanes share: a host's slots        *)
(* (HostSlots), for any number of scrapes, any limit and any durations     *)
(* that keep their order, and the bytes a user holds (Storage), for any    *)
(* objects, rows, passes and reconciliations.                              *)
(***************************************************************************)
EXTENDS HostSlots, Storage, TLAPS, FiniteSetTheorems, WellFoundedInduction

-----------------------------------------------------------------------------
(* The inductive invariant *)

Types ==
    /\ TypeOK
    /\ waited \in [Scrapes -> Nat] /\ delay \in [Scrapes -> 0..PollMax]
    /\ expiry \in Nat /\ last \in Nat

(* The set outlives every lease in it, and has no more of them than the limit. *)
RedisInv ==
    /\ \A s \in Scrapes : lease[s] <= expiry
    /\ IsFiniteSet(Leased) /\ Cardinality(Leased) <= Limit

(* Who has a lease knows it, or a call of its own failed. *)
Holding(s) ==
    /\ s \in held => pc[s] \in {"fetching", "backoff", "releasing"}
    /\ s \in late => s \in troubled
    /\ s \in Leased => s \in held \/ s \in troubled
    /\ pc[s] = "none" => s \notin late /\ s \notin Leased

(* What is left of a scrape: the attempts after its a-th, with their backoffs. *)
Rest(s, a) == (Attempts - a) * (Queue + Run[s] + Backoff)

(* What the margin is worth after a pause and one more ask. *)
Slack == Margin - Answer - PollMax

(* A lease lasts as long as what is left of its scrape, and the margin pays *)
(* for what its workflow slept and asked after Redis had granted it.        *)
LeaseLasts(s) ==
    /\ pc[s] = "sleeping" => timer[s] <= last \/ timer[s] <= PollMax
    /\ pc[s] = "sleeping" /\ s \in Leased =>
         timer[s] <= PollMax /\ lease[s] + PollMax >= LeaseTtl(s) + timer[s]
    /\ pc[s] = "asking" => timer[s] <= Answer
    /\ pc[s] = "asking" /\ s \in Leased =>
         lease[s] + PollMax + Answer >= LeaseTtl(s) + timer[s]
    /\ pc[s] = "fetching" => attempt[s] \in 1..Attempts
    /\ pc[s] = "fetching" /\ s \in held => lease[s] >= timer[s] + Rest(s, attempt[s]) + Slack
    /\ pc[s] = "backoff" => attempt[s] \in 1..(Attempts - 1)
    /\ pc[s] = "backoff" /\ s \in held =>
         lease[s] >= timer[s] + Queue + Run[s] + Rest(s, attempt[s] + 1) + Slack

(* Waiting never goes past the cap and one ask. *)
WaitBounded(s) ==
    /\ pc[s] = "sleeping" => waited[s] + timer[s] <= WaitCap
    /\ pc[s] = "asking" => waited[s] + timer[s] <= WaitCap + Answer
    /\ pc[s] \notin {"asking", "sleeping"} => waited[s] = 0

ScrapeInv(s) == Holding(s) /\ LeaseLasts(s) /\ WaitBounded(s)

HostInv == Types /\ RedisInv /\ \A s \in Scrapes : ScrapeInv(s)

-----------------------------------------------------------------------------
(* Least and greatest *)

LEMMA DurationTypes ==
  /\ Attempts \in Nat /\ Queue \in Nat /\ Backoff \in Nat /\ Margin \in Nat /\ Answer \in Nat
  /\ Limit \in Nat /\ Interval \in Nat /\ BusyPoll \in Nat /\ PollMax \in Nat /\ WaitCap \in Nat
  /\ Attempts > 0 /\ Answer > 0 /\ Answer + PollMax < Margin
  /\ 0 < BusyPoll /\ BusyPoll <= PollMax /\ MaxPerils \in Nat
  /\ \A s \in Scrapes : Run[s] \in Nat
BY DurationsAssumption

LEMMA LeastIs ==
  ASSUME NEW a \in Nat, NEW b \in Nat
  PROVE  Least(a, b) = IF a <= b THEN a ELSE b
BY DEF Least, Min

LEMMA MostIs ==
  ASSUME NEW a \in Nat, NEW b \in Nat
  PROVE  Most(a, b) = IF a <= b THEN b ELSE a
BY DEF Most, Max

LEMMA LeastNat ==
  ASSUME NEW T \in SUBSET Nat, T # {}
  PROVE  \E x \in T : \A y \in T : x <= y
<1> DEFINE R == OpToRel(<, Nat)
<1>1. IsWellFoundedOn(R, Nat)
  BY NatLessThanWellFounded
<1>2. \A x, y \in Nat : y < x => <<y, x>> \in R
  BY DEF OpToRel
<1> HIDE DEF R
<1>3. PICK x \in T : \A y \in T : ~ (<<y, x>> \in R)
  BY <1>1, WFMin
<1>4. \A y \in T : x \in Nat /\ y \in Nat /\ ~ (y < x)
  BY <1>2, <1>3
<1> QED BY <1>4

(* A set of naturals that is bounded has its maximum. *)
LEMMA MaxIs ==
  ASSUME NEW S \in SUBSET Nat, S # {}, NEW b \in Nat, \A x \in S : x <= b
  PROVE  Max(S) \in S /\ \A x \in S : x <= Max(S)
<1> DEFINE U == {n \in Nat : \A x \in S : x <= n}
<1>1. PICK m \in U : \A n \in U : m <= n
  <2>1. U \in SUBSET Nat /\ b \in U
    OBVIOUS
  <2> HIDE DEF U
  <2> QED BY <2>1, LeastNat
<1>2. m \in Nat /\ (\A x \in S : x \in Nat /\ x <= m)
  BY <1>1
<1>3. m \in S
  <2> SUFFICES ASSUME m \notin S PROVE FALSE
    OBVIOUS
  <2>1. \A x \in S : x <= m - 1
    BY <1>2
  <2>2. m - 1 \in Nat
    <3>1. PICK x \in S : TRUE
      OBVIOUS
    <3>2. x \in Nat /\ x <= m - 1
      BY <2>1, <3>1, <1>2
    <3> QED BY <3>2, <1>2
  <2>3. m - 1 \in U
    BY <2>1, <2>2
  <2> QED BY <2>3, <1>1, <1>2
<1>4. \A x \in S : m >= x
  BY <1>2
<1> QED BY <1>2, <1>3, <1>4 DEF Max

(* The length of a scrape, attempt by attempt. *)
LEMMA RestSteps ==
  ASSUME NEW s \in Scrapes
  PROVE  /\ LeaseTtl(s) \in Nat /\ LeaseTtl(s) = Queue + Run[s] + Rest(s, 1) + Margin
         /\ \A a \in 1..Attempts : Rest(s, a) \in Nat
         /\ \A a \in 1..(Attempts - 1) : Rest(s, a) = Queue + Run[s] + Backoff + Rest(s, a + 1)
<1> USE DurationTypes
<1>1. \A a \in 1..Attempts : Rest(s, a) \in Nat
  <2>1. \A n \in Nat, k \in Nat : n * k \in Nat
    OBVIOUS
  <2>2. \A a \in 1..Attempts : Attempts - a \in Nat
    OBVIOUS
  <2>3. Queue + Run[s] + Backoff \in Nat
    OBVIOUS
  <2> QED BY <2>1, <2>2, <2>3 DEF Rest
<1>2. \A a \in 1..(Attempts - 1) : Rest(s, a) = Queue + Run[s] + Backoff + Rest(s, a + 1)
  <2>1. \A x, k \in Int : x * k = k + (x - 1) * k
    OBVIOUS
  <2> SUFFICES ASSUME NEW a \in 1..(Attempts - 1)
               PROVE  Rest(s, a) = Queue + Run[s] + Backoff + Rest(s, a + 1)
    OBVIOUS
  <2> DEFINE k == Queue + Run[s] + Backoff
             x == Attempts - a
  <2>2. k \in Int /\ x \in Int /\ x - 1 = Attempts - (a + 1)
    OBVIOUS
  <2>3. x * k = k + (x - 1) * k
    BY <2>1, <2>2
  <2> QED BY <2>2, <2>3 DEF Rest
<1>3. LeaseTtl(s) = Queue + Run[s] + Rest(s, 1) + Margin
  BY DEF LeaseTtl, Rest
<1>4. LeaseTtl(s) \in Nat
  <2>1. Rest(s, 1) \in Nat
    BY <1>1
  <2> QED BY <1>3, <2>1
<1> QED BY <1>1, <1>2, <1>3, <1>4

LEMMA SlackPositive == Slack \in Nat /\ Slack > 0 /\ Margin = Slack + Answer + PollMax
BY DurationTypes DEF Slack

-----------------------------------------------------------------------------
LEMMA InitInv == Init => HostInv
<1> SUFFICES ASSUME Init PROVE HostInv
  OBVIOUS
<1> USE DurationTypes
<1>1. Leased = {}
  BY DEF Init, Leased
<1>2. Types
  <2>1. Most(Attempts, 2) \in Nat
    BY MostIs
  <2> QED BY <2>1 DEF Init, Types, TypeOK, Timed
<1>3. RedisInv
  BY <1>1, FS_EmptySet DEF Init, RedisInv
<1>4. ASSUME NEW s \in Scrapes PROVE ScrapeInv(s)
  BY <1>1 DEF Init, ScrapeInv, Holding, LeaseLasts, WaitBounded
<1> QED BY <1>2, <1>3, <1>4 DEF HostInv

-----------------------------------------------------------------------------
(* What a call does in Redis *)

(* The set changes at s alone, and stays a set the limiter allows. *)
RedisStep(s) ==
    /\ lease' \in [Scrapes -> Nat] /\ expiry' \in Nat /\ last' \in Nat
    /\ \A u \in Scrapes : u # s => lease'[u] = lease[u]
    /\ last' = last \/ last = 0
    /\ RedisInv'

LEMMA RedisStays ==
  ASSUME HostInv, UNCHANGED redisVars, NEW s \in Scrapes
  PROVE  RedisStep(s)
BY DEF HostInv, Types, TypeOK, RedisInv, RedisStep, redisVars, Leased

(* An acquire takes nothing over the limit: the slot is free when it does. *)
LEMMA AcquireRedis ==
  ASSUME HostInv, NEW s \in Scrapes, Acquire(s)
  PROVE  /\ RedisStep(s)
         /\ \/ lease'[s] = lease[s] /\ last' = last
            \/ s \notin Leased /\ last = 0 /\ lease'[s] = LeaseTtl(s)
         /\ Reply(s) = 0 => s \in Leased'
<1> USE DurationTypes DEF HostInv, Types, TypeOK
<1>1. LeaseTtl(s) \in Nat /\ LeaseTtl(s) > 0
  <2>1. Rest(s, 1) \in Nat
    BY RestSteps
  <2> QED BY <2>1, RestSteps
<1>2. CASE s \notin Leased /\ Reply(s) = 0
  <2>1. /\ lease' = [lease EXCEPT ![s] = LeaseTtl(s)]
        /\ expiry' = Max({lease'[u] : u \in Scrapes})
        /\ last' = Interval
    BY <1>2 DEF Acquire
  <2>2. Cardinality(Leased) < Limit /\ last = 0
    <3>1. Cardinality(Leased) \in Nat
      BY FS_CardinalityType DEF RedisInv
    <3> QED BY <1>2, <3>1 DEF Reply
  <2>3. Leased' = Leased \cup {s}
    BY <1>1, <2>1 DEF Leased
  <2>4. IsFiniteSet(Leased') /\ Cardinality(Leased') <= Limit
    <3>1. IsFiniteSet(Leased) /\ Cardinality(Leased) \in Nat
      BY FS_CardinalityType DEF RedisInv
    <3>2. Cardinality(Leased \cup {s}) = Cardinality(Leased) + 1
      BY <1>2, <3>1, FS_AddElement
    <3> QED BY <2>2, <2>3, <3>1, <3>2, FS_AddElement
  <2>5. lease' \in [Scrapes -> Nat]
    BY <1>1, <2>1
  <2>6. expiry' \in Nat /\ \A u \in Scrapes : lease'[u] <= expiry'
    <3> DEFINE S == {lease'[u] : u \in Scrapes}
               b == expiry + LeaseTtl(s)
    <3>1. S \in SUBSET Nat /\ S # {}
      BY <2>5
    <3>2. b \in Nat /\ \A x \in S : x <= b
      <4>1. \A u \in Scrapes : lease'[u] <= expiry + LeaseTtl(s)
        BY <1>1, <2>1 DEF RedisInv
      <4> QED BY <1>1, <4>1
    <3>3. \A u \in Scrapes : lease'[u] \in S
      OBVIOUS
    <3> HIDE DEF S, b
    <3>4. Max(S) \in S /\ \A x \in S : x <= Max(S)
      BY <3>1, <3>2, MaxIs
    <3>5. expiry' = Max(S)
      BY <2>1 DEF S
    <3> QED BY <3>1, <3>3, <3>4, <3>5
  <2>7. RedisInv'
    BY <2>4, <2>6 DEF RedisInv
  <2>8. lease'[s] = LeaseTtl(s) /\ \A u \in Scrapes : u # s => lease'[u] = lease[u]
    BY <2>1
  <2>9. s \in Leased'
    BY <2>3
  <2> HIDE DEF HostInv
  <2> QED BY <1>2, <2>1, <2>2, <2>5, <2>6, <2>7, <2>8, <2>9 DEF RedisStep
<1>3. CASE ~(s \notin Leased /\ Reply(s) = 0)
  <2>1. UNCHANGED redisVars
    BY <1>3 DEF Acquire
  <2>2. lease' = lease /\ last' = last
    BY <2>1 DEF redisVars
  <2>3. Reply(s) = 0 => s \in Leased'
    BY <1>3, <2>2 DEF Leased
  <2> QED BY <2>1, <2>2, <2>3, RedisStays
<1> QED BY <1>2, <1>3

LEMMA ReleaseRedis ==
  ASSUME HostInv, NEW s \in Scrapes, Release(s)
  PROVE  RedisStep(s) /\ s \notin Leased'
<1> USE DEF HostInv, Types, TypeOK, Release
<1>1. Leased' = Leased \ {s}
  BY DEF Leased
<1>2. IsFiniteSet(Leased') /\ Cardinality(Leased') <= Limit
  <2>1. Leased' \in SUBSET Leased
    BY <1>1
  <2>2. IsFiniteSet(Leased') /\ Cardinality(Leased') <= Cardinality(Leased)
    BY <2>1, FS_Subset DEF RedisInv
  <2>3. Cardinality(Leased') \in Nat /\ Cardinality(Leased) \in Nat
    BY <2>2, FS_CardinalityType DEF RedisInv
  <2> QED BY <2>2, <2>3, DurationTypes DEF RedisInv
<1>3. \A u \in Scrapes : lease'[u] <= expiry'
  BY DEF RedisInv
<1> QED BY <1>1, <1>2, <1>3 DEF RedisStep, RedisInv

(* Nothing of another scrape moves. *)
Elsewhere(s) ==
    \A u \in Scrapes : u # s =>
        /\ pc'[u] = pc[u] /\ timer'[u] = timer[u] /\ waited'[u] = waited[u]
        /\ attempt'[u] = attempt[u]
        /\ u \in held' <=> u \in held
        /\ u \in late' <=> u \in late
        /\ u \in troubled' <=> u \in troubled

LEMMA StepAtOne ==
  ASSUME HostInv, Types', NEW s \in Scrapes, RedisStep(s), Elsewhere(s), ScrapeInv(s)'
  PROVE  HostInv'
<1>1. ASSUME NEW u \in Scrapes, u # s PROVE ScrapeInv(u)'
  <2>1. /\ pc'[u] = pc[u] /\ timer'[u] = timer[u] /\ waited'[u] = waited[u]
        /\ attempt'[u] = attempt[u] /\ lease'[u] = lease[u]
        /\ u \in held' <=> u \in held
        /\ u \in late' <=> u \in late
        /\ u \in troubled' <=> u \in troubled
        /\ u \in Leased' <=> u \in Leased
    BY <1>1 DEF Elsewhere, RedisStep, Leased
  <2>2. ScrapeInv(u)
    BY DEF HostInv
  <2>3. Holding(u)'
    BY <2>1, <2>2 DEF ScrapeInv, Holding
  <2>4. WaitBounded(u)'
    BY <2>1, <2>2 DEF ScrapeInv, WaitBounded
  <2>5. LeaseLasts(u)'
    <3>1. pc[u] = "sleeping" => timer[u] <= last' \/ timer[u] <= PollMax
      BY <2>2, DurationTypes DEF ScrapeInv, LeaseLasts, RedisStep, HostInv, Types, TypeOK
    <3> QED BY <2>1, <2>2, <3>1 DEF ScrapeInv, LeaseLasts, LeaseTtl, Rest, Slack
  <2> QED BY <2>3, <2>4, <2>5 DEF ScrapeInv
<1> QED BY <1>1 DEF HostInv, RedisStep

-----------------------------------------------------------------------------
(* The steps *)

LEMMA MostAttempts == Most(Attempts, 2) \in Nat /\ Attempts <= Most(Attempts, 2) /\ 2 <= Most(Attempts, 2)
BY MostIs, DurationTypes

LEMMA AsksStep ==
  ASSUME HostInv, NEW s \in Scrapes, Asks(s)
  PROVE  HostInv'
<1> USE DurationTypes, MostAttempts DEF Asks, Goes, waitVars, faultVars, redisVars
<1>0. Types /\ ScrapeInv(s)
  BY DEF HostInv
<1>1. Types'
  BY <1>0 DEF Types, TypeOK, Timed
<1>2. RedisStep(s)
  BY RedisStays
<1>3. Elsewhere(s)
  BY <1>0 DEF Elsewhere, Types, TypeOK
<1>4. Holding(s)'
  BY <1>0 DEF Types, TypeOK, ScrapeInv, Holding, Leased
<1>5. LeaseLasts(s)'
  BY <1>0 DEF Types, TypeOK, ScrapeInv, Holding, LeaseLasts, Leased
<1>6. WaitBounded(s)'
  BY <1>0 DEF Types, TypeOK, ScrapeInv, WaitBounded
<1> QED BY <1>1, <1>2, <1>3, <1>4, <1>5, <1>6, StepAtOne DEF ScrapeInv

LEMMA GrantedStep ==
  ASSUME HostInv, NEW s \in Scrapes, Granted(s)
  PROVE  HostInv'
<1> USE DurationTypes, MostAttempts DEF Granted, Goes, Leaves, BeginsScrape, faultVars
<1>0. Types /\ ScrapeInv(s) /\ pc[s] = "asking" /\ Acquire(s) /\ Reply(s) = 0
  BY DEF HostInv
<1>2. /\ RedisStep(s) /\ s \in Leased'
      /\ \/ lease'[s] = lease[s] /\ last' = last
         \/ s \notin Leased /\ last = 0 /\ lease'[s] = LeaseTtl(s)
  BY <1>0, AcquireRedis
<1>1. Types'
  BY <1>0, <1>2 DEF Types, TypeOK, Timed, RedisStep
<1>3. Elsewhere(s)
  BY <1>0 DEF Elsewhere, Types, TypeOK
<1>4. Holding(s)'
  BY <1>0 DEF Types, TypeOK, ScrapeInv, Holding, Leased
<1>5. LeaseLasts(s)'
  <2>1. lease'[s] >= Queue + Run[s] + Rest(s, 1) + Slack
    <3>1. Rest(s, 1) \in Nat /\ LeaseTtl(s) = Queue + Run[s] + Rest(s, 1) + Margin
      BY RestSteps
    <3>2. Slack \in Nat /\ Margin = Slack + Answer + PollMax
      BY SlackPositive
    <3>3. CASE lease'[s] = LeaseTtl(s)
      BY <3>1, <3>2, <3>3
    <3>4. CASE lease'[s] = lease[s]
      <4>1. s \in Leased /\ lease[s] \in Nat /\ timer[s] \in Nat
        BY <1>0, <1>2, <3>4 DEF Leased, Types, TypeOK
      <4>2. lease[s] + PollMax + Answer >= LeaseTtl(s) + timer[s]
        BY <1>0, <4>1 DEF ScrapeInv, LeaseLasts
      <4> QED BY <3>1, <3>2, <3>4, <4>1, <4>2
    <3> QED BY <1>2, <3>3, <3>4
  <2>2. \/ pc'[s] = "releasing"
        \/ pc'[s] = "fetching" /\ timer'[s] = Queue + Run[s] /\ attempt'[s] = 1
    BY <1>0 DEF Types, TypeOK
  <2>3. Slack' = Slack /\ Rest(s, 1)' = Rest(s, 1)
    BY DEF Slack, Rest
  <2> QED BY <2>1, <2>2, <2>3 DEF LeaseLasts
<1>6. WaitBounded(s)'
  BY <1>0 DEF Types, TypeOK, WaitBounded
<1> QED BY <1>1, <1>2, <1>3, <1>4, <1>5, <1>6, StepAtOne DEF ScrapeInv

LEMMA RefusedStep ==
  ASSUME HostInv, NEW s \in Scrapes, Refused(s)
  PROVE  HostInv'
<1> USE DurationTypes, MostAttempts DEF Refused, Goes, Leaves, BeginsScrape, faultVars
<1>0. Types /\ ScrapeInv(s) /\ pc[s] = "asking" /\ UNCHANGED redisVars
  BY DEF HostInv
<1>2. RedisStep(s)
  BY <1>0, RedisStays
<1>7. s \notin Leased /\ s \notin Leased' /\ Reply(s) \in Nat /\ Reply(s) \in {BusyPoll, last}
  BY <1>0 DEF Reply, Types, redisVars, Leased
<1>8. delay[s] \in 0..PollMax /\ waited[s] \in Nat
  BY <1>0 DEF Types
<1>9. waited[s] < WaitCap =>
        /\ Pause(s) \in Nat /\ Pause(s) <= WaitCap - waited[s]
        /\ Pause(s) <= last \/ Pause(s) <= PollMax
  <2> SUFFICES ASSUME waited[s] < WaitCap
               PROVE  /\ Pause(s) \in Nat /\ Pause(s) <= WaitCap - waited[s]
                      /\ Pause(s) <= last \/ Pause(s) <= PollMax
    OBVIOUS
  <2>1. PollDelay(s) \in Nat /\ (PollDelay(s) <= last \/ PollDelay(s) <= PollMax)
    BY <1>0, <1>7, <1>8, MostIs DEF PollDelay, Types
  <2>2. WaitCap - waited[s] \in Nat
    BY <1>8
  <2>3. Pause(s) = IF PollDelay(s) <= WaitCap - waited[s] THEN PollDelay(s) ELSE WaitCap - waited[s]
    BY <2>1, <2>2, LeastIs DEF Pause
  <2> QED BY <2>1, <2>2, <2>3, <1>0 DEF Types
<1>10. Doubled(delay[s]) \in 0..PollMax
  <2> DEFINE d == IF delay[s] = 0 THEN BusyPoll ELSE delay[s]
  <2>1. 2 * d \in Nat
    BY <1>8
  <2>2. Doubled(delay[s]) = IF 2 * d <= PollMax THEN 2 * d ELSE PollMax
    BY <2>1, LeastIs DEF Doubled
  <2> QED BY <2>1, <2>2
<1>1. Types'
  <2>1. delay' \in [Scrapes -> 0..PollMax] /\ waited' \in [Scrapes -> Nat]
    BY <1>0, <1>10 DEF Types
  <2>2. timer' \in [Scrapes -> Nat]
    BY <1>0, <1>9 DEF Types, TypeOK
  <2> QED BY <1>0, <2>1, <2>2 DEF Types, TypeOK, Timed, redisVars
<1>3. Elsewhere(s)
  BY <1>0 DEF Elsewhere, Types, TypeOK
<1>4. Holding(s)'
  BY <1>0, <1>7 DEF Types, TypeOK, ScrapeInv, Holding
<1>5. LeaseLasts(s)'
  <2>1. s \notin held'
    BY <1>0 DEF ScrapeInv, Holding
  <2>2. \/ pc'[s] = "over"
        \/ pc'[s] = "fetching" /\ attempt'[s] = 1
        \/ pc'[s] = "sleeping" /\ timer'[s] = Pause(s) /\ waited[s] < WaitCap
    BY <1>0 DEF Types, TypeOK
  <2>3. last' = last
    BY <1>0 DEF redisVars
  <2> QED BY <1>7, <1>9, <2>1, <2>2, <2>3 DEF LeaseLasts
<1>6. WaitBounded(s)'
  BY <1>0, <1>8, <1>9 DEF Types, TypeOK, WaitBounded
<1> QED BY <1>1, <1>2, <1>3, <1>4, <1>5, <1>6, StepAtOne DEF ScrapeInv

(* Whatever became of a call whose answer is lost. *)
LEMMA LostRedis ==
  ASSUME HostInv, NEW s \in Scrapes, Lost(s), pc[s] = "asking"
  PROVE  /\ RedisStep(s) /\ s \in troubled'
         /\ late' \subseteq late \cup {s} /\ late \subseteq late'
         /\ troubled' = troubled \cup {s}
         /\ \/ lease'[s] = lease[s]
            \/ s \notin Leased /\ lease'[s] = LeaseTtl(s)
<1>1. CASE Acquire(s) /\ UNCHANGED late
  BY <1>1, AcquireRedis DEF Lost
<1>2. CASE UNCHANGED redisVars /\ (late' = late \cup {s} \/ UNCHANGED late)
  <2>1. RedisStep(s)
    BY <1>2, RedisStays
  <2>2. lease'[s] = lease[s]
    BY <1>2 DEF redisVars
  <2> QED BY <1>2, <2>1, <2>2 DEF Lost
<1> QED BY <1>1, <1>2 DEF Lost

LEMMA AnswerLostStep ==
  ASSUME HostInv, NEW s \in Scrapes, AnswerLost(s)
  PROVE  HostInv'
<1> USE DurationTypes, MostAttempts DEF AnswerLost, waitVars
<1>0. Types /\ ScrapeInv(s) /\ pc[s] = "asking" /\ Lost(s)
  BY DEF HostInv
<1>2. /\ RedisStep(s) /\ s \in troubled'
      /\ late' \subseteq late \cup {s} /\ late \subseteq late'
      /\ troubled' = troubled \cup {s}
      /\ \/ lease'[s] = lease[s]
         \/ s \notin Leased /\ lease'[s] = LeaseTtl(s)
  BY <1>0, LostRedis
<1>1. Types'
  BY <1>0, <1>2 DEF Types, TypeOK, Timed, RedisStep
<1>3. Elsewhere(s)
  BY <1>0, <1>2 DEF Elsewhere, Types, TypeOK
<1>4. Holding(s)'
  BY <1>0, <1>2 DEF ScrapeInv, Holding
<1>5. LeaseLasts(s)'
  <2>1. timer[s] <= Answer /\ timer[s] \in Nat /\ lease[s] \in Nat /\ LeaseTtl(s) \in Nat
    BY <1>0, RestSteps DEF ScrapeInv, LeaseLasts, Types, TypeOK
  <2>2. lease'[s] = lease[s] => (s \in Leased' <=> s \in Leased)
    BY DEF Leased
  <2>3. s \in Leased' => lease'[s] + PollMax + Answer >= LeaseTtl(s) + timer[s]
    BY <1>0, <1>2, <2>1, <2>2 DEF ScrapeInv, LeaseLasts
  <2>4. LeaseTtl(s)' = LeaseTtl(s)
    BY DEF LeaseTtl
  <2> QED BY <1>0, <2>1, <2>3, <2>4 DEF LeaseLasts
<1>6. WaitBounded(s)'
  BY <1>0 DEF ScrapeInv, WaitBounded
<1> QED BY <1>1, <1>2, <1>3, <1>4, <1>5, <1>6, StepAtOne DEF ScrapeInv

LEMMA FailsOpenStep ==
  ASSUME HostInv, NEW s \in Scrapes, FailsOpen(s)
  PROVE  HostInv'
<1> USE DurationTypes, MostAttempts DEF FailsOpen, Goes, Leaves, BeginsScrape
<1>0. Types /\ ScrapeInv(s) /\ pc[s] = "asking" /\ Lost(s)
  BY DEF HostInv
<1>2. /\ RedisStep(s) /\ s \in troubled'
      /\ late' \subseteq late \cup {s} /\ late \subseteq late'
      /\ troubled' = troubled \cup {s}
  BY <1>0, LostRedis
<1>1. Types'
  BY <1>0, <1>2 DEF Types, TypeOK, Timed, RedisStep
<1>3. Elsewhere(s)
  BY <1>0, <1>2 DEF Elsewhere, Types, TypeOK
<1>7. s \notin held'
  BY <1>0 DEF ScrapeInv, Holding
<1>4. Holding(s)'
  BY <1>0, <1>2, <1>7 DEF Types, TypeOK, Holding
<1>5. LeaseLasts(s)'
  BY <1>0, <1>7 DEF Types, TypeOK, LeaseLasts
<1>6. WaitBounded(s)'
  BY <1>0 DEF Types, TypeOK, WaitBounded
<1> QED BY <1>1, <1>2, <1>3, <1>4, <1>5, <1>6, StepAtOne DEF ScrapeInv

LEMMA WakesStep ==
  ASSUME HostInv, NEW s \in Scrapes, Wakes(s)
  PROVE  HostInv'
<1> USE DurationTypes, MostAttempts DEF Wakes, Goes, waitVars, faultVars, redisVars
<1>0. Types /\ ScrapeInv(s)
  BY DEF HostInv
<1>1. Types'
  BY <1>0 DEF Types, TypeOK, Timed
<1>2. RedisStep(s)
  BY RedisStays
<1>3. Elsewhere(s)
  BY <1>0 DEF Elsewhere, Types, TypeOK
<1>4. Holding(s)'
  BY <1>0 DEF Types, TypeOK, ScrapeInv, Holding, Leased
<1>5. LeaseLasts(s)'
  <2>1. s \in Leased' => s \in Leased
    BY DEF Leased
  <2>2. LeaseTtl(s)' = LeaseTtl(s) /\ LeaseTtl(s) \in Nat
    BY RestSteps DEF LeaseTtl
  <2> QED BY <1>0, <2>1, <2>2 DEF Types, TypeOK, ScrapeInv, LeaseLasts
<1>6. WaitBounded(s)'
  BY <1>0 DEF Types, TypeOK, ScrapeInv, WaitBounded
<1> QED BY <1>1, <1>2, <1>3, <1>4, <1>5, <1>6, StepAtOne DEF ScrapeInv

LEMMA CancelStep ==
  ASSUME HostInv, NEW s \in Scrapes, Cancel(s)
  PROVE  HostInv'
<1> USE DurationTypes, MostAttempts DEF Cancel, Goes, Leaves
<1>0. Types /\ ScrapeInv(s) /\ UNCHANGED redisVars
  BY DEF HostInv
<1>7. s \notin held /\ (s \in Leased' <=> s \in Leased) /\ lease' = lease
  BY <1>0 DEF ScrapeInv, Holding, redisVars, Leased
<1>1. Types'
  BY <1>0 DEF Types, TypeOK, Timed, redisVars
<1>2. RedisStep(s)
  BY <1>0, RedisStays
<1>3. Elsewhere(s)
  BY <1>0 DEF Elsewhere, Types, TypeOK
<1>4. Holding(s)'
  BY <1>0, <1>7 DEF Types, TypeOK, ScrapeInv, Holding
<1>5. LeaseLasts(s)'
  BY <1>0, <1>7 DEF Types, TypeOK, ScrapeInv, LeaseLasts, LeaseTtl
<1>6. WaitBounded(s)'
  BY <1>0 DEF Types, TypeOK, ScrapeInv, WaitBounded
<1> QED BY <1>1, <1>2, <1>3, <1>4, <1>5, <1>6, StepAtOne DEF ScrapeInv

(* A late acquire is for a workflow that gave its call up: that of a sleeping *)
(* one lands on a host at rest, so its pause is no longer than the longest.   *)
LEMMA LandsLateStep ==
  ASSUME HostInv, NEW s \in Scrapes, LandsLate(s)
  PROVE  HostInv'
<1> USE DurationTypes, MostAttempts DEF LandsLate, waitVars
<1>0. Types /\ ScrapeInv(s) /\ Acquire(s)
  BY DEF HostInv
<1>2. /\ RedisStep(s)
      /\ \/ lease'[s] = lease[s] /\ last' = last
         \/ s \notin Leased /\ last = 0 /\ lease'[s] = LeaseTtl(s)
  BY <1>0, AcquireRedis
<1>1. Types'
  BY <1>0, <1>2 DEF Types, TypeOK, Timed, RedisStep
<1>3. Elsewhere(s)
  BY <1>0 DEF Elsewhere, Types, TypeOK
<1>4. Holding(s)'
  <2>1. s \in troubled /\ pc[s] # "none"
    BY <1>0 DEF ScrapeInv, Holding
  <2> QED BY <1>0, <2>1 DEF ScrapeInv, Holding
<1>5. LeaseLasts(s)'
  <2>1. LeaseTtl(s) \in Nat /\ LeaseTtl(s)' = LeaseTtl(s) /\ Slack' = Slack
        /\ Rest(s, attempt[s])' = Rest(s, attempt[s])
        /\ Rest(s, attempt[s] + 1)' = Rest(s, attempt[s] + 1)
    BY RestSteps DEF LeaseTtl, Slack, Rest
  <2>2. timer[s] \in Nat /\ lease[s] \in Nat /\ last \in Nat
    BY <1>0 DEF Types, TypeOK
  <2>3. CASE lease'[s] = lease[s] /\ last' = last
    <3>1. s \in Leased' <=> s \in Leased
      BY <2>3 DEF Leased
    <3> QED BY <1>0, <2>1, <2>3, <3>1 DEF ScrapeInv, LeaseLasts
  <2>4. CASE s \notin Leased /\ last = 0 /\ lease'[s] = LeaseTtl(s)
    <3>1. pc[s] = "sleeping" => timer[s] <= PollMax
      BY <1>0, <2>2, <2>4 DEF ScrapeInv, LeaseLasts
    <3>2. pc[s] = "asking" => timer[s] <= Answer
      BY <1>0 DEF ScrapeInv, LeaseLasts
    <3>3. ~ (pc[s] \in {"fetching", "backoff"} /\ s \in held)
      <4> SUFFICES ASSUME pc[s] \in {"fetching", "backoff"}, s \in held PROVE FALSE
        OBVIOUS
      <4>1. lease[s] = 0
        BY <2>2, <2>4 DEF Leased
      <4>2. Slack \in Nat /\ Slack > 0
        BY SlackPositive
      <4>3. CASE pc[s] = "fetching"
        <5>1. attempt[s] \in 1..Attempts /\ Rest(s, attempt[s]) \in Nat
          BY <1>0, <4>3, RestSteps DEF ScrapeInv, LeaseLasts
        <5>2. lease[s] >= timer[s] + Rest(s, attempt[s]) + Slack
          BY <1>0, <4>3 DEF ScrapeInv, LeaseLasts
        <5> QED BY <2>2, <4>1, <4>2, <5>1, <5>2
      <4>4. CASE pc[s] = "backoff"
        <5>1. attempt[s] \in 1..(Attempts - 1)
          BY <1>0, <4>4 DEF ScrapeInv, LeaseLasts
        <5>2. attempt[s] + 1 \in 1..Attempts
          BY <5>1
        <5>3. Rest(s, attempt[s] + 1) \in Nat
          BY <5>2, RestSteps
        <5>4. lease[s] >= timer[s] + Queue + Run[s] + Rest(s, attempt[s] + 1) + Slack
          BY <1>0, <4>4 DEF ScrapeInv, LeaseLasts
        <5> QED BY <2>2, <4>1, <4>2, <5>3, <5>4
      <4> QED BY <4>3, <4>4
    <3> QED BY <1>0, <2>1, <2>2, <2>4, <3>1, <3>2, <3>3 DEF ScrapeInv, LeaseLasts
  <2> QED BY <1>2, <2>3, <2>4
<1>6. WaitBounded(s)'
  BY <1>0 DEF ScrapeInv, WaitBounded
<1> QED BY <1>1, <1>2, <1>3, <1>4, <1>5, <1>6, StepAtOne DEF ScrapeInv

LEMMA AttemptFailsStep ==
  ASSUME HostInv, NEW s \in Scrapes, AttemptFails(s)
  PROVE  HostInv'
<1> USE DurationTypes, MostAttempts DEF AttemptFails, Goes, waitVars, faultVars, redisVars
<1>0. Types /\ ScrapeInv(s)
  BY DEF HostInv
<1>1. Types'
  BY <1>0 DEF Types, TypeOK, Timed
<1>2. RedisStep(s)
  BY RedisStays
<1>3. Elsewhere(s)
  BY <1>0 DEF Elsewhere, Types, TypeOK
<1>4. Holding(s)'
  BY <1>0 DEF Types, TypeOK, ScrapeInv, Holding, Leased
<1>5. LeaseLasts(s)'
  <2>1. attempt[s] \in 1..(Attempts - 1)
    BY <1>0 DEF ScrapeInv, LeaseLasts
  <2>2. Rest(s, attempt[s]) = Queue + Run[s] + Backoff + Rest(s, attempt[s] + 1)
    BY <2>1, RestSteps
  <2>3. Rest(s, attempt[s] + 1) \in Nat
    <3>1. attempt[s] + 1 \in 1..Attempts
      BY <2>1
    <3> QED BY <3>1, RestSteps
  <2>4. s \in held => lease[s] >= timer[s] + Rest(s, attempt[s]) + Slack
    BY <1>0 DEF ScrapeInv, LeaseLasts
  <2>5. lease[s] \in Nat /\ timer[s] \in Nat /\ Slack \in Nat
    BY <1>0, SlackPositive DEF Types, TypeOK
  <2>6. s \in held => lease[s] >= Backoff + Queue + Run[s] + Rest(s, attempt[s] + 1) + Slack
    BY <2>2, <2>3, <2>4, <2>5
  <2>7. pc'[s] = "backoff" /\ timer'[s] = Backoff
    BY <1>0 DEF Types, TypeOK
  <2>8. Slack' = Slack /\ Rest(s, attempt[s] + 1)' = Rest(s, attempt[s] + 1)
    BY DEF Slack, Rest
  <2> QED BY <2>1, <2>6, <2>7, <2>8 DEF LeaseLasts
<1>6. WaitBounded(s)'
  BY <1>0 DEF Types, TypeOK, ScrapeInv, WaitBounded
<1> QED BY <1>1, <1>2, <1>3, <1>4, <1>5, <1>6, StepAtOne DEF ScrapeInv

LEMMA RetriesStep ==
  ASSUME HostInv, NEW s \in Scrapes, Retries(s)
  PROVE  HostInv'
<1> USE DurationTypes, MostAttempts DEF Retries, Goes, waitVars, faultVars, redisVars
<1>0. Types /\ ScrapeInv(s)
  BY DEF HostInv
<1>7. attempt[s] \in 1..(Attempts - 1) /\ attempt'[s] = attempt[s] + 1
  BY <1>0 DEF ScrapeInv, LeaseLasts, Types, TypeOK
<1>1. Types'
  <2>1. attempt[s] + 1 \in 0..Most(Attempts, 2)
    BY <1>7
  <2> QED BY <1>0, <2>1 DEF Types, TypeOK, Timed
<1>2. RedisStep(s)
  BY RedisStays
<1>3. Elsewhere(s)
  BY <1>0 DEF Elsewhere, Types, TypeOK
<1>4. Holding(s)'
  BY <1>0 DEF Types, TypeOK, ScrapeInv, Holding, Leased
<1>5. LeaseLasts(s)'
  <2>1. s \in held => lease[s] >= Queue + Run[s] + Rest(s, attempt[s] + 1) + Slack
    BY <1>0 DEF ScrapeInv, LeaseLasts
  <2>2. pc'[s] = "fetching" /\ timer'[s] = Queue + Run[s]
    BY <1>0 DEF Types, TypeOK
  <2>3. Slack' = Slack /\ Rest(s, attempt[s] + 1) = Rest(s, attempt[s])'
    BY <1>7 DEF Slack, Rest
  <2> QED BY <1>7, <2>1, <2>2, <2>3 DEF LeaseLasts
<1>6. WaitBounded(s)'
  BY <1>0 DEF Types, TypeOK, ScrapeInv, WaitBounded
<1> QED BY <1>1, <1>2, <1>3, <1>4, <1>5, <1>6, StepAtOne DEF ScrapeInv

LEMMA ScrapeEndsStep ==
  ASSUME HostInv, NEW s \in Scrapes, ScrapeEnds(s)
  PROVE  HostInv'
<1> USE DurationTypes, MostAttempts DEF ScrapeEnds, Goes, waitVars, faultVars, redisVars
<1>0. Types /\ ScrapeInv(s)
  BY DEF HostInv
<1>1. Types'
  BY <1>0 DEF Types, TypeOK, Timed
<1>2. RedisStep(s)
  BY RedisStays
<1>3. Elsewhere(s)
  BY <1>0 DEF Elsewhere, Types, TypeOK
<1>4. Holding(s)'
  BY <1>0 DEF Types, TypeOK, ScrapeInv, Holding, Leased
<1>5. LeaseLasts(s)'
  BY <1>0 DEF Types, TypeOK, LeaseLasts
<1>6. WaitBounded(s)'
  BY <1>0 DEF Types, TypeOK, ScrapeInv, WaitBounded
<1> QED BY <1>1, <1>2, <1>3, <1>4, <1>5, <1>6, StepAtOne DEF ScrapeInv

LEMMA ReleasedStep ==
  ASSUME HostInv, NEW s \in Scrapes, Released(s)
  PROVE  HostInv'
<1> USE DurationTypes, MostAttempts DEF Released, Goes, waitVars, faultVars
<1>0. Types /\ ScrapeInv(s) /\ Release(s)
  BY DEF HostInv
<1>2. RedisStep(s) /\ s \notin Leased'
  BY <1>0, ReleaseRedis
<1>1. Types'
  BY <1>0, <1>2 DEF Types, TypeOK, Timed, RedisStep
<1>3. Elsewhere(s)
  BY <1>0 DEF Elsewhere, Types, TypeOK
<1>4. Holding(s)'
  BY <1>0, <1>2 DEF Types, TypeOK, ScrapeInv, Holding
<1>5. LeaseLasts(s)'
  BY <1>0 DEF Types, TypeOK, LeaseLasts
<1>6. WaitBounded(s)'
  BY <1>0 DEF Types, TypeOK, ScrapeInv, WaitBounded
<1> QED BY <1>1, <1>2, <1>3, <1>4, <1>5, <1>6, StepAtOne DEF ScrapeInv

LEMMA ReleaseFailsStep ==
  ASSUME HostInv, NEW s \in Scrapes, ReleaseFails(s)
  PROVE  HostInv'
<1> USE DurationTypes, MostAttempts DEF ReleaseFails, Goes, waitVars
<1>0. Types /\ ScrapeInv(s) /\ (Release(s) \/ UNCHANGED redisVars)
  BY DEF HostInv
<1>2. RedisStep(s)
  BY <1>0, ReleaseRedis, RedisStays
<1>1. Types'
  BY <1>0, <1>2 DEF Types, TypeOK, Timed, RedisStep
<1>3. Elsewhere(s)
  BY <1>0 DEF Elsewhere, Types, TypeOK
<1>4. Holding(s)'
  BY <1>0, <1>2 DEF Types, TypeOK, ScrapeInv, Holding
<1>5. LeaseLasts(s)'
  BY <1>0 DEF Types, TypeOK, LeaseLasts
<1>6. WaitBounded(s)'
  BY <1>0 DEF Types, TypeOK, ScrapeInv, WaitBounded
<1> QED BY <1>1, <1>2, <1>3, <1>4, <1>5, <1>6, StepAtOne DEF ScrapeInv

(* A unit of time takes one from every lease and from every timer alike. *)
LEMMA TickStep ==
  ASSUME HostInv, Tick
  PROVE  HostInv'
<1> USE DurationTypes, MostAttempts
<1>0. Types /\ RedisInv
  BY DEF HostInv
<1>1. \A s \in Scrapes : lease'[s] \in Nat /\ lease'[s] = (IF lease[s] = 0 THEN 0 ELSE lease[s] - 1)
  <2> SUFFICES ASSUME NEW s \in Scrapes
               PROVE  /\ lease'[s] \in Nat
                      /\ lease'[s] = (IF lease[s] = 0 THEN 0 ELSE lease[s] - 1)
    OBVIOUS
  <2>1. lease[s] \in Nat /\ expiry \in Nat /\ lease[s] <= expiry
    BY <1>0 DEF Types, TypeOK, RedisInv
  <2>2. lease'[s] = IF expiry <= 1 THEN 0 ELSE IF lease[s] = 0 THEN 0 ELSE lease[s] - 1
    BY DEF Tick, Less
  <2> QED BY <2>1, <2>2
<1>2. Leased' \subseteq Leased
  BY <1>0, <1>1 DEF Leased, Types, TypeOK
<1>3. Types'
  BY <1>0, <1>1 DEF Tick, Less, Types, TypeOK, Timed, faultVars
<1>4. RedisInv'
  <2>1. IsFiniteSet(Leased') /\ Cardinality(Leased') <= Limit
    <3>1. Leased' \in SUBSET Leased
      BY <1>2
    <3>2. IsFiniteSet(Leased') /\ Cardinality(Leased') <= Cardinality(Leased)
      BY <1>0, <3>1, FS_Subset DEF RedisInv
    <3>3. Cardinality(Leased') \in Nat /\ Cardinality(Leased) \in Nat
      BY <1>0, <3>2, FS_CardinalityType DEF RedisInv
    <3> QED BY <1>0, <3>2, <3>3 DEF RedisInv
  <2>2. \A s \in Scrapes : lease'[s] <= expiry'
    BY <1>0, <1>1 DEF Tick, Less, Types, TypeOK, RedisInv
  <2> QED BY <2>1, <2>2 DEF RedisInv
<1>5. ASSUME NEW s \in Scrapes PROVE ScrapeInv(s)'
  <2>1. /\ ScrapeInv(s) /\ timer[s] \in Nat /\ lease[s] \in Nat /\ waited[s] \in Nat
        /\ last \in Nat
    BY <1>0 DEF HostInv, Types, TypeOK
  <2>2. /\ pc' = pc /\ held' = held /\ late' = late /\ troubled' = troubled
        /\ attempt' = attempt
    BY DEF Tick, faultVars
  <2>3. pc[s] \in Timed => timer[s] > 0 /\ timer'[s] = timer[s] - 1
    BY <2>1 DEF Tick, Less
  <2>4. last' = (IF last = 0 THEN 0 ELSE last - 1)
    BY DEF Tick, Less
  <2>5. s \in Leased' => s \in Leased /\ lease'[s] = lease[s] - 1
    BY <1>1, <2>1 DEF Leased
  <2>6. Holding(s)'
    BY <1>2, <2>1, <2>2 DEF ScrapeInv, Holding
  <2>7. WaitBounded(s)'
    <3>1. waited'[s] = IF pc[s] \in {"asking", "sleeping"} THEN waited[s] + 1 ELSE waited[s]
      BY DEF Tick
    <3> QED BY <2>1, <2>2, <2>3, <3>1 DEF ScrapeInv, WaitBounded, Timed
  <2>8. LeaseLasts(s)'
    <3>1. /\ LeaseTtl(s)' = LeaseTtl(s) /\ LeaseTtl(s) \in Nat
          /\ Rest(s, attempt[s])' = Rest(s, attempt[s])
          /\ Rest(s, attempt[s] + 1)' = Rest(s, attempt[s] + 1)
          /\ Slack' = Slack /\ Slack \in Nat
      <4>1. LeaseTtl(s)' = LeaseTtl(s) /\ Slack' = Slack
        BY DEF LeaseTtl, Slack
      <4>2. /\ Rest(s, attempt[s])' = Rest(s, attempt[s])
            /\ Rest(s, attempt[s] + 1)' = Rest(s, attempt[s] + 1)
        BY <2>2 DEF Rest
      <4> QED BY <4>1, <4>2, RestSteps, SlackPositive
    <3>2. CASE pc[s] = "sleeping"
      <4>1. timer[s] > 0 /\ timer'[s] = timer[s] - 1
        BY <2>3, <3>2 DEF Timed
      <4> QED BY <2>1, <2>2, <2>4, <2>5, <3>1, <3>2, <4>1 DEF ScrapeInv, LeaseLasts
    <3>3. CASE pc[s] = "asking"
      <4>1. timer[s] > 0 /\ timer'[s] = timer[s] - 1
        BY <2>3, <3>3 DEF Timed
      <4> QED BY <2>1, <2>2, <2>5, <3>1, <3>3, <4>1 DEF ScrapeInv, LeaseLasts
    <3>4. CASE pc[s] = "fetching"
      <4>1. timer[s] > 0 /\ timer'[s] = timer[s] - 1
        BY <2>3, <3>4 DEF Timed
      <4>2. attempt[s] \in 1..Attempts /\ Rest(s, attempt[s]) \in Nat
        BY <2>1, <3>4, RestSteps DEF ScrapeInv, LeaseLasts
      <4>3. s \in held => lease[s] >= timer[s] + Rest(s, attempt[s]) + Slack
        BY <2>1, <3>4 DEF ScrapeInv, LeaseLasts
      <4>4. s \in held => lease'[s] >= timer'[s] + Rest(s, attempt[s]) + Slack
        BY <1>1, <2>1, <3>1, <4>1, <4>2, <4>3
      <4> QED BY <2>2, <3>1, <3>4, <4>2, <4>4 DEF LeaseLasts
    <3>5. CASE pc[s] = "backoff"
      <4>1. timer[s] > 0 /\ timer'[s] = timer[s] - 1
        BY <2>3, <3>5 DEF Timed
      <4>2. attempt[s] \in 1..(Attempts - 1)
        BY <2>1, <3>5 DEF ScrapeInv, LeaseLasts
      <4>3. attempt[s] + 1 \in 1..Attempts
        BY <4>2
      <4>4. Rest(s, attempt[s] + 1) \in Nat
        BY <4>3, RestSteps
      <4>5. s \in held =>
              lease[s] >= timer[s] + Queue + Run[s] + Rest(s, attempt[s] + 1) + Slack
        BY <2>1, <3>5 DEF ScrapeInv, LeaseLasts
      <4>6. s \in held =>
              lease'[s] >= timer'[s] + Queue + Run[s] + Rest(s, attempt[s] + 1) + Slack
        BY <1>1, <2>1, <3>1, <4>1, <4>4, <4>5
      <4> QED BY <2>2, <3>1, <3>5, <4>2, <4>6 DEF LeaseLasts
    <3>6. CASE pc[s] \notin {"sleeping", "asking", "fetching", "backoff"}
      BY <2>2, <3>6 DEF LeaseLasts
    <3> QED BY <3>2, <3>3, <3>4, <3>5, <3>6
  <2> QED BY <2>6, <2>7, <2>8 DEF ScrapeInv
<1> QED BY <1>3, <1>4, <1>5 DEF HostInv

-----------------------------------------------------------------------------
(* The theorems *)

LEMMA NextStep ==
  ASSUME HostInv, [Next]_vars
  PROVE  HostInv'
<1>1. CASE Tick
  BY <1>1, TickStep
<1>2. ASSUME NEW s \in Scrapes, Steps(s) PROVE HostInv'
  BY <1>2, AsksStep, GrantedStep, RefusedStep, AnswerLostStep, FailsOpenStep, WakesStep,
     CancelStep, LandsLateStep, AttemptFailsStep, RetriesStep, ScrapeEndsStep, ReleasedStep,
     ReleaseFailsStep
  DEF Steps
<1>3. CASE UNCHANGED vars
  <2> USE <1>3 DEF vars, redisVars, waitVars, faultVars
  <2>1. Types'
    BY DEF HostInv, Types, TypeOK
  <2>2. RedisInv'
    BY DEF HostInv, RedisInv, Leased
  <2>3. ASSUME NEW s \in Scrapes PROVE ScrapeInv(s)'
    BY DEF HostInv, ScrapeInv, Holding, LeaseLasts, WaitBounded, Leased, LeaseTtl, Rest, Slack
  <2> QED BY <2>1, <2>2, <2>3 DEF HostInv
<1> QED BY <1>1, <1>2, <1>3 DEF Next

(* The limiter's inductive invariant holds in every state: a lease of a      *)
(* workflow that is asking, pausing or scraping lasts as long as it may need *)
(* it (core/host_limiter.py, steps.py wait_for_host_slot).                   *)
THEOREM HostInvHolds == Spec => []HostInv
<1>1. Init => HostInv
  BY InitInv
<1>2. HostInv /\ [Next]_vars => HostInv'
  BY NextStep
<1> QED BY <1>1, <1>2, PTL DEF Spec

(* The host never has more scrapes with a slot than the limit, whatever the  *)
(* durations, as long as the margin covers one pause and one ask; and a      *)
(* workflow that is done with the host leaves no lease there, unless one of  *)
(* its calls failed (core/host_limiter.py _ACQUIRE_SCRIPT, steps.py          *)
(* host_lease_ttl and release_host_slot).                                    *)
THEOREM LeasesHold == Spec => []LeasesFollowScrapes
<1>1. HostInv => LeasesFollowScrapes
  <2> SUFFICES ASSUME HostInv PROVE LeasesFollowScrapes
    OBVIOUS
  <2>1. Types /\ RedisInv /\ \A s \in Scrapes : ScrapeInv(s)
    BY DEF HostInv
  <2>2. Fetching \subseteq Leased
    <3> SUFFICES ASSUME NEW s \in Fetching PROVE s \in Leased
      OBVIOUS
    <3>1. s \in Scrapes /\ s \in held /\ pc[s] \in {"fetching", "backoff"} /\ ScrapeInv(s)
      BY <2>1 DEF Fetching, Types, TypeOK
    <3>2. Slack \in Nat /\ Slack > 0 /\ timer[s] \in Nat /\ lease[s] \in Nat
      BY <2>1, <3>1, SlackPositive DEF Types, TypeOK
    <3>3. CASE pc[s] = "fetching"
      <4>1. attempt[s] \in 1..Attempts /\ lease[s] >= timer[s] + Rest(s, attempt[s]) + Slack
        BY <3>1, <3>3 DEF ScrapeInv, LeaseLasts
      <4>2. Rest(s, attempt[s]) \in Nat
        BY <3>1, <4>1, RestSteps
      <4> QED BY <3>1, <3>2, <4>1, <4>2 DEF Leased
    <3>4. CASE pc[s] = "backoff"
      <4>1. /\ attempt[s] \in 1..(Attempts - 1)
            /\ lease[s] >= timer[s] + Queue + Run[s] + Rest(s, attempt[s] + 1) + Slack
        BY <3>1, <3>4 DEF ScrapeInv, LeaseLasts
      <4>2. attempt[s] + 1 \in 1..Attempts
        BY <4>1, DurationTypes
      <4>3. Rest(s, attempt[s] + 1) \in Nat
        BY <3>1, <4>2, RestSteps
      <4> QED BY <3>1, <3>2, <4>1, <4>3, DurationTypes DEF Leased
    <3> QED BY <3>1, <3>3, <3>4
  <2>3. Cardinality(Fetching) <= Limit
    <3>1. Fetching \in SUBSET Leased
      BY <2>2
    <3>2. IsFiniteSet(Fetching) /\ Cardinality(Fetching) <= Cardinality(Leased)
      BY <2>1, <3>1, FS_Subset DEF RedisInv
    <3>3. Cardinality(Fetching) \in Nat /\ Cardinality(Leased) \in Nat
      BY <2>1, <3>2, FS_CardinalityType DEF RedisInv
    <3> QED BY <2>1, <3>2, <3>3, DurationTypes DEF RedisInv
  <2>4. LeavesNoLease
    BY <2>1 DEF LeavesNoLease, ScrapeInv, Holding
  <2> QED BY <2>1, <2>2, <2>3, <2>4 DEF LeasesFollowScrapes, SlotsHold, Types
<1> QED BY <1>1, HostInvHolds, PTL

(* No scrape waits for a slot longer than the cap and one ask, whatever the *)
(* host's load (steps.py wait_for_host_slot, HOST_WAIT_CAP).                *)
THEOREM WaitsAreCapped == Spec => []WaitsToTheCap
<1>1. HostInv => WaitsToTheCap
  <2> SUFFICES ASSUME HostInv, NEW s \in Scrapes PROVE waited[s] <= WaitCap + Answer
    BY DEF WaitsToTheCap
  <2>1. /\ WaitBounded(s) /\ timer[s] \in Nat /\ waited[s] \in Nat
        /\ WaitCap \in Nat /\ Answer \in Nat
    BY DurationTypes DEF HostInv, ScrapeInv, Types, TypeOK
  <2>2. CASE pc[s] = "asking"
    BY <2>1, <2>2 DEF WaitBounded
  <2>3. CASE pc[s] = "sleeping"
    BY <2>1, <2>3 DEF WaitBounded
  <2>4. CASE pc[s] \notin {"asking", "sleeping"}
    BY <2>1, <2>4 DEF WaitBounded
  <2> QED BY <2>2, <2>3, <2>4
<1> QED BY <1>1, HostInvHolds, PTL

-----------------------------------------------------------------------------
(*                                STORAGE                                  *)
(* The inductive invariant *)

Amounts == UNION {[S -> Nat] : S \in SUBSET Objects}

PassStates ==
    [op : {"unused", "done", "job", "crawl", "cleanup", "user"}, scope : SUBSET Parents,
     work : Amounts, at : Objects \cup {Nobody}, statted : SUBSET Objects, freed : Nat,
     unowed : Nat, gone : SUBSET Objects, failed : SUBSET Parents, again : SUBSET Objects]

Walks ==
    [pc : {"off", "walk", "count", "commit"}, listing : SUBSET Objects, fixed : SUBSET Objects,
     dropped : SUBSET Objects, again : SUBSET Objects, total : Nat, used : Nat,
     alone : BOOLEAN, failed : BOOLEAN]

StorageTypes ==
    /\ bucket \subseteq Objects /\ stored \subseteq Objects \ OldObjects
    /\ ledger \in Amounts /\ \A o \in DOMAIN ledger : ledger[o] \in {0, Size[o]}
    /\ counter \in Nat /\ legacy \subseteq OldObjects /\ parents \subseteq Parents
    /\ holder \in Passes \cup {Nobody}
    /\ pass \in [Passes -> PassStates] /\ recon \in Walks
    /\ owed \in Int /\ tangled \in BOOLEAN

(* What is anywhere was stored; what an open transaction removed or missed  *)
(* is back only as a worker's repeated upload.                              *)
Known == stored \cup OldObjects

Fresh(p) ==
    /\ pass[p].scope = {} /\ DOMAIN pass[p].work = {} /\ pass[p].at = Nobody
    /\ pass[p].statted = {} /\ pass[p].freed = 0 /\ pass[p].unowed = 0
    /\ pass[p].gone = {} /\ pass[p].failed = {}

PlacedPass(p) ==
    /\ Open(p) \/ Fresh(p)
    /\ DOMAIN pass[p].work \cup pass[p].gone \subseteq Known
    /\ pass[p].at # Nobody => pass[p].at \in DOMAIN pass[p].work
    /\ (pass[p].gone \cup {pass[p].at}) \cap bucket \subseteq pass[p].again
    /\ pass[p].again \subseteq stored

Placed ==
    /\ bucket \cup DOMAIN ledger \subseteq Known
    /\ recon.listing \cup recon.fixed \cup recon.dropped \subseteq Known
    /\ recon.dropped \cap bucket \subseteq recon.again
    /\ \A p \in Passes : PlacedPass(p)

(* Which transactions are tangled when they overlap.                       *)
Apart ==
    /\ \A p \in Passes : Open(p) => ~recon.alone /\ (Busy => tangled)
    /\ \A p, q \in Passes : Open(p) /\ Open(q) /\ p # q => tangled

(* A row in an open pass's scope is to be worked on, or its object is done *)
(* with, or its removal failed, or it came unread.                         *)
Covered(p) ==
    \A o \in DOMAIN ledger :
        ParentOf[o] \in pass[p].scope =>
            \/ o \in unread \cup pass[p].gone \cup (DOMAIN pass[p].work \ pass[p].statted)
            \/ ParentOf[o] \in pass[p].failed

(* The legacy objects a pass may still release on their runs' stamps, and  *)
(* what it is releasing so now.                                            *)
Claims == {o \in legacy \cap bucket : o \notin DOMAIN ledger /\ ParentOf[o] \in parents}
Claimable == Bytes([o \in Claims |-> Size[o]])
Claimed(p) ==
    IF pass[p].at \in pass[p].statted \ DOMAIN ledger THEN pass[p].work[pass[p].at] ELSE 0

(* What an open pass that overlaps no other transaction has released.      *)
Account(p) ==
    /\ pass[p].scope \subseteq parents
    /\ pass[p].gone \subseteq DOMAIN ledger /\ pass[p].statted \subseteq legacy
    /\ pass[p].statted = {} => 
          /\ DOMAIN pass[p].work \subseteq DOMAIN ledger \ pass[p].gone
          /\ \A o \in DOMAIN pass[p].work : pass[p].work[o] = ledger[o]
    /\ pass[p].statted # {} => 
          /\ DOMAIN pass[p].work \subseteq pass[p].statted
          /\ \A o \in DOMAIN pass[p].work :
                /\ ParentOf[o] \in parents /\ pass[p].work[o] \in {0, Size[o]}
                /\ o \in bucket \/ o = pass[p].at \/ pass[p].work[o] = 0
    /\ pass[p].freed = pass[p].unowed + Bytes(Restrict(ledger, pass[p].gone))
    /\ owed >= pass[p].unowed + Claimable + Claimed(p)

Accounted ==
    ~tangled =>
        /\ counter = Bytes(ledger) + owed
        /\ owed >= Claimable
        /\ \A p \in Passes : Open(p) => Account(p)

(* What a walk beside which no row moved has seen.                         *)
Quiet == recon.alone \/ ~tangled

Walked ==
    /\ recon.pc = "walk" => recon.dropped = {}
    /\ recon.pc \in {"count", "commit"} => recon.listing = {}
    /\ Busy /\ Quiet =>
          /\ \A o \in legacy \cap bucket :
                ParentOf[o] \in parents => o \in recon.listing \cup DOMAIN Own
          /\ recon.pc = "commit" => recon.total = Bytes(Own) /\ recon.used = counter

Repairing ==
    Busy /\ recon.alone /\ ~recon.failed =>
        /\ recon.listing \subseteq bucket
        /\ \A o \in bucket \ recon.listing : o \in DOMAIN Own /\ Own[o] = Size[o]
        /\ recon.pc # "walk" => DOMAIN Own \subseteq bucket

StorageInv ==
    /\ StorageTypes /\ Placed /\ Apart
    /\ \A p \in Passes : Open(p) => Covered(p)
    /\ Accounted /\ Walked /\ Repairing

-----------------------------------------------------------------------------
(* Sums *)

LEMMA AmountsAre ==
  ASSUME NEW f
  PROVE  f \in Amounts <=> /\ f = [o \in DOMAIN f |-> f[o]]
                           /\ DOMAIN f \subseteq Objects
                           /\ \A o \in DOMAIN f : f[o] \in Nat
  BY DEF Amounts

LEMMA BytesAreFinite ==
  ASSUME NEW f \in Amounts
  PROVE  IsFiniteSet(BytesOf(f)) /\ Bytes(f) \in Nat
<1>1. IsFiniteSet(DOMAIN f)
  BY AmountsAre, StorageAssumption, FS_Subset
<1> DEFINE T == {{o} \X (1..f[o]) : o \in DOMAIN f}
           g == [o \in DOMAIN f |-> {o} \X (1..f[o])]
<1>2. g \in Surjection(DOMAIN f, T)
  BY DEF Surjection
<1>3. IsFiniteSet(T)
  <2> HIDE DEF T, g
  <2> QED BY <1>1, <1>2, FS_Surjection
<1>4. \A U \in T : IsFiniteSet(U)
  <2> SUFFICES ASSUME NEW o \in DOMAIN f PROVE IsFiniteSet({o} \X (1..f[o]))
    OBVIOUS
  <2>1. f[o] \in Nat
    BY AmountsAre
  <2>2. IsFiniteSet({o})
    BY FS_Singleton
  <2>3. IsFiniteSet(1..f[o])
    BY <2>1, FS_Interval
  <2> QED BY <2>2, <2>3, FS_Product
<1>5. IsFiniteSet(UNION T)
  <2> HIDE DEF T
  <2> QED BY <1>3, <1>4, FS_UNION
<1> QED BY <1>5, FS_CardinalityType DEF BytesOf, Bytes

(* The sum over a function split in two is the sum of its parts' sums.     *)
LEMMA BytesSplit ==
  ASSUME NEW f \in Amounts, NEW g \in Amounts, NEW h \in Amounts,
         DOMAIN f = DOMAIN g \cup DOMAIN h, DOMAIN g \cap DOMAIN h = {},
         \A o \in DOMAIN g : g[o] = f[o], \A o \in DOMAIN h : h[o] = f[o]
  PROVE  Bytes(f) = Bytes(g) + Bytes(h)
<1>1. BytesOf(f) = BytesOf(g) \cup BytesOf(h)
  BY DEF BytesOf
<1>2. BytesOf(g) \cap BytesOf(h) = {}
  BY DEF BytesOf
<1>3. Cardinality(BytesOf(g) \cap BytesOf(h)) = 0
  BY <1>2, FS_EmptySet
<1>4. /\ IsFiniteSet(BytesOf(g)) /\ Cardinality(BytesOf(g)) \in Nat
      /\ IsFiniteSet(BytesOf(h)) /\ Cardinality(BytesOf(h)) \in Nat
  BY BytesAreFinite DEF Bytes
<1>5. Cardinality(BytesOf(g) \cup BytesOf(h)) =
          Cardinality(BytesOf(g)) + Cardinality(BytesOf(h)) - Cardinality(BytesOf(g) \cap BytesOf(h))
  BY <1>4, FS_Union
<1> QED BY <1>1, <1>3, <1>4, <1>5 DEF Bytes

LEMMA BytesOfOne ==
  ASSUME NEW f \in Amounts, NEW o, DOMAIN f = {o}
  PROVE  Bytes(f) = f[o]
<1>1. f[o] \in Nat
  BY AmountsAre
<1>2. BytesOf(f) = {o} \X (1..f[o])
  BY DEF BytesOf
<1>3. IsFiniteSet({o}) /\ Cardinality({o}) = 1
  BY FS_Singleton
<1>4. IsFiniteSet(1..f[o]) /\ Cardinality(1..f[o]) = f[o]
  BY <1>1, FS_Interval
<1>5. Cardinality({o} \X (1..f[o])) = Cardinality({o}) * Cardinality(1..f[o])
  BY <1>3, <1>4, FS_Product
<1>6. Cardinality({o}) * Cardinality(1..f[o]) = f[o]
  BY <1>1, <1>3, <1>4
<1>7. Bytes(f) = Cardinality({o} \X (1..f[o]))
  BY <1>2 DEF Bytes
<1> QED BY <1>5, <1>6, <1>7

LEMMA BytesOfNone ==
  ASSUME NEW f, DOMAIN f = {}
  PROVE  Bytes(f) = 0
<1>1. BytesOf(f) = {}
  BY DEF BytesOf
<1> QED BY <1>1, FS_EmptySet DEF Bytes

(* A part of a function, by what is not in it.                             *)
LEMMA PartsAreAmounts ==
  ASSUME NEW f \in Amounts, NEW S, S \subseteq DOMAIN f
  PROVE  /\ Restrict(f, S) \in Amounts /\ DOMAIN Restrict(f, S) = S
         /\ \A o \in S : Restrict(f, S)[o] = f[o]
  BY AmountsAre DEF Restrict, Amounts

LEMMA BytesOfPart ==
  ASSUME NEW f \in Amounts, NEW g \in Amounts, DOMAIN g \subseteq DOMAIN f,
         \A o \in DOMAIN g : g[o] = f[o]
  PROVE  Bytes(g) <= Bytes(f) /\ Bytes(f) = Bytes(g) + Bytes(Without(f, DOMAIN g))
<1> DEFINE h == Restrict(f, DOMAIN f \ DOMAIN g)
<1>1. h \in Amounts /\ DOMAIN h = DOMAIN f \ DOMAIN g /\ \A o \in DOMAIN h : h[o] = f[o]
  BY PartsAreAmounts
<1>2. Bytes(f) = Bytes(g) + Bytes(h)
  <2> HIDE DEF h
  <2> QED BY <1>1, BytesSplit
<1> QED BY <1>1, <1>2, BytesAreFinite DEF Without

LEMMA BytesOfMore ==
  ASSUME NEW f \in Amounts, NEW g \in Amounts, NEW o, o \notin DOMAIN g,
         DOMAIN f = DOMAIN g \cup {o}, \A x \in DOMAIN g : g[x] = f[x]
  PROVE  Bytes(f) = Bytes(g) + f[o]
<1> DEFINE h == Restrict(f, {o})
<1>1. h \in Amounts /\ DOMAIN h = {o} /\ h[o] = f[o]
  BY PartsAreAmounts
<1>2. Bytes(f) = Bytes(g) + Bytes(h)
  <2> HIDE DEF h
  <2> QED BY <1>1, BytesSplit
<1>3. Bytes(h) = f[o]
  <2> HIDE DEF h
  <2> QED BY <1>1, BytesOfOne
<1> QED BY <1>2, <1>3

-----------------------------------------------------------------------------
(* What the steps do to a pass and to the walk, field by field *)

Moved(p) ==
    /\ pass' \in [Passes -> PassStates]
    /\ \A q \in Passes : q # p => pass'[q] = pass[q]

SameBut(p, fields) ==
    /\ "op" \in fields \/ pass'[p].op = pass[p].op
    /\ "scope" \in fields \/ pass'[p].scope = pass[p].scope
    /\ "work" \in fields \/ pass'[p].work = pass[p].work
    /\ "at" \in fields \/ pass'[p].at = pass[p].at
    /\ "statted" \in fields \/ pass'[p].statted = pass[p].statted
    /\ "freed" \in fields \/ pass'[p].freed = pass[p].freed
    /\ "unowed" \in fields \/ pass'[p].unowed = pass[p].unowed
    /\ "gone" \in fields \/ pass'[p].gone = pass[p].gone
    /\ "failed" \in fields \/ pass'[p].failed = pass[p].failed
    /\ "again" \in fields \/ pass'[p].again = pass[p].again

(* A step beside the walk.                                                 *)
WalkKeeps ==
    /\ recon' \in Walks /\ recon'.pc = recon.pc /\ recon'.listing = recon.listing
    /\ recon'.fixed = recon.fixed /\ recon'.dropped = recon.dropped
    /\ recon'.total = recon.total /\ recon'.used = recon.used
    /\ recon'.failed = recon.failed /\ ~recon'.alone

LEMMA NothingIs == Nothing \in Amounts /\ DOMAIN Nothing = {}
  BY AmountsAre DEF Nothing

LEMMA PassFields ==
  ASSUME StorageTypes, NEW p \in Passes
  PROVE  /\ pass[p].op \in {"unused", "done", "job", "crawl", "cleanup", "user"}
         /\ pass[p].scope \subseteq Parents /\ pass[p].work \in Amounts
         /\ pass[p].at \in Objects \cup {Nobody} /\ pass[p].statted \subseteq Objects
         /\ pass[p].freed \in Nat /\ pass[p].unowed \in Nat
         /\ pass[p].gone \subseteq Objects /\ pass[p].failed \subseteq Parents
         /\ pass[p].again \subseteq Objects
  BY DEF StorageTypes, PassStates

(* A worker's upload changes no pass, except for what it knows not to be   *)
(* gone any more.                                                          *)
LEMMA StoreEffect ==
  ASSUME StorageTypes, NEW o \in Objects, Store(o)
  PROVE  /\ pass' \in [Passes -> PassStates]
         /\ \A q \in Passes :
               /\ SameBut(q, {"again"})
               /\ pass[q].again \subseteq pass'[q].again
               /\ pass'[q].again \subseteq pass[q].again \cup {o}
               /\ o \in pass[q].gone \cup {pass[q].at} => o \in pass'[q].again
         /\ WalkKeeps /\ recon.again \subseteq recon'.again
         /\ o \in recon.dropped => o \in recon'.again
<1>1. ASSUME NEW q \in Passes
      PROVE  /\ pass'[q] \in PassStates /\ SameBut(q, {"again"})
             /\ pass[q].again \subseteq pass'[q].again
             /\ pass'[q].again \subseteq pass[q].again \cup {o}
             /\ o \in pass[q].gone \cup {pass[q].at} => o \in pass'[q].again
  <2> DEFINE A == IF o \in pass[q].gone \cup {pass[q].at} THEN pass[q].again \cup {o}
                  ELSE pass[q].again
             r == [pass[q] EXCEPT !.again = A]
  <2>1. pass[q] \in PassStates
    BY DEF StorageTypes
  <2>2. pass'[q] = IF o \in pass[q].gone \cup {pass[q].at}
                   THEN [pass[q] EXCEPT !.again = @ \cup {o}] ELSE pass[q]
    BY DEF Store
  <2>3. A \subseteq Objects
    BY PassFields
  <2>4. pass'[q] = r
    BY <2>1, <2>2 DEF PassStates
  <2>5. /\ A = pass[q].again \/ A = pass[q].again \cup {o}
        /\ o \in pass[q].gone \cup {pass[q].at} => A = pass[q].again \cup {o}
    OBVIOUS
  <2> HIDE DEF A
  <2>6. r \in PassStates /\ r.again = A
    BY <2>1, <2>3 DEF PassStates
  <2>7. SameBut(q, {"again"})
    BY <2>1, <2>4 DEF SameBut, PassStates
  <2> HIDE DEF r
  <2> QED BY <2>4, <2>5, <2>6, <2>7
<1>2. pass' \in [Passes -> PassStates]
  <2>1. pass' = [q \in Passes |-> pass'[q]]
    BY DEF Store
  <2> QED BY <1>1, <2>1
<1>3. WalkKeeps /\ recon.again \subseteq recon'.again /\ (o \in recon.dropped => o \in recon'.again)
  <2> DEFINE A == recon.again \cup ({o} \cap recon.dropped)
  <2>1. recon' = [recon EXCEPT !.alone = FALSE, !.again = A] /\ recon \in Walks
    BY DEF Store, StorageTypes
  <2>2. A \subseteq Objects /\ recon.again \subseteq A /\ (o \in recon.dropped => o \in A)
    BY <2>1 DEF Walks
  <2> HIDE DEF A
  <2> QED BY <2>1, <2>2 DEF WalkKeeps, Walks
<1> QED BY <1>1, <1>2, <1>3

LEMMA BeginEffect ==
  ASSUME StorageTypes, NEW p \in Passes, NEW op \in {"job", "crawl", "cleanup", "user"}, Begin(p, op)
  PROVE  /\ Moved(p) /\ SameBut(p, {"op", "scope", "work"})
         /\ pass'[p].op = op /\ pass'[p].scope = Scope(op) /\ Scope(op) \subseteq parents
         /\ DOMAIN pass'[p].work = {o \in DOMAIN ledger : ParentOf[o] \in Scope(op)}
         /\ \A o \in DOMAIN pass'[p].work : pass'[p].work[o] = ledger[o]
<1> DEFINE W == {o \in DOMAIN ledger : ParentOf[o] \in Scope(op)}
           r == [pass[p] EXCEPT !.op = op, !.scope = Scope(op), !.work = Restrict(ledger, W)]
<1>1. Restrict(ledger, W) \in Amounts /\ DOMAIN Restrict(ledger, W) = W
      /\ \A o \in W : Restrict(ledger, W)[o] = ledger[o]
  BY PartsAreAmounts DEF StorageTypes
<1>2. Scope(op) \subseteq parents /\ parents \subseteq Parents
  BY DEF Scope, StorageTypes
<1>3. pass' = [pass EXCEPT ![p] = r] /\ pass \in [Passes -> PassStates] /\ pass[p] \in PassStates
  BY DEF Begin, StorageTypes
<1> HIDE DEF W
<1>4. r \in PassStates
  BY <1>1, <1>2, <1>3 DEF PassStates
<1>5. pass'[p] = r
  BY <1>3
<1>6. Moved(p)
  <2> HIDE DEF r
  <2> QED BY <1>3, <1>4 DEF Moved
<1>7. r.op = op /\ r.scope = Scope(op) /\ r.work = Restrict(ledger, W) /\ SameBut(p, {"op", "scope", "work"})
  BY <1>3, <1>5 DEF SameBut, PassStates
<1> HIDE DEF r
<1> QED BY <1>1, <1>2, <1>5, <1>6, <1>7 DEF W

LEMMA StatEffect ==
  ASSUME StorageTypes, NEW p \in Passes, NEW o \in Objects, StatLegacy(p, o)
  PROVE  /\ Moved(p) /\ SameBut(p, {"work", "statted"})
         /\ pass'[p].statted = pass[p].statted \cup {o} /\ DOMAIN pass'[p].work = {o}
         /\ pass'[p].work[o] \in {0, Size[o]}
         /\ pass'[p].work[o] # 0 => o \in bucket
         /\ DOMAIN pass[p].work = {}
<1>1. PICK w \in {0, Size[o]} :
         /\ w # 0 => o \in bucket
         /\ pass' = [pass EXCEPT ![p].statted = @ \cup {o}, ![p].work = With(Nothing, o, w)]
  BY DEF StatLegacy
<1> DEFINE r == [pass[p] EXCEPT !.statted = @ \cup {o}, !.work = With(Nothing, o, w)]
<1>2. w \in Nat
  BY StorageAssumption
<1>3. With(Nothing, o, w) \in Amounts /\ DOMAIN With(Nothing, o, w) = {o} /\ With(Nothing, o, w)[o] = w
  BY <1>2, AmountsAre DEF With, Nothing
<1>4. pass' = [pass EXCEPT ![p] = r] /\ pass \in [Passes -> PassStates] /\ pass[p] \in PassStates
  BY <1>1 DEF StorageTypes
<1>5. r \in PassStates
  BY <1>3, <1>4 DEF PassStates
<1>6. pass'[p] = r
  BY <1>4
<1>7. Moved(p)
  <2> HIDE DEF r
  <2> QED BY <1>4, <1>5 DEF Moved
<1>8. r.statted = pass[p].statted \cup {o} /\ r.work = With(Nothing, o, w) /\ SameBut(p, {"work", "statted"})
  BY <1>4, <1>6 DEF SameBut, PassStates
<1>9. DOMAIN pass[p].work = {}
  BY NothingIs DEF StatLegacy
<1> HIDE DEF r
<1> QED BY <1>1, <1>3, <1>6, <1>7, <1>8, <1>9

LEMMA RemoveEffect ==
  ASSUME StorageTypes, NEW p \in Passes, NEW o \in Objects, Remove(p, o)
  PROVE  Moved(p) /\ SameBut(p, {"at"}) /\ pass'[p].at = o
<1> DEFINE r == [pass[p] EXCEPT !.at = o]
<1>1. pass' = [pass EXCEPT ![p] = r] /\ pass \in [Passes -> PassStates] /\ pass[p] \in PassStates
  BY DEF Remove, StorageTypes
<1>2. r \in PassStates
  BY <1>1 DEF PassStates
<1>3. pass'[p] = r /\ r.at = o /\ SameBut(p, {"at"})
  BY <1>1 DEF SameBut, PassStates
<1> HIDE DEF r
<1> QED BY <1>1, <1>2, <1>3 DEF Moved

LEMMA WithoutOne ==
  ASSUME NEW f \in Amounts, NEW o
  PROVE  /\ Without(f, {o}) \in Amounts /\ DOMAIN Without(f, {o}) = DOMAIN f \ {o}
         /\ \A x \in DOMAIN f \ {o} : Without(f, {o})[x] = f[x]
  BY PartsAreAmounts DEF Without

LEMMA RemoveFailsEffect ==
  ASSUME StorageTypes, NEW p \in Passes, NEW o \in Objects, RemoveFails(p, o)
  PROVE  /\ Moved(p) /\ SameBut(p, {"work", "failed"})
         /\ pass'[p].failed = pass[p].failed \cup {ParentOf[o]}
         /\ DOMAIN pass'[p].work = DOMAIN pass[p].work \ {o}
         /\ \A x \in DOMAIN pass'[p].work : pass'[p].work[x] = pass[p].work[x]
<1> DEFINE W == Without(pass[p].work, {o})
           r == [pass[p] EXCEPT !.work = W, !.failed = @ \cup {ParentOf[o]}]
<1>1. W \in Amounts /\ DOMAIN W = DOMAIN pass[p].work \ {o}
      /\ \A x \in DOMAIN W : W[x] = pass[p].work[x]
  <2>1. pass[p].work \in Amounts
    BY PassFields
  <2> QED BY <2>1, WithoutOne
<1>2. pass' = [pass EXCEPT ![p] = r] /\ pass \in [Passes -> PassStates] /\ pass[p] \in PassStates
  BY DEF RemoveFails, StorageTypes
<1> HIDE DEF W
<1>3. r \in PassStates
  <2>1. ParentOf[o] \in Parents
    BY StorageAssumption
  <2> QED BY <1>1, <1>2, <2>1 DEF PassStates
<1>4. pass'[p] = r /\ r.work = W /\ r.failed = pass[p].failed \cup {ParentOf[o]}
      /\ SameBut(p, {"work", "failed"})
  BY <1>2 DEF SameBut, PassStates
<1> HIDE DEF r
<1> QED BY <1>1, <1>2, <1>3, <1>4 DEF Moved

LEMMA RefundEffect ==
  ASSUME StorageTypes, NEW p \in Passes, Refund(p), pass[p].at \in DOMAIN pass[p].work
  PROVE  LET o == pass[p].at
             w == pass[p].work[o]
             old == o \in pass[p].statted
         IN /\ Moved(p) /\ SameBut(p, {"work", "at", "freed", "unowed", "gone"})
            /\ pass'[p].at = Nobody /\ o \in Objects
            /\ DOMAIN pass'[p].work = DOMAIN pass[p].work \ {o} /\ w \in Nat
            /\ \A x \in DOMAIN pass'[p].work : pass'[p].work[x] = pass[p].work[x]
            /\ pass'[p].freed = pass[p].freed + w
            /\ pass'[p].unowed = pass[p].unowed + (IF old THEN w ELSE 0)
            /\ pass'[p].gone = IF old THEN pass[p].gone ELSE pass[p].gone \cup {o}
<1> DEFINE o == pass[p].at
           w == pass[p].work[o]
           old == o \in pass[p].statted
           W == Without(pass[p].work, {o})
           v == pass[p].freed + w
           u == pass[p].unowed + (IF old THEN w ELSE 0)
           g == IF old THEN pass[p].gone ELSE pass[p].gone \cup {o}
           r == [pass[p] EXCEPT !.at = Nobody, !.work = W, !.freed = v,
                    !.unowed = u, !.gone = g]
<1>1. W \in Amounts /\ DOMAIN W = DOMAIN pass[p].work \ {o}
      /\ \A x \in DOMAIN W : W[x] = pass[p].work[x]
  <2>1. pass[p].work \in Amounts
    BY PassFields
  <2> QED BY <2>1, WithoutOne
<1>2. w \in Nat /\ o \in Objects /\ o # Nobody
  BY PassFields, AmountsAre, StorageAssumption
<1>3. pass' = [pass EXCEPT ![p] = r] /\ pass \in [Passes -> PassStates] /\ pass[p] \in PassStates
  BY DEF Refund, StorageTypes
<1>9. v \in Nat /\ u \in Nat /\ g \subseteq Objects
  BY <1>2, PassFields
<1> HIDE DEF W, w, v, u, g
<1>4. r \in PassStates
  BY <1>1, <1>2, <1>3, <1>9 DEF PassStates
<1>5. pass'[p] = r
  BY <1>3
<1>6. /\ r.work = W /\ r.at = Nobody /\ r.freed = v
      /\ r.unowed = u /\ r.gone = g
      /\ r.op = pass[p].op /\ r.scope = pass[p].scope /\ r.statted = pass[p].statted
      /\ r.failed = pass[p].failed /\ r.again = pass[p].again
  BY <1>3 DEF PassStates
<1>7. Moved(p)
  <2> HIDE DEF r
  <2> QED BY <1>3, <1>4 DEF Moved
<1> HIDE DEF r
<1>8. SameBut(p, {"work", "at", "freed", "unowed", "gone"})
  BY <1>5, <1>6 DEF SameBut
<1> QED BY <1>1, <1>2, <1>5, <1>6, <1>7, <1>8 DEF W, w, v, u, g

LEMMA CloseEffect ==
  ASSUME StorageTypes, NEW p \in Passes, Close(p)
  PROVE  /\ Moved(p) /\ pass'[p] = [Unused EXCEPT !.op = "done"]
         /\ holder' \in Passes \cup {Nobody}
<1>1. [Unused EXCEPT !.op = "done"] \in PassStates
  BY NothingIs DEF Unused, PassStates
<1> HIDE DEF Unused, PassStates
<1> QED BY <1>1 DEF StorageTypes, Close, Moved

LEMMA BesideEffect ==
  ASSUME StorageTypes, Beside
  PROVE  WalkKeeps /\ recon'.again = recon.again
  BY DEF StorageTypes, Walks, Beside, WalkKeeps

LEMMA WalkFields ==
  ASSUME StorageTypes
  PROVE  /\ recon.pc \in {"off", "walk", "count", "commit"} /\ recon.listing \subseteq Objects
         /\ recon.fixed \subseteq Objects /\ recon.dropped \subseteq Objects
         /\ recon.total \in Nat /\ recon.used \in Nat /\ recon.alone \in BOOLEAN
         /\ recon.failed \in BOOLEAN
  BY DEF StorageTypes, Walks

LEMMA OwnIs ==
  ASSUME StorageTypes
  PROVE  /\ Own \in Amounts /\ DOMAIN Own = (DOMAIN ledger \cup recon.fixed) \ recon.dropped
         /\ \A o \in DOMAIN Own : Own[o] \in {0, Size[o]}
         /\ \A o \in DOMAIN Own : o \in recon.fixed => Own[o] = Size[o]
         /\ \A o \in DOMAIN Own \ recon.fixed : o \in DOMAIN ledger /\ Own[o] = ledger[o]
<1>1. /\ DOMAIN Own = (DOMAIN ledger \cup recon.fixed) \ recon.dropped
      /\ Own = [o \in DOMAIN Own |-> Own[o]]
      /\ \A o \in DOMAIN Own : Own[o] = IF o \in recon.fixed THEN Size[o] ELSE ledger[o]
  BY DEF Own
<1>2. DOMAIN Own \subseteq Objects
  BY <1>1, WalkFields, AmountsAre DEF StorageTypes
<1>3. \A o \in DOMAIN Own : Own[o] \in {0, Size[o]}
  BY <1>1, <1>2 DEF StorageTypes
<1>4. \A o \in Objects : Size[o] \in Nat
  BY StorageAssumption
<1>5. Own \in Amounts
  BY <1>1, <1>2, <1>3, <1>4, AmountsAre
<1> QED BY <1>1, <1>3, <1>5

LEMMA WithIs ==
  ASSUME NEW f \in Amounts, NEW o \in Objects, NEW n \in Nat
  PROVE  /\ With(f, o, n) \in Amounts /\ DOMAIN With(f, o, n) = DOMAIN f \cup {o}
         /\ With(f, o, n)[o] = n
         /\ \A x \in DOMAIN f : x # o => With(f, o, n)[x] = f[x]
  BY AmountsAre DEF With

LEMMA WithoutIs ==
  ASSUME NEW f \in Amounts, NEW S
  PROVE  /\ Without(f, S) \in Amounts /\ DOMAIN Without(f, S) = DOMAIN f \ S
         /\ \A x \in DOMAIN f \ S : Without(f, S)[x] = f[x]
  BY PartsAreAmounts DEF Without

-----------------------------------------------------------------------------
(* StorageTypes *)

LEMMA FinishEffect ==
  ASSUME StorageTypes, NEW p \in Passes, Finish(p)
  PROVE  /\ ledger' \in Amounts
         /\ DOMAIN ledger' =
               {o \in DOMAIN ledger : ParentOf[o] \notin Deletes(p)} \ pass[p].gone
         /\ \A o \in DOMAIN ledger' : ledger'[o] = ledger[o]
         /\ counter' \in Nat /\ owed' \in Int
<1> DEFINE dropped == {o \in DOMAIN ledger : ParentOf[o] \in Deletes(p)}
<1>1. ledger \in Amounts /\ counter \in Nat /\ owed \in Int /\ tangled \in BOOLEAN
  BY DEF StorageTypes
<1>2. ledger' = Without(ledger, dropped \cup pass[p].gone)
  BY DEF Finish
<1>3. counter' \in Nat
  BY <1>1, PassFields DEF Finish
<1>4. Bytes(Restrict(ledger, dropped \ pass[p].gone)) \in Nat
  <2>1. Restrict(ledger, dropped \ pass[p].gone) \in Amounts
    BY <1>1, PartsAreAmounts
  <2> QED BY <2>1, BytesAreFinite
<1>5. owed' \in Int
  <2>1. owed' = IF tangled THEN 0
                ELSE owed - pass[p].unowed + Bytes(Restrict(ledger, dropped \ pass[p].gone))
    BY DEF Finish
  <2> HIDE DEF dropped
  <2> QED BY <1>1, <1>4, <2>1, PassFields
<1>6. /\ ledger' \in Amounts /\ DOMAIN ledger' = DOMAIN ledger \ (dropped \cup pass[p].gone)
      /\ \A o \in DOMAIN ledger' : ledger'[o] = ledger[o]
  <2> DEFINE S == dropped \cup pass[p].gone
  <2>1. Without(ledger, S) \in Amounts /\ DOMAIN Without(ledger, S) = DOMAIN ledger \ S
        /\ \A o \in DOMAIN ledger \ S : Without(ledger, S)[o] = ledger[o]
    <3> HIDE DEF S
    <3> QED BY <1>1, WithoutIs
  <2> QED BY <1>2, <2>1
<1> QED BY <1>3, <1>5, <1>6

LEMMA TypesHoldAtFirst == StorageInit => StorageTypes
<1> SUFFICES ASSUME StorageInit PROVE StorageTypes
  OBVIOUS
<1>1. ledger \in Amounts /\ \A o \in DOMAIN ledger : ledger[o] = 0
  BY AmountsAre, StorageAssumption DEF StorageInit
<1>2. [o \in legacy |-> Size[o]] \in Amounts
  BY AmountsAre, StorageAssumption DEF StorageInit
<1>3. counter \in Nat /\ owed \in Int
  BY <1>2, BytesAreFinite DEF StorageInit
<1>4. Unused \in PassStates
  BY NothingIs DEF Unused, PassStates
<1>5. pass \in [Passes -> PassStates]
  <2> HIDE DEF Unused, PassStates
  <2> QED BY <1>4 DEF StorageInit
<1>6. recon \in Walks
  BY DEF StorageInit, Off, Walks
<1> QED BY <1>1, <1>3, <1>5, <1>6, StorageAssumption DEF StorageInit, StorageTypes

LEMMA StoringKeepsTypes ==
  ASSUME StorageTypes, NEW o \in Objects, Store(o) \/ Charge(o) \/ ChargeAgain(o) \/ Discard(o)
  PROVE  StorageTypes'
<1>1. CASE ChargeAgain(o)
  BY <1>1 DEF ChargeAgain, storageVars, StorageTypes, Walks, PassStates
<1>2. CASE Store(o) \/ Discard(o)
  <2>1. UNCHANGED <<ledger, counter, legacy, parents, holder, owed, tangled>>
    BY <1>2 DEF Store, Discard, rows, history
  <2>2. recon' \in Walks /\ pass' \in [Passes -> PassStates]
    <3>1. CASE Store(o)
      BY <3>1, StoreEffect DEF WalkKeeps
    <3>2. CASE Discard(o)
      BY <3>2, BesideEffect DEF Discard, WalkKeeps, StorageTypes
    <3> QED BY <1>2, <3>1, <3>2
  <2>3. bucket' \subseteq Objects /\ stored' \subseteq Objects \ OldObjects
    BY <1>2 DEF Store, Discard, StorageTypes
  <2> QED BY <2>1, <2>2, <2>3 DEF StorageTypes
<1>3. CASE Charge(o)
  <2>1. recon' \in Walks
    BY <1>3, BesideEffect DEF Charge, WalkKeeps
  <2>2. Size[o] \in Nat
    BY StorageAssumption
  <2>3. ledger' \in Amounts /\ \A x \in DOMAIN ledger' : ledger'[x] \in {0, Size[x]}
    <3> DEFINE f == With(ledger, o, Size[o])
    <3>1. ledger' = f /\ ledger \in Amounts /\ \A x \in DOMAIN ledger : ledger[x] \in {0, Size[x]}
      BY <1>3 DEF Charge, StorageTypes
    <3>2. f \in Amounts /\ DOMAIN f = DOMAIN ledger \cup {o} /\ f[o] = Size[o]
          /\ \A x \in DOMAIN ledger : x # o => f[x] = ledger[x]
      BY <2>2, <3>1, WithIs
    <3> HIDE DEF f
    <3> QED BY <3>1, <3>2
  <2>4. counter' \in Nat /\ owed' \in Int /\ tangled' \in BOOLEAN
    BY <1>3, <2>2 DEF Charge, StorageTypes, Busy
  <2> QED BY <1>3, <2>1, <2>3, <2>4 DEF Charge, StorageTypes
<1> QED BY <1>1, <1>2, <1>3

LEMMA PassesKeepTypes ==
  ASSUME StorageTypes, Placed, NEW p \in Passes, Pass(p)
  PROVE  StorageTypes'
<1> USE DEF rows, history
<1>1. CASE \E op \in {"job", "crawl", "cleanup", "user"} : Begin(p, op)
  <2>1. PICK op \in {"job", "crawl", "cleanup", "user"} : Begin(p, op)
    BY <1>1
  <2>2. recon' \in Walks /\ pass' \in [Passes -> PassStates]
    BY <2>1, BesideEffect, BeginEffect DEF Begin, Moved, WalkKeeps
  <2>3. owed' \in Int /\ tangled' \in BOOLEAN
    BY <2>1 DEF Begin, StorageTypes, Busy
  <2> QED BY <2>1, <2>2, <2>3 DEF Begin, StorageTypes
<1>2. CASE \E o \in Objects : StatLegacy(p, o) \/ Remove(p, o) \/ RemoveFails(p, o)
  <2>1. PICK o \in Objects : StatLegacy(p, o) \/ Remove(p, o) \/ RemoveFails(p, o)
    BY <1>2
  <2>2. recon' \in Walks
    BY <2>1, BesideEffect DEF StatLegacy, Remove, RemoveFails, WalkKeeps
  <2>3. pass' \in [Passes -> PassStates]
    BY <2>1, StatEffect, RemoveEffect, RemoveFailsEffect DEF Moved
  <2>4. bucket' \subseteq bucket
        /\ UNCHANGED <<ledger, counter, legacy, parents, stored, holder, owed, tangled>>
    BY <2>1 DEF StatLegacy, Remove, RemoveFails
  <2> QED BY <2>2, <2>3, <2>4 DEF StorageTypes
<1>3. CASE Refund(p)
  <2>1. pass[p].at \in DOMAIN pass[p].work
    BY <1>3 DEF Placed, PlacedPass, Refund
  <2>2. recon' \in Walks /\ pass' \in [Passes -> PassStates]
    BY <1>3, <2>1, BesideEffect, RefundEffect DEF Refund, Moved, WalkKeeps
  <2>3. owed' \in Int /\ tangled' \in BOOLEAN /\ holder' \in Passes \cup {Nobody}
    BY <1>3 DEF Refund, StorageTypes
  <2> QED BY <1>3, <2>2, <2>3 DEF Refund, StorageTypes
<1>4. CASE Finish(p)
  <2>1. recon' \in Walks /\ pass' \in [Passes -> PassStates] /\ holder' \in Passes \cup {Nobody}
    BY <1>4, BesideEffect, CloseEffect DEF Finish, Close, Moved, WalkKeeps
  <2>2. /\ ledger' \in Amounts /\ counter' \in Nat /\ owed' \in Int
        /\ \A o \in DOMAIN ledger' : ledger'[o] \in {0, Size[o]}
    BY <1>4, FinishEffect DEF StorageTypes
  <2> QED BY <1>4, <2>1, <2>2 DEF Finish, StorageTypes
<1>5. CASE Abandon(p)
  <2>1. recon' \in Walks /\ pass' \in [Passes -> PassStates] /\ holder' \in Passes \cup {Nobody}
    BY <1>5, BesideEffect, CloseEffect DEF Abandon, Close, Moved, WalkKeeps
  <2> QED BY <1>5, <2>1 DEF Abandon, StorageTypes
<1> QED BY <1>1, <1>2, <1>3, <1>4, <1>5 DEF Pass

LEMMA ReconcilingKeepsTypes ==
  ASSUME StorageTypes, Reconcile
  PROVE  StorageTypes'
<1> USE DEF rows, history
<1>1. recon' \in Walks
  <2>1. Off \in Walks
    BY DEF Off, Walks
  <2>2. bucket \subseteq Objects /\ recon \in Walks /\ counter \in Nat
    BY DEF StorageTypes
  <2>3. CASE StartWalk
    BY <2>1, <2>2, <2>3 DEF StartWalk, Walks, Open
  <2>4. CASE CommitWalk \/ AbortWalk
    BY <2>1, <2>4 DEF CommitWalk, AbortWalk
  <2>5. CASE CountRows
    <3>1. Bytes(Own) \in Nat
      BY OwnIs, BytesAreFinite
    <3> HIDE DEF Own, Bytes
    <3> QED BY <2>2, <2>5, <3>1 DEF CountRows, Walks
  <2>6. CASE DropDangling
    <3> DEFINE dangling == {o \in DOMAIN Own : o \notin bucket}
    <3>1. dangling \subseteq Objects
      BY OwnIs, WalkFields, AmountsAre DEF StorageTypes
    <3> HIDE DEF dangling
    <3>2. \/ recon' = [recon EXCEPT !.pc = "count", !.dropped = dangling]
          \/ \E o \in dangling : recon' = [recon EXCEPT !.pc = "count", !.dropped = dangling \ {o},
                                               !.failed = TRUE]
      BY <2>6 DEF DropDangling, dangling
    <3>3. CASE recon' = [recon EXCEPT !.pc = "count", !.dropped = dangling]
      BY <2>2, <3>1, <3>3 DEF Walks
    <3>4. ASSUME NEW o \in dangling,
                 recon' = [recon EXCEPT !.pc = "count", !.dropped = dangling \ {o}, !.failed = TRUE]
          PROVE  recon' \in Walks
      BY <2>2, <3>1, <3>4 DEF Walks
    <3> QED BY <3>2, <3>3, <3>4
  <2>7. CASE \E o \in Objects : WalkRecords(o) \/ WalkRemoves(o)
    <3>1. PICK o \in Objects : WalkRecords(o) \/ WalkRemoves(o)
      BY <2>7
    <3>2. CASE WalkRecords(o)
      <4> DEFINE F == IF o \in DOMAIN ledger /\ ledger[o] = Size[o] THEN recon.fixed
                      ELSE recon.fixed \cup {o}
      <4>1. F \subseteq Objects
        BY WalkFields
      <4>2. recon' = [recon EXCEPT !.listing = @ \ {o}, !.fixed = F]
        BY <3>2 DEF WalkRecords
      <4> HIDE DEF F
      <4> QED BY <2>2, <4>1, <4>2 DEF Walks
    <3>3. CASE WalkRemoves(o)
      BY <2>2, <3>3 DEF WalkRemoves, Walks
    <3> QED BY <3>1, <3>2, <3>3
  <2> QED BY <2>3, <2>4, <2>5, <2>6, <2>7 DEF Reconcile
<1>2. CASE CommitWalk
  <2>1. ledger' \in Amounts /\ \A o \in DOMAIN ledger' : ledger'[o] \in {0, Size[o]}
    BY <1>2, OwnIs DEF CommitWalk
  <2>2. counter' \in Nat /\ owed' \in Int /\ tangled' \in BOOLEAN
    BY <1>2, WalkFields DEF CommitWalk, StorageTypes
  <2> QED BY <1>1, <1>2, <2>1, <2>2 DEF CommitWalk, StorageTypes
<1>3. CASE StartWalk
  <2>1. owed' \in Int /\ tangled' \in BOOLEAN
    BY <1>3 DEF StartWalk, StorageTypes
  <2> QED BY <1>1, <1>3, <2>1 DEF StartWalk, StorageTypes
<1>4. CASE ~CommitWalk /\ ~StartWalk
  <2>1. bucket' \subseteq bucket
        /\ UNCHANGED <<ledger, counter, legacy, parents, stored, holder, pass, owed, tangled>>
    BY <1>4 DEF Reconcile, DropDangling, CountRows, AbortWalk, WalkRecords, WalkRemoves
  <2> QED BY <1>1, <2>1 DEF StorageTypes
<1> QED BY <1>2, <1>3, <1>4

LEMMA TypesKept ==
  ASSUME StorageTypes, Placed, StorageNext
  PROVE  StorageTypes'
  BY StoringKeepsTypes, PassesKeepTypes, ReconcilingKeepsTypes DEF StorageNext

-----------------------------------------------------------------------------
(* What the walk's steps do *)

LEMMA StartEffect ==
  ASSUME StorageTypes, StartWalk
  PROVE  /\ recon'.pc = "walk" /\ recon'.listing = bucket /\ recon'.fixed = {}
         /\ recon'.dropped = {} /\ ~recon'.failed
         /\ recon'.alone = (\A p \in Passes : ~Open(p))
<1> DEFINE alone == \A p \in Passes : ~Open(p)
<1>1. recon' = [Off EXCEPT !.pc = "walk", !.listing = bucket, !.alone = alone]
  BY DEF StartWalk
<1> HIDE DEF alone
<1>2. /\ recon'.pc = "walk" /\ recon'.listing = bucket /\ recon'.fixed = {}
      /\ recon'.dropped = {} /\ ~recon'.failed /\ recon'.alone = alone
  BY <1>1 DEF Off
<1> QED BY <1>2 DEF alone

LEMMA RecordsEffect ==
  ASSUME StorageTypes, NEW o \in Objects, WalkRecords(o)
  PROVE  /\ recon'.pc = "walk" /\ recon'.listing = recon.listing \ {o}
         /\ recon'.fixed = IF o \in DOMAIN ledger /\ ledger[o] = Size[o] THEN recon.fixed
                           ELSE recon.fixed \cup {o}
         /\ recon'.dropped = recon.dropped /\ recon'.alone = recon.alone
         /\ recon'.failed = recon.failed /\ recon'.again = recon.again
<1> DEFINE F == IF o \in DOMAIN ledger /\ ledger[o] = Size[o] THEN recon.fixed
                ELSE recon.fixed \cup {o}
<1>1. recon' = [recon EXCEPT !.listing = @ \ {o}, !.fixed = F] /\ recon.pc = "walk"
  BY DEF WalkRecords
<1> HIDE DEF F
<1>2. /\ recon'.pc = "walk" /\ recon'.listing = recon.listing \ {o} /\ recon'.fixed = F
      /\ recon'.dropped = recon.dropped /\ recon'.alone = recon.alone
      /\ recon'.failed = recon.failed /\ recon'.again = recon.again
  BY <1>1 DEF StorageTypes, Walks
<1> QED BY <1>2 DEF F

LEMMA RemovesEffect ==
  ASSUME StorageTypes, NEW o \in Objects, WalkRemoves(o)
  PROVE  /\ recon.pc = "walk" /\ recon'.pc = "walk" /\ recon'.listing = recon.listing \ {o}
         /\ recon'.fixed = recon.fixed /\ recon'.dropped = recon.dropped
         /\ recon'.alone = recon.alone /\ recon'.again = recon.again
         /\ \/ bucket' = bucket \ {o} /\ recon'.failed = recon.failed
            \/ bucket' = bucket /\ recon'.failed
  BY DEF WalkRemoves, StorageTypes, Walks

LEMMA DropEffect ==
  ASSUME StorageTypes, DropDangling
  PROVE  LET dangling == {o \in DOMAIN Own : o \notin bucket} IN
         /\ recon'.pc = "count" /\ recon'.listing = recon.listing /\ recon.listing = {}
         /\ recon'.fixed = recon.fixed /\ recon'.alone = recon.alone /\ recon.pc = "walk"
         /\ recon'.dropped \subseteq dangling
         /\ \/ recon'.dropped = dangling /\ recon'.failed = recon.failed
            \/ recon'.failed
<1> DEFINE dangling == {o \in DOMAIN Own : o \notin bucket}
<1>1. /\ \/ recon' = [recon EXCEPT !.pc = "count", !.dropped = dangling]
         \/ \E o \in dangling : recon' = [recon EXCEPT !.pc = "count", !.dropped = dangling \ {o},
                                              !.failed = TRUE]
      /\ recon.listing = {} /\ recon.pc = "walk"
  BY DEF DropDangling
<1> HIDE DEF dangling
<1>2. /\ recon'.pc = "count" /\ recon'.listing = recon.listing
      /\ recon'.fixed = recon.fixed /\ recon'.alone = recon.alone
      /\ recon'.dropped \subseteq dangling
      /\ \/ recon'.dropped = dangling /\ recon'.failed = recon.failed
         \/ recon'.failed
  <2>1. recon \in Walks
    BY DEF StorageTypes
  <2>2. CASE recon' = [recon EXCEPT !.pc = "count", !.dropped = dangling]
    BY <2>1, <2>2 DEF Walks
  <2>3. CASE \E o \in dangling : recon' = [recon EXCEPT !.pc = "count",
                                        !.dropped = dangling \ {o}, !.failed = TRUE]
    <3>1. PICK o \in dangling : recon' = [recon EXCEPT !.pc = "count",
                                      !.dropped = dangling \ {o}, !.failed = TRUE]
      BY <2>3
    <3> QED BY <2>1, <3>1 DEF Walks
  <2> QED BY <1>1, <2>2, <2>3
<1> QED BY <1>1, <1>2 DEF dangling

LEMMA CountEffect ==
  ASSUME StorageTypes, CountRows
  PROVE  /\ recon'.pc = "commit" /\ recon'.total = Bytes(Own) /\ recon'.used = counter
         /\ recon'.listing = recon.listing /\ recon'.fixed = recon.fixed
         /\ recon'.dropped = recon.dropped /\ recon'.alone = recon.alone
         /\ recon'.failed = recon.failed /\ recon'.again = recon.again /\ recon.pc = "count"
<1> HIDE DEF Own, Bytes
<1> QED BY DEF CountRows, StorageTypes, Walks

LEMMA EndEffect ==
  ASSUME CommitWalk \/ AbortWalk
  PROVE  /\ recon'.pc = "off" /\ recon'.listing = {} /\ recon'.fixed = {}
         /\ recon'.dropped = {} /\ ~recon'.alone
  BY DEF CommitWalk, AbortWalk, Off

-----------------------------------------------------------------------------
(* Where objects and rows are *)

LEMMA OpenStays ==
  ASSUME NEW p \in Passes, NEW q \in Passes, Moved(p), p # q
  PROVE  Open(q)' <=> Open(q)
  BY DEF Moved, Open

(* A step that brings nothing back into the bucket.                        *)
NoneBack == stored' = stored /\ bucket' \subseteq bucket

LEMMA OthersStayPlaced ==
  ASSUME NEW q \in Passes, PlacedPass(q), pass'[q] = pass[q], NoneBack
  PROVE  PlacedPass(q)'
  BY DEF PlacedPass, NoneBack, Known, Open, Fresh

LEMMA NoneIsBack ==
  ASSUME StorageTypes, StorageNext, ~ \E o \in Objects : Store(o)
  PROVE  NoneBack
<1> USE DEF rows
<1>1. ASSUME NEW o \in Objects, Charge(o) \/ ChargeAgain(o) \/ Discard(o) PROVE NoneBack
  BY <1>1 DEF Charge, ChargeAgain, Discard, NoneBack, storageVars
<1>2. ASSUME NEW p \in Passes, Pass(p) PROVE NoneBack
  BY <1>2 DEF Pass, Begin, StatLegacy, Remove, RemoveFails, Refund, Finish, Abandon, NoneBack
<1>3. ASSUME Reconcile PROVE NoneBack
  BY <1>3 DEF Reconcile, StartWalk, DropDangling, CountRows, CommitWalk, AbortWalk, WalkRecords,
     WalkRemoves, NoneBack
<1> QED BY <1>1, <1>2, <1>3 DEF StorageNext

LEMMA StoreKeepsPlaces ==
  ASSUME StorageTypes, Placed, NEW o \in Objects, Store(o)
  PROVE  Placed'
<1> USE DEF rows
<1>1. ledger' = ledger /\ bucket' = bucket \cup {o} /\ stored' = stored \cup {o}
  BY DEF Store
<1>2. ASSUME NEW q \in Passes PROVE PlacedPass(q)'
  <2>1. PlacedPass(q)
    BY DEF Placed
  <2>2. /\ pass'[q].op = pass[q].op /\ pass'[q].scope = pass[q].scope
        /\ pass'[q].work = pass[q].work /\ pass'[q].at = pass[q].at
        /\ pass'[q].statted = pass[q].statted /\ pass'[q].freed = pass[q].freed
        /\ pass'[q].unowed = pass[q].unowed /\ pass'[q].gone = pass[q].gone
        /\ pass'[q].failed = pass[q].failed
    BY StoreEffect DEF SameBut
  <2>3. /\ pass[q].again \subseteq pass'[q].again /\ pass'[q].again \subseteq pass[q].again \cup {o}
        /\ o \in pass[q].gone \cup {pass[q].at} => o \in pass'[q].again
    BY StoreEffect
  <2>4. (Open(q) \/ Fresh(q)) => Open(q)' \/ Fresh(q)'
    BY <2>2 DEF Open, Fresh
  <2> QED BY <1>1, <2>1, <2>2, <2>3, <2>4 DEF PlacedPass, Known
<1>3. /\ recon'.listing = recon.listing /\ recon'.fixed = recon.fixed
      /\ recon'.dropped = recon.dropped /\ recon.again \subseteq recon'.again
      /\ o \in recon.dropped => o \in recon'.again
  BY StoreEffect DEF WalkKeeps
<1> QED BY <1>1, <1>2, <1>3 DEF Placed, Known

LEMMA ChargingKeepsPlaces ==
  ASSUME StorageTypes, Placed, NEW o \in Objects, Charge(o) \/ ChargeAgain(o) \/ Discard(o),
         NoneBack
  PROVE  Placed'
<1> USE DEF rows, history
<1>1. UNCHANGED pass
  BY DEF Charge, ChargeAgain, Discard, storageVars
<1>2. \A q \in Passes : PlacedPass(q)'
  BY <1>1, OthersStayPlaced DEF Placed
<1>3. /\ recon'.listing = recon.listing /\ recon'.fixed = recon.fixed
      /\ recon'.dropped = recon.dropped /\ recon'.again = recon.again
  BY BesideEffect DEF Charge, ChargeAgain, Discard, storageVars, WalkKeeps
<1>4. bucket' \cup DOMAIN ledger' \subseteq Known'
  <2>1. CASE Charge(o)
    <3>1. o \in stored /\ Size[o] \in Nat /\ ledger' = With(ledger, o, Size[o]) /\ ledger \in Amounts
      BY <2>1, StorageAssumption DEF Charge, StorageTypes
    <3>2. DOMAIN ledger' = DOMAIN ledger \cup {o}
      BY <3>1, WithIs
    <3> QED BY <2>1, <3>1, <3>2 DEF Placed, Known, Charge
  <2> QED BY <2>1 DEF Placed, Known, ChargeAgain, Discard, storageVars
<1>5. recon'.dropped \cap bucket' \subseteq recon'.again
  BY <1>3 DEF Placed, NoneBack
<1> QED BY <1>2, <1>3, <1>4, <1>5 DEF Placed, NoneBack, Known

LEMMA PassesKeepPlaces ==
  ASSUME StorageTypes, Placed, NEW p \in Passes, Pass(p), NoneBack
  PROVE  Placed'
<1> USE DEF rows, history
<1>1. /\ recon'.listing = recon.listing /\ recon'.fixed = recon.fixed
      /\ recon'.dropped = recon.dropped /\ recon'.again = recon.again
  BY BesideEffect
     DEF Pass, Begin, StatLegacy, Remove, RemoveFails, Refund, Finish, Abandon, Close, WalkKeeps
<1>2. PlacedPass(p)
  BY DEF Placed
<1>3. bucket \cup DOMAIN ledger \subseteq Known
  BY DEF Placed
<1>6. bucket \subseteq Objects /\ Nobody \notin Objects
  BY StorageAssumption DEF StorageTypes
<1>4. Moved(p) /\ PlacedPass(p)' /\ DOMAIN ledger' \subseteq DOMAIN ledger /\ bucket' \subseteq bucket
  <2>1. CASE \E op \in {"job", "crawl", "cleanup", "user"} : Begin(p, op)
    <3>1. PICK op \in {"job", "crawl", "cleanup", "user"} : Begin(p, op)
      BY <2>1
    <3>2. UNCHANGED <<bucket, ledger>> /\ ~Open(p)
      BY <3>1 DEF Begin, Open
    <3>3. pass[p].gone = {} /\ pass[p].at = Nobody
      BY <1>2, <3>2 DEF PlacedPass, Fresh
    <3>4. Open(p)'
      BY <3>1, BeginEffect DEF Open
    <3> QED BY <1>2, <1>3, <1>6, <3>1, <3>2, <3>3, <3>4, BeginEffect DEF SameBut, PlacedPass, NoneBack, Known
  <2>2. CASE \E o \in Objects : StatLegacy(p, o)
    <3>1. PICK o \in Objects : StatLegacy(p, o)
      BY <2>2
    <3>2. UNCHANGED <<bucket, ledger>> /\ o \in legacy /\ Open(p)
      BY <3>1 DEF StatLegacy
    <3>3. pass[p].at = Nobody /\ o \in Known
      BY <1>2, <3>1, <3>2, StatEffect DEF PlacedPass, Known, StorageTypes
    <3>4. Open(p)'
      BY <3>1, <3>2, StatEffect DEF SameBut, Open
    <3> QED BY <1>2, <3>1, <3>2, <3>3, <3>4, StatEffect DEF SameBut, PlacedPass, NoneBack, Known
  <2>3. CASE \E o \in Objects : Remove(p, o)
    <3>1. PICK o \in Objects : Remove(p, o)
      BY <2>3
    <3>2. bucket' = bucket \ {o} /\ ledger' = ledger /\ Open(p) /\ o \in DOMAIN pass[p].work
      BY <3>1 DEF Remove
    <3>3. Open(p)'
      BY <3>1, <3>2, RemoveEffect DEF SameBut, Open
    <3> QED BY <1>2, <3>1, <3>2, <3>3, RemoveEffect DEF SameBut, PlacedPass, NoneBack, Known
  <2>4. CASE \E o \in Objects : RemoveFails(p, o)
    <3>1. PICK o \in Objects : RemoveFails(p, o)
      BY <2>4
    <3>2. UNCHANGED <<bucket, ledger>> /\ Open(p) /\ pass[p].at = Nobody
      BY <3>1 DEF RemoveFails
    <3>3. Open(p)'
      BY <3>1, <3>2, RemoveFailsEffect DEF SameBut, Open
    <3> QED BY <1>2, <3>1, <3>2, <3>3, RemoveFailsEffect DEF SameBut, PlacedPass, NoneBack, Known
  <2>5. CASE Refund(p)
    <3>1. pass[p].at \in DOMAIN pass[p].work /\ UNCHANGED <<bucket, ledger>>
      BY <1>2, <2>5 DEF PlacedPass, Refund
    <3>2. Open(p)
      BY <1>2, <3>1 DEF PlacedPass, Fresh
    <3>3. Open(p)'
      BY <2>5, <3>1, <3>2, RefundEffect DEF SameBut, Open
    <3>4. /\ Moved(p) /\ pass'[p].gone \subseteq pass[p].gone \cup {pass[p].at}
          /\ DOMAIN pass'[p].work \subseteq DOMAIN pass[p].work /\ pass'[p].at = Nobody
          /\ pass'[p].again = pass[p].again
      BY <2>5, <3>1, RefundEffect DEF SameBut
    <3> QED BY <1>2, <1>6, <3>1, <3>3, <3>4 DEF PlacedPass, NoneBack, Known
  <2>6. CASE Finish(p) \/ Abandon(p)
    <3>1. Close(p) /\ bucket' = bucket /\ DOMAIN ledger' \subseteq DOMAIN ledger
      BY <2>6, FinishEffect DEF Finish, Abandon
    <3>2. Fresh(p)' /\ pass'[p].again = {}
      BY <3>1, CloseEffect, NothingIs DEF Fresh, Unused
    <3> QED BY <1>6, <3>1, <3>2, CloseEffect DEF PlacedPass, Fresh
  <2> QED BY <2>1, <2>2, <2>3, <2>4, <2>5, <2>6 DEF Pass
<1>5. \A q \in Passes : PlacedPass(q)'
  BY <1>4, OthersStayPlaced DEF Placed, Moved
<1> QED BY <1>1, <1>3, <1>4, <1>5 DEF Placed, NoneBack, Known

LEMMA ReconcilingKeepsPlaces ==
  ASSUME StorageTypes, Placed, Reconcile, NoneBack
  PROVE  Placed'
<1> USE DEF rows, history
<1>1. UNCHANGED <<pass, stored>> /\ bucket' \subseteq bucket
  BY DEF Reconcile, StartWalk, DropDangling, CountRows, CommitWalk, AbortWalk, WalkRecords, WalkRemoves
<1>2. \A q \in Passes : PlacedPass(q)'
  BY <1>1, OthersStayPlaced DEF Placed
<1>3. DOMAIN Own \subseteq Known
  BY OwnIs DEF Placed
<1>4. DOMAIN ledger' \subseteq Known
  BY <1>3 DEF Placed, Reconcile, StartWalk, DropDangling, CountRows, CommitWalk, AbortWalk,
     WalkRecords, WalkRemoves
<1>5. /\ recon'.listing \cup recon'.fixed \cup recon'.dropped \subseteq Known
      /\ recon'.dropped \cap bucket' \subseteq recon'.again
  <2>1. CASE StartWalk
    BY <2>1, StartEffect DEF Placed
  <2>2. CASE \E o \in Objects : WalkRecords(o) \/ WalkRemoves(o)
    <3>1. PICK o \in Objects : WalkRecords(o) \/ WalkRemoves(o)
      BY <2>2
    <3>2. o \in recon.listing
      BY <3>1 DEF WalkRecords, WalkRemoves
    <3> QED BY <1>1, <3>1, <3>2, RecordsEffect, RemovesEffect DEF Placed
  <2>3. CASE DropDangling
    BY <1>1, <1>3, <2>3, DropEffect DEF Placed
  <2>4. CASE CountRows
    BY <1>1, <2>4, CountEffect DEF Placed
  <2>5. CASE CommitWalk \/ AbortWalk
    BY <2>5, EndEffect
  <2> QED BY <2>1, <2>2, <2>3, <2>4, <2>5 DEF Reconcile
<1> QED BY <1>1, <1>2, <1>4, <1>5 DEF Placed, NoneBack, Known

LEMMA PlacesKept ==
  ASSUME StorageTypes, Placed, StorageNext
  PROVE  Placed'
  <1>1. CASE \E o \in Objects : Store(o)
  BY <1>1, StoreKeepsPlaces
<1>2. CASE ~ \E o \in Objects : Store(o)
  BY <1>2, NoneIsBack, ChargingKeepsPlaces, PassesKeepPlaces, ReconcilingKeepsPlaces DEF StorageNext
<1> QED BY <1>1, <1>2

-----------------------------------------------------------------------------
(* Which transactions overlap *)

LEMMA ApartKept ==
  ASSUME StorageTypes, Placed, Apart, StorageNext
  PROVE  Apart'
<1> USE DEF rows, history
<1>4. ASSUME NEW o \in Objects, Store(o) PROVE Apart'
  <2>1. tangled' = tangled /\ recon'.pc = recon.pc /\ ~recon'.alone
    BY <1>4, StoreEffect DEF Store, WalkKeeps
  <2>2. \A q \in Passes : Open(q)' <=> Open(q)
    BY <1>4, StoreEffect DEF SameBut, Open
  <2> QED BY <2>1, <2>2 DEF Apart, Busy
<1>1. ASSUME NEW o \in Objects, Charge(o) \/ ChargeAgain(o) \/ Discard(o)
      PROVE  Apart'
  <2>4. tangled' = tangled \/ tangled' = (tangled \/ Busy)
    BY <1>1 DEF Charge, ChargeAgain, Discard, storageVars
  <2>5. pass' = pass
    BY <1>1 DEF Charge, ChargeAgain, Discard, storageVars
  <2>6. tangled \in BOOLEAN
    BY DEF StorageTypes
  <2>1. pass' = pass /\ (tangled => tangled')
    BY <2>4, <2>5, <2>6
  <2>2. Beside \/ UNCHANGED recon
    BY <1>1 DEF Charge, ChargeAgain, Discard, storageVars
  <2>3. recon'.pc = recon.pc /\ (recon'.alone => recon.alone)
    BY <2>2, BesideEffect DEF WalkKeeps
  <2> QED BY <2>1, <2>3 DEF Apart, Open, Busy
<1>2. ASSUME NEW p \in Passes, Pass(p) PROVE Apart'
  <2>4. Beside
    BY <1>2 DEF Pass, Begin, StatLegacy, Remove, RemoveFails, Refund, Finish, Abandon, Close
  <2>5. tangled => tangled'
    BY <1>2 DEF Pass, Begin, StatLegacy, Remove, RemoveFails, Refund, Finish, Abandon
  <2>1. (tangled => tangled') /\ recon'.pc = recon.pc /\ ~recon'.alone
    BY <2>4, <2>5, BesideEffect DEF WalkKeeps
  <2>2. CASE \E op \in {"job", "crawl", "cleanup", "user"} : Begin(p, op)
    <3>1. PICK op \in {"job", "crawl", "cleanup", "user"} : Begin(p, op)
      BY <2>2
    <3>2. Moved(p) /\ tangled' = (tangled \/ Busy \/ \E q \in Passes : Open(q))
      BY <3>1, BeginEffect DEF Begin
    <3>3. \A q \in Passes : q # p => (Open(q)' <=> Open(q))
      BY <3>2, OpenStays
    <3> QED BY <2>1, <3>2, <3>3 DEF Apart, Busy
  <2>3. CASE ~\E op \in {"job", "crawl", "cleanup", "user"} : Begin(p, op)
    <3>1. Moved(p) /\ (Open(p)' => Open(p))
      <4>1. CASE \E o \in Objects : StatLegacy(p, o) \/ Remove(p, o) \/ RemoveFails(p, o)
        <5>1. PICK o \in Objects : StatLegacy(p, o) \/ Remove(p, o) \/ RemoveFails(p, o)
          BY <4>1
        <5> QED BY <5>1, StatEffect, RemoveEffect, RemoveFailsEffect DEF SameBut, Open
      <4>2. CASE Refund(p)
        <5>1. pass[p].at \in DOMAIN pass[p].work
          BY <4>2 DEF Refund, Placed, PlacedPass
        <5> QED BY <4>2, <5>1, RefundEffect DEF SameBut, Open
      <4>3. CASE Finish(p) \/ Abandon(p)
        BY <4>3, CloseEffect DEF Finish, Abandon, Unused, Open
      <4> QED BY <1>2, <2>3, <4>1, <4>2, <4>3 DEF Pass
    <3>2. \A q \in Passes : Open(q)' => Open(q)
      BY <3>1, OpenStays
    <3> QED BY <2>1, <3>2 DEF Apart, Busy
  <2> QED BY <2>2, <2>3
<1>3. ASSUME Reconcile PROVE Apart'
  <2>1. pass' = pass
    BY <1>3 DEF Reconcile, StartWalk, DropDangling, CountRows, CommitWalk, AbortWalk, WalkRecords, WalkRemoves
  <2>2. CASE StartWalk
    BY <2>1, <2>2, StartEffect DEF StartWalk, Apart, Open, Busy
  <2>3. CASE CommitWalk
    BY <2>1, <2>3, EndEffect DEF CommitWalk, Apart, Open, Busy
  <2>4. CASE AbortWalk
    BY <2>1, <2>4, EndEffect DEF AbortWalk, Apart, Open, Busy
  <2>5. CASE DropDangling \/ CountRows \/ \E o \in Objects : WalkRecords(o) \/ WalkRemoves(o)
    <3>1. recon'.pc # "off" /\ recon.pc # "off" /\ recon'.alone = recon.alone /\ tangled' = tangled
      BY <2>5, DropEffect, CountEffect, RecordsEffect, RemovesEffect
         DEF DropDangling, CountRows, WalkRecords, WalkRemoves
    <3> QED BY <2>1, <3>1 DEF Apart, Open, Busy
  <2> QED BY <1>3, <2>2, <2>3, <2>4, <2>5 DEF Reconcile
<1> QED BY <1>1, <1>2, <1>3, <1>4 DEF StorageNext

-----------------------------------------------------------------------------
(* Rows over objects *)

CoveredPass(p) == Open(p) => Covered(p)

(* What a step may do to a pass that has what it has read covered.         *)
LEMMA CoveredStays ==
  ASSUME NEW q \in Passes, CoveredPass(q), Open(q)' => Open(q),
         pass'[q].scope = pass[q].scope, pass[q].failed \subseteq pass'[q].failed,
         pass[q].gone \subseteq pass'[q].gone,
         \A o \in DOMAIN pass[q].work \ pass[q].statted :
             \/ o \in pass'[q].gone \cup (DOMAIN pass'[q].work \ pass'[q].statted)
             \/ ParentOf[o] \in pass'[q].failed,
         unread \subseteq unread',
         \A o \in DOMAIN ledger' :
             \/ o \in DOMAIN ledger \/ o \in unread'
             \/ ~(Open(q) /\ ParentOf[o] \in pass[q].scope)
  PROVE  CoveredPass(q)'
  BY DEF CoveredPass, Covered

LEMMA CoveredKept ==
  ASSUME StorageTypes, Placed, \A q \in Passes : CoveredPass(q), StorageNext
  PROVE  \A q \in Passes : CoveredPass(q)'
<1> SUFFICES ASSUME NEW q \in Passes PROVE CoveredPass(q)'
  OBVIOUS
<1> USE DEF rows, history
<1>4. ASSUME NEW o \in Objects, Store(o) PROVE CoveredPass(q)'
  <2>1. ledger' = ledger /\ unread' = unread
    BY <1>4 DEF Store
  <2> QED BY <1>4, <2>1, StoreEffect, CoveredStays DEF SameBut, Open
<1>1. ASSUME NEW o \in Objects, Charge(o) \/ ChargeAgain(o) \/ Discard(o)
      PROVE  CoveredPass(q)'
  <2>1. pass' = pass /\ unread \subseteq unread' /\ (Open(q)' => Open(q))
    BY <1>1 DEF Charge, ChargeAgain, Discard, storageVars, Open
  <2>2. \A x \in DOMAIN ledger' :
             \/ x \in DOMAIN ledger \/ x \in unread'
             \/ ~(Open(q) /\ ParentOf[x] \in pass[q].scope)
    <3>2. CASE Charge(o)
      <4>1. Size[o] \in Nat /\ ledger' = With(ledger, o, Size[o]) /\ ledger \in Amounts
        BY <3>2, StorageAssumption DEF Charge, StorageTypes
      <4>2. DOMAIN ledger' = DOMAIN ledger \cup {o}
        BY <4>1, WithIs
      <4> QED BY <3>2, <4>2 DEF Charge
    <3>3. CASE ChargeAgain(o) \/ Discard(o)
      BY <3>3 DEF ChargeAgain, Discard, storageVars
    <3> QED BY <1>1, <3>2, <3>3
  <2> QED BY <2>1, <2>2, CoveredStays
<1>2. ASSUME NEW p \in Passes, Pass(p) PROVE CoveredPass(q)'
  <2>1. PlacedPass(p)
    BY DEF Placed
  <2>2. unread' = unread /\ DOMAIN ledger' \subseteq DOMAIN ledger
    BY <1>2, FinishEffect
       DEF Pass, Begin, StatLegacy, Remove, RemoveFails, Refund, Finish, Abandon
  <2>3. CASE Moved(p) /\ p # q
    BY <2>2, <2>3, OpenStays, CoveredStays DEF Moved
  <2>4. CASE \E op \in {"job", "crawl", "cleanup", "user"} : Begin(p, op)
    <3>1. PICK op \in {"job", "crawl", "cleanup", "user"} : Begin(p, op)
      BY <2>4
    <3>2. CoveredPass(p)'
      <4>1. Moved(p) /\ pass'[p].scope = Scope(op) /\ ledger' = ledger
            /\ DOMAIN pass'[p].work = {o \in DOMAIN ledger : ParentOf[o] \in Scope(op)}
        BY <3>1, BeginEffect DEF Begin
      <4>2. ~Open(p)
        BY <3>1 DEF Begin, Open
      <4>3. pass'[p].statted = {}
        BY <2>1, <3>1, <4>2, BeginEffect DEF PlacedPass, Fresh, SameBut
      <4> QED BY <4>1, <4>3 DEF CoveredPass, Covered
    <3> QED BY <2>3, <3>1, <3>2, BeginEffect
  <2>5. CASE \E o \in Objects : StatLegacy(p, o) \/ Remove(p, o) \/ RemoveFails(p, o)
    <3>1. PICK o \in Objects : StatLegacy(p, o) \/ Remove(p, o) \/ RemoveFails(p, o)
      BY <2>5
    <3>2. Moved(p) /\ (Open(p)' => Open(p)) /\ pass'[p].scope = pass[p].scope
          /\ pass[p].failed \subseteq pass'[p].failed /\ pass'[p].gone = pass[p].gone
      BY <3>1, StatEffect, RemoveEffect, RemoveFailsEffect DEF SameBut, Open
    <3>3. \A x \in DOMAIN pass[p].work \ pass[p].statted :
             \/ x \in DOMAIN pass'[p].work \ pass'[p].statted
             \/ ParentOf[x] \in pass'[p].failed
      BY <3>1, StatEffect, RemoveEffect, RemoveFailsEffect DEF SameBut
    <3>4. CoveredPass(p)'
      BY <2>2, <3>2, <3>3, CoveredStays
    <3> QED BY <2>3, <3>2, <3>4
  <2>6. CASE Refund(p)
    <3>1. pass[p].at \in DOMAIN pass[p].work
      BY <2>1, <2>6 DEF Refund, PlacedPass
    <3>2. /\ Moved(p) /\ SameBut(p, {"work", "at", "freed", "unowed", "gone"})
          /\ DOMAIN pass'[p].work = DOMAIN pass[p].work \ {pass[p].at}
          /\ pass'[p].gone = IF pass[p].at \in pass[p].statted THEN pass[p].gone
                             ELSE pass[p].gone \cup {pass[p].at}
      BY <2>6, <3>1, RefundEffect
    <3>3. CoveredPass(p)'
      BY <2>2, <3>1, <3>2, CoveredStays DEF SameBut, Open
    <3> QED BY <2>3, <3>2, <3>3
  <2>7. CASE Finish(p) \/ Abandon(p)
    <3>1. Moved(p) /\ ~Open(p)'
      BY <2>7, CloseEffect DEF Finish, Abandon, Unused, Open
    <3> QED BY <2>3, <3>1 DEF CoveredPass
  <2> QED BY <1>2, <2>4, <2>5, <2>6, <2>7 DEF Pass
<1>3. ASSUME Reconcile PROVE CoveredPass(q)'
  <2>1. pass' = pass /\ (Open(q)' => Open(q))
    BY <1>3 DEF Reconcile, StartWalk, DropDangling, CountRows, CommitWalk, AbortWalk, WalkRecords, WalkRemoves, Open
  <2>2. CASE CommitWalk
    <3>1. DOMAIN ledger' \subseteq DOMAIN ledger \cup recon.fixed
      BY <2>2, OwnIs DEF CommitWalk
    <3>2. unread \subseteq unread' /\ (Open(q) => recon.fixed \subseteq unread')
      BY <2>2 DEF CommitWalk
    <3> QED BY <2>1, <3>1, <3>2, CoveredStays
  <2>3. CASE ~CommitWalk
    <3>1. ledger' = ledger /\ unread' = unread
      BY <1>3, <2>3 DEF Reconcile, StartWalk, DropDangling, CountRows, AbortWalk, WalkRecords, WalkRemoves
    <3> QED BY <2>1, <3>1, CoveredStays
  <2> QED BY <2>2, <2>3
<1> QED BY <1>1, <1>2, <1>3, <1>4 DEF StorageNext

-----------------------------------------------------------------------------
(* What the counter holds *)

LEMMA ClaimsAreAmounts ==
  ASSUME NEW S \in SUBSET Objects, NEW T \in SUBSET S
  PROVE  /\ Bytes([o \in S |-> Size[o]]) \in Nat /\ Bytes([o \in T |-> Size[o]]) \in Nat
         /\ Bytes([o \in T |-> Size[o]]) <= Bytes([o \in S |-> Size[o]])
<1> DEFINE f == [o \in S |-> Size[o]]
           g == [o \in T |-> Size[o]]
<1>1. f \in Amounts /\ g \in Amounts /\ DOMAIN g \subseteq DOMAIN f /\ \A o \in DOMAIN g : g[o] = f[o]
  BY AmountsAre, StorageAssumption
<1>2. Bytes(g) <= Bytes(f) /\ Bytes(g) \in Nat /\ Bytes(f) \in Nat
  <2> HIDE DEF f, g
  <2> QED BY <1>1, BytesOfPart, BytesAreFinite
<1> QED BY <1>2

LEMMA OneClaimLess ==
  ASSUME NEW S \in SUBSET Objects, NEW o \in S
  PROVE  Bytes([x \in S |-> Size[x]]) = Bytes([x \in S \ {o} |-> Size[x]]) + Size[o]
<1> DEFINE f == [x \in S |-> Size[x]]
           g == [x \in S \ {o} |-> Size[x]]
<1>1. /\ f \in Amounts /\ g \in Amounts /\ o \notin DOMAIN g /\ DOMAIN f = DOMAIN g \cup {o}
      /\ \A x \in DOMAIN g : g[x] = f[x]
      /\ f[o] = Size[o]
  BY AmountsAre, StorageAssumption
<1>2. Bytes(f) = Bytes(g) + f[o]
  <2> HIDE DEF f, g
  <2> QED BY <1>1, BytesOfMore
<1> QED BY <1>1, <1>2

LEMMA ClaimsShrink ==
  ASSUME StorageTypes, Claims' \subseteq Claims
  PROVE  Claimable \in Nat /\ Claimable' \in Nat /\ Claimable' <= Claimable
<1>1. Claims \subseteq Objects
  BY StorageAssumption DEF StorageTypes, Claims
<1> QED BY <1>1, ClaimsAreAmounts DEF Claimable

LEMMA ClaimedIs ==
  ASSUME StorageTypes, Placed, NEW p \in Passes
  PROVE  Claimed(p) \in Nat
<1>1. CASE pass[p].at \in pass[p].statted
  <2>1. pass[p].at \in DOMAIN pass[p].work
    BY <1>1, PassFields, StorageAssumption DEF Placed, PlacedPass
  <2>2. pass[p].work[pass[p].at] \in Nat
    BY <2>1, PassFields, AmountsAre
  <2> QED BY <2>2 DEF Claimed
<1>2. CASE pass[p].at \notin pass[p].statted
  BY <1>2 DEF Claimed
<1> QED BY <1>1, <1>2

(* A step that leaves the amounts alone, and claims and passes as they are, *)
(* but for what is stored again.                                           *)
LEMMA AccountsStay ==
  ASSUME StorageTypes, Placed, Accounted, tangled => tangled', Claims' \subseteq Claims,
         UNCHANGED <<ledger, counter, owed, legacy, parents>>,
         \A q \in Passes : SameBut(q, {"again"}),
         \A o \in legacy : o \in bucket => o \in bucket' \/ \A q \in Passes : ~Open(q)
  PROVE  Accounted'
<1> SUFFICES ASSUME ~tangled' PROVE /\ counter' = Bytes(ledger') + owed'
                                    /\ owed' >= Claimable'
                                    /\ \A q \in Passes : Open(q)' => Account(q)'
  BY DEF Accounted
<1>1. Claimable \in Nat /\ Claimable' \in Nat /\ Claimable' <= Claimable /\ owed \in Int
  BY ClaimsShrink DEF StorageTypes
<1>2. counter' = Bytes(ledger') + owed' /\ owed' >= Claimable'
  BY <1>1 DEF Accounted
<1>3. ASSUME NEW q \in Passes, Open(q)' PROVE Account(q)'
  <2>6. /\ pass'[q].op = pass[q].op /\ pass'[q].scope = pass[q].scope
        /\ pass'[q].work = pass[q].work /\ pass'[q].at = pass[q].at
        /\ pass'[q].statted = pass[q].statted /\ pass'[q].freed = pass[q].freed
        /\ pass'[q].unowed = pass[q].unowed /\ pass'[q].gone = pass[q].gone
    BY DEF SameBut
  <2>1. Open(q) /\ Account(q)
    BY <1>3, <2>6 DEF Accounted, Open
  <2>2. Claimed(q)' = Claimed(q)
    BY <2>6 DEF Claimed
  <2>3. Claimed(q) \in Int /\ pass[q].unowed \in Nat
    BY PassFields, ClaimedIs
  <2>4. owed' >= pass'[q].unowed + Claimable' + Claimed(q)'
    BY <1>1, <2>1, <2>2, <2>3, <2>6 DEF Account
  <2>5. pass'[q].statted # {} =>
          \A o \in DOMAIN pass'[q].work :
              o \in bucket' \/ o = pass'[q].at \/ pass'[q].work[o] = 0
    BY <2>1, <2>6 DEF Account
  <2>7. Bytes(Restrict(ledger', pass'[q].gone)) = Bytes(Restrict(ledger, pass[q].gone))
    BY <2>6
  <2> QED BY <2>1, <2>4, <2>5, <2>6, <2>7 DEF Account
<1> QED BY <1>2, <1>3

LEMMA StoringKeepsAccounts ==
  ASSUME StorageTypes, Placed, Apart, Accounted, NEW o \in Objects,
         Store(o) \/ Charge(o) \/ ChargeAgain(o) \/ Discard(o)
  PROVE  Accounted'
<1> USE DEF rows, history
<1>0. o \in legacy => o \in OldObjects /\ o \notin stored
  BY DEF StorageTypes
<1>1. CASE Store(o) \/ ChargeAgain(o) \/ Discard(o)
  <2>1. /\ UNCHANGED <<ledger, counter, owed, legacy, parents, tangled>>
        /\ \A x \in legacy : x \in bucket' <=> x \in bucket
    BY <1>0, <1>1 DEF Store, ChargeAgain, Discard, storageVars, StorageTypes
  <2>2. Claims' \subseteq Claims
    BY <2>1 DEF Claims
  <2>3. \A q \in Passes : SameBut(q, {"again"})
    <3>1. CASE Store(o)
      BY <3>1, StoreEffect
    <3>2. CASE ChargeAgain(o) \/ Discard(o)
      BY <3>2 DEF ChargeAgain, Discard, storageVars, SameBut
    <3> QED BY <1>1, <3>1, <3>2
  <2> QED BY <2>1, <2>2, <2>3, AccountsStay
<1>2. CASE Charge(o)
  <2> SUFFICES ASSUME ~tangled' PROVE /\ counter' = Bytes(ledger') + owed'
                                      /\ owed' >= Claimable'
                                      /\ \A q \in Passes : Open(q)' => Account(q)'
    BY DEF Accounted
  <2>1. /\ UNCHANGED <<bucket, legacy, parents, pass, owed>> /\ counter' = counter + Size[o]
        /\ ledger' = With(ledger, o, Size[o]) /\ o \notin DOMAIN ledger /\ o \notin legacy
    BY <1>0, <1>2 DEF Charge
  <2>2. ~tangled
    BY <1>2 DEF Charge, StorageTypes
  <2>3. Size[o] \in Nat /\ ledger \in Amounts /\ counter \in Nat /\ owed \in Int
    BY StorageAssumption DEF StorageTypes
  <2>4. /\ ledger' \in Amounts /\ DOMAIN ledger' = DOMAIN ledger \cup {o} /\ ledger'[o] = Size[o]
        /\ \A x \in DOMAIN ledger : ledger'[x] = ledger[x]
    <3> DEFINE f == With(ledger, o, Size[o])
    <3>1. f \in Amounts /\ DOMAIN f = DOMAIN ledger \cup {o} /\ f[o] = Size[o]
          /\ \A x \in DOMAIN ledger : x # o => f[x] = ledger[x]
      BY <2>3, WithIs
    <3>2. ledger' = f
      BY <2>1
    <3> HIDE DEF f
    <3> QED BY <2>1, <3>1, <3>2
  <2>5. Bytes(ledger') = Bytes(ledger) + Size[o] /\ Bytes(ledger) \in Nat
    BY <2>1, <2>3, <2>4, BytesOfMore, BytesAreFinite
  <2>6. counter' = Bytes(ledger') + owed'
    BY <2>1, <2>2, <2>3, <2>5 DEF Accounted
  <2>7. Claims' = Claims
    BY <2>1, <2>4 DEF Claims
  <2>8. Claimable' = Claimable
    BY <2>7 DEF Claimable
  <2>9. ASSUME NEW q \in Passes, Open(q)' PROVE Account(q)'
    <3>1. Open(q) /\ Account(q)
      BY <2>1, <2>2, <2>9 DEF Accounted, Open
    <3>2. pass[q].gone \subseteq DOMAIN ledger /\ pass[q].statted \subseteq legacy
      BY <3>1 DEF Account
    <3>3. Claimed(q)' = Claimed(q)
      BY <2>1, <2>4, <3>2 DEF Claimed
    <3>4. Restrict(ledger', pass[q].gone) = Restrict(ledger, pass[q].gone)
      BY <2>4, <3>2 DEF Restrict
    <3>5. Bytes(Restrict(ledger', pass'[q].gone)) = Bytes(Restrict(ledger, pass[q].gone))
      BY <2>1, <3>4
    <3>6. pass'[q].statted = {} => 
          /\ DOMAIN pass'[q].work \subseteq DOMAIN ledger' \ pass'[q].gone
          /\ \A x \in DOMAIN pass'[q].work : pass'[q].work[x] = ledger'[x]
      BY <2>1, <2>4, <3>1 DEF Account
    <3>7. pass'[q].gone \subseteq DOMAIN ledger'
      BY <2>1, <2>4, <3>2
    <3> QED BY <2>1, <2>8, <3>1, <3>3, <3>5, <3>6, <3>7 DEF Account
  <2> QED BY <2>1, <2>2, <2>6, <2>8, <2>9 DEF Accounted
<1> QED BY <1>1, <1>2

(* Of passes whose transactions overlap none, one is open.                 *)
LEMMA OneIsOpen ==
  ASSUME StorageTypes, Placed, Apart, ~tangled, NEW p \in Passes, Open(p)
  PROVE  ~Busy /\ \A q \in Passes : Open(q) => q = p
  BY DEF Apart

LEMMA BeginningKeepsAccounts ==
  ASSUME StorageTypes, Placed, Apart, Accounted, NEW p \in Passes,
         NEW op \in {"job", "crawl", "cleanup", "user"}, Begin(p, op)
  PROVE  Accounted'
<1> USE DEF rows, history
<1> SUFFICES ASSUME ~tangled' PROVE /\ counter' = Bytes(ledger') + owed'
                                    /\ owed' >= Claimable'
                                    /\ \A q \in Passes : Open(q)' => Account(q)'
  BY DEF Accounted
<1>1. UNCHANGED <<bucket, legacy, parents, ledger, counter>> /\ pass[p].op = "unused"
  BY DEF Begin
<1>2. ~tangled /\ (\A q \in Passes : ~Open(q)) /\ owed' = owed
  BY DEF Begin, StorageTypes
<1>3. Claimable' = Claimable
  BY <1>1 DEF Claimable, Claims
<1>4. counter = Bytes(ledger) + owed /\ owed >= Claimable
  BY <1>2 DEF Accounted
<1>5. ASSUME NEW q \in Passes, Open(q)' PROVE Account(q)'
  <2>1. q = p
    BY <1>2, <1>5, BeginEffect, OpenStays
  <2>2. Fresh(p)
    BY <1>2 DEF Placed, PlacedPass
  <2>3. /\ pass'[p].scope \subseteq parents /\ pass'[p].gone = {} /\ pass'[p].statted = {}
        /\ pass'[p].freed = 0 /\ pass'[p].unowed = 0
        /\ DOMAIN pass'[p].work \subseteq DOMAIN ledger
        /\ \A x \in DOMAIN pass'[p].work : pass'[p].work[x] = ledger[x]
    BY <2>2, BeginEffect DEF SameBut, Fresh
  <2>4. Bytes(Restrict(ledger', pass'[p].gone)) = 0
    <3>1. Restrict(ledger', pass'[p].gone) = [x \in {} |-> ledger'[x]]
      BY <2>3 DEF Restrict
    <3> QED BY <3>1, BytesOfNone
  <2>5. Claimed(p)' = 0
    BY <2>3 DEF Claimed
  <2>6. owed \in Int /\ Claimable \in Int
    BY ClaimsShrink, <1>1 DEF StorageTypes, Claims
  <2> QED BY <1>1, <1>2, <1>3, <1>4, <2>1, <2>3, <2>4, <2>5, <2>6 DEF Account
<1> QED BY <1>1, <1>2, <1>3, <1>4, <1>5

LEMMA StattingKeepsAccounts ==
  ASSUME StorageTypes, Placed, Apart, Accounted, NEW p \in Passes, NEW o \in Objects, StatLegacy(p, o)
  PROVE  Accounted'
<1> USE DEF rows, history
<1> SUFFICES ASSUME ~tangled' PROVE /\ counter' = Bytes(ledger') + owed'
                                    /\ owed' >= Claimable'
                                    /\ \A q \in Passes : Open(q)' => Account(q)'
  BY DEF Accounted
<1>1. /\ UNCHANGED <<bucket, legacy, parents, ledger, counter, owed, tangled>>
      /\ Open(p) /\ o \in legacy
      /\ ParentOf[o] \in (IF pass[p].op = "user" THEN parents ELSE pass[p].scope)
  BY DEF StatLegacy
<1>2. ~tangled /\ Account(p) /\ counter = Bytes(ledger) + owed /\ owed >= Claimable
  BY <1>1 DEF Accounted
<1>3. Claimable' = Claimable
  BY <1>1 DEF Claimable, Claims
<1>4. ASSUME NEW q \in Passes, Open(q)' PROVE Account(q)'
  <2>1. q = p
    BY <1>1, <1>2, <1>4, StatEffect, OpenStays, OneIsOpen
  <2>2. /\ pass'[p].scope = pass[p].scope /\ pass'[p].gone = pass[p].gone
        /\ pass'[p].statted = pass[p].statted \cup {o} /\ DOMAIN pass'[p].work = {o}
        /\ pass'[p].freed = pass[p].freed /\ pass'[p].unowed = pass[p].unowed
        /\ pass'[p].work[o] \in {0, Size[o]} /\ (pass'[p].work[o] # 0 => o \in bucket)
        /\ pass'[p].at = pass[p].at
    BY StatEffect DEF SameBut
  <2>3. pass[p].at = Nobody
    BY StatEffect DEF Placed, PlacedPass
  <2>4. Claimed(p)' = 0 /\ Claimed(p) = 0
    BY <1>1, <2>2, <2>3, PassFields, StorageAssumption DEF Claimed
  <2>5. ParentOf[o] \in parents
    BY <1>1, <1>2 DEF Account
  <2>6. Bytes(Restrict(ledger', pass'[p].gone)) = Bytes(Restrict(ledger, pass[p].gone))
    BY <1>1, <2>2
  <2> QED BY <1>1, <1>2, <1>3, <2>1, <2>2, <2>4, <2>5, <2>6 DEF Account
<1> QED BY <1>1, <1>2, <1>3, <1>4

LEMMA RemovingKeepsAccounts ==
  ASSUME StorageTypes, Placed, Apart, Accounted, NEW p \in Passes, NEW o \in Objects,
         Remove(p, o) \/ RemoveFails(p, o)
  PROVE  Accounted'
<1> USE DEF rows, history
<1> SUFFICES ASSUME ~tangled' PROVE /\ counter' = Bytes(ledger') + owed'
                                    /\ owed' >= Claimable'
                                    /\ \A q \in Passes : Open(q)' => Account(q)'
  BY DEF Accounted
<1>1. /\ UNCHANGED <<legacy, parents, ledger, counter, owed, tangled>> /\ Open(p)
      /\ bucket' \subseteq bucket /\ pass[p].at = Nobody /\ o \in DOMAIN pass[p].work
  BY DEF Remove, RemoveFails
<1>2. ~tangled /\ Account(p) /\ counter = Bytes(ledger) + owed /\ owed >= Claimable
  BY <1>1 DEF Accounted
<1>3. Claims' \subseteq Claims
  BY <1>1 DEF Claims
<1>4. Claimable \in Nat /\ Claimable' \in Nat /\ Claimable' <= Claimable /\ owed \in Int
  BY <1>3, ClaimsShrink DEF StorageTypes
<1>5. Claimed(p) = 0
  BY <1>1, PassFields, StorageAssumption DEF Claimed
<1>6. CASE Remove(p, o)
  <2>1. bucket' = bucket \ {o} /\ pass'[p].at = o /\ Moved(p) /\ SameBut(p, {"at"})
    BY <1>6, RemoveEffect DEF Remove
  <2>2. /\ pass'[p].scope = pass[p].scope /\ pass'[p].gone = pass[p].gone
        /\ pass'[p].statted = pass[p].statted /\ pass'[p].work = pass[p].work
        /\ pass'[p].freed = pass[p].freed /\ pass'[p].unowed = pass[p].unowed
    BY <2>1 DEF SameBut
  <2>3. Claimable' + Claimed(p)' <= Claimable
    <3> PICK c : c = Claimed(p)'
      OBVIOUS
    <3> SUFFICES Claimable' + c <= Claimable
      OBVIOUS
    <3>1. CASE c = 0
      <4>1. \A m, n \in Nat : m <= n => m + 0 <= n
        OBVIOUS
      <4> QED BY <1>4, <3>1, <4>1
    <3>2. CASE c # 0
      <4>1. o \in pass[p].statted \ DOMAIN ledger /\ Claimed(p)' = pass[p].work[o]
        BY <1>1, <2>1, <2>2, <3>2 DEF Claimed
      <4>2. /\ o \in legacy /\ ParentOf[o] \in parents /\ o \in bucket
            /\ pass[p].work[o] = Size[o]
        BY <1>1, <1>2, <3>2, <4>1, StorageAssumption DEF Account
      <4>3. o \in Claims /\ Claims' = Claims \ {o} /\ Claims \subseteq Objects
        BY <1>1, <2>1, <4>1, <4>2, StorageAssumption DEF Claims, StorageTypes
      <4>4. Bytes([x \in Claims |-> Size[x]]) = Bytes([x \in Claims \ {o} |-> Size[x]]) + Size[o]
        BY <4>3, OneClaimLess
      <4>5. Claimable = Claimable' + Size[o]
        BY <4>3, <4>4 DEF Claimable
      <4> QED BY <1>4, <4>1, <4>2, <4>5
    <3> QED BY <3>1, <3>2
  <2>4. Account(p)'
    <3>1. owed' >= pass'[p].unowed + Claimable' + Claimed(p)'
      <4>1. Claimed(p)' \in Int
        <5>1. pass[p].work[o] \in Int
          BY <1>1, PassFields, AmountsAre
        <5> QED BY <2>1, <2>2, <5>1 DEF Claimed
      <4>2. pass[p].unowed \in Nat /\ owed >= pass[p].unowed + Claimable
        BY <1>2, <1>4, <1>5, PassFields DEF Account
      <4> QED BY <1>1, <1>4, <2>2, <2>3, <4>1, <4>2
    <3>2. \A x \in DOMAIN pass[p].work : pass[p].statted # {} =>
              x \in bucket' \/ x = o \/ pass[p].work[x] = 0
      BY <1>1, <1>2, <2>1, PassFields, AmountsAre, StorageAssumption DEF Account
    <3>3. Bytes(Restrict(ledger', pass'[p].gone)) = Bytes(Restrict(ledger, pass[p].gone))
      BY <1>1, <2>2
    <3> QED BY <1>1, <1>2, <2>1, <2>2, <3>1, <3>2, <3>3 DEF Account
  <2>5. \A q \in Passes : Open(q)' => q = p
    BY <1>1, <1>2, <2>1, OpenStays, OneIsOpen
  <2> QED BY <1>1, <1>2, <1>4, <2>4, <2>5
<1>7. CASE RemoveFails(p, o)
  <2>1. /\ bucket' = bucket /\ Moved(p) /\ SameBut(p, {"work", "failed"})
        /\ DOMAIN pass'[p].work = DOMAIN pass[p].work \ {o}
        /\ \A x \in DOMAIN pass'[p].work : pass'[p].work[x] = pass[p].work[x]
    BY <1>7, RemoveFailsEffect DEF RemoveFails
  <2>2. /\ pass'[p].scope = pass[p].scope /\ pass'[p].gone = pass[p].gone
        /\ pass'[p].statted = pass[p].statted /\ pass'[p].at = pass[p].at
        /\ pass'[p].freed = pass[p].freed /\ pass'[p].unowed = pass[p].unowed
    BY <2>1 DEF SameBut
  <2>3. Claimed(p)' = 0
    BY <1>1, <2>2, PassFields, StorageAssumption DEF Claimed
  <2>4. Claimable' = Claimable
    BY <1>1, <2>1 DEF Claimable, Claims
  <2>5. Bytes(Restrict(ledger', pass'[p].gone)) = Bytes(Restrict(ledger, pass[p].gone))
    BY <1>1, <2>2
  <2>6. Account(p)'
    BY <1>1, <1>2, <1>5, <2>1, <2>2, <2>3, <2>4, <2>5 DEF Account
  <2>7. \A q \in Passes : Open(q)' => q = p
    BY <1>1, <1>2, <2>1, OpenStays, OneIsOpen
  <2> QED BY <1>1, <1>2, <1>4, <2>6, <2>7
<1> QED BY <1>6, <1>7

LEMMA RefundingKeepsAccounts ==
  ASSUME StorageTypes, Placed, Apart, Accounted, NEW p \in Passes, Refund(p)
  PROVE  Accounted'
<1> USE DEF rows, history
<1> SUFFICES ASSUME ~tangled' PROVE /\ counter' = Bytes(ledger') + owed'
                                    /\ owed' >= Claimable'
                                    /\ \A q \in Passes : Open(q)' => Account(q)'
  BY DEF Accounted
<1> DEFINE o == pass[p].at
           w == pass[p].work[o]
           old == o \in pass[p].statted
<1>1. o \in DOMAIN pass[p].work
  BY DEF Placed, PlacedPass, Refund
<1>2. /\ UNCHANGED <<bucket, legacy, parents, ledger, counter>>
      /\ tangled' = (tangled \/ (old /\ w > 0 /\ o \in DOMAIN ledger))
      /\ owed' = IF tangled' THEN 0 ELSE owed
  BY DEF Refund
<1>3. /\ Moved(p) /\ SameBut(p, {"work", "at", "freed", "unowed", "gone"})
      /\ pass'[p].at = Nobody /\ o \in Objects
      /\ DOMAIN pass'[p].work = DOMAIN pass[p].work \ {o} /\ w \in Nat
      /\ \A x \in DOMAIN pass'[p].work : pass'[p].work[x] = pass[p].work[x]
      /\ pass'[p].freed = pass[p].freed + w
      /\ pass'[p].unowed = pass[p].unowed + (IF old THEN w ELSE 0)
      /\ pass'[p].gone = IF old THEN pass[p].gone ELSE pass[p].gone \cup {o}
  BY <1>1, RefundEffect
<1>4. ~tangled /\ owed' = owed /\ (old => w = 0 \/ o \notin DOMAIN ledger)
  <2>1. tangled \in BOOLEAN
    BY DEF StorageTypes
  <2>2. ~tangled /\ ~(old /\ w > 0 /\ o \in DOMAIN ledger) /\ owed' = owed
    BY <1>2, <2>1
  <2> QED BY <1>3, <2>2
<1>5. Open(p)
  BY <1>1 DEF Placed, PlacedPass, Fresh
<1>6. Account(p) /\ counter = Bytes(ledger) + owed /\ owed >= Claimable
  BY <1>4, <1>5 DEF Accounted
<1>7. Claimable' = Claimable
  BY <1>2 DEF Claimable, Claims
<1>8. \A q \in Passes : Open(q)' => q = p
  BY <1>3, <1>4, <1>5, OpenStays, OneIsOpen
<1>9. pass'[p].scope = pass[p].scope /\ pass'[p].statted = pass[p].statted
  BY <1>3 DEF SameBut
<1>10. Claimed(p)' = 0
  BY <1>3, <1>9, PassFields, StorageAssumption DEF Claimed
<1>11. /\ Claimable \in Nat /\ owed \in Int /\ pass[p].unowed \in Nat /\ pass[p].freed \in Nat
       /\ ledger \in Amounts
  BY ClaimsShrink, <1>2, PassFields DEF StorageTypes, Claims
<1>12. CASE old
  <2>1. w = Claimed(p) \/ (w = 0 /\ Claimed(p) = 0)
    BY <1>4, <1>12 DEF Claimed
  <2>2. pass'[p].gone = pass[p].gone /\ pass'[p].unowed = pass[p].unowed + w
    BY <1>3, <1>12
  <2>3. owed' >= pass'[p].unowed + Claimable' + Claimed(p)'
    BY <1>3, <1>4, <1>6, <1>7, <1>10, <1>11, <2>1, <2>2 DEF Account
  <2>4. Bytes(Restrict(ledger, pass[p].gone)) \in Nat
    BY <1>6, <1>11, PartsAreAmounts, BytesAreFinite DEF Account
  <2>5. pass'[p].freed = pass'[p].unowed + Bytes(Restrict(ledger', pass'[p].gone))
    BY <1>2, <1>3, <1>6, <1>11, <2>2, <2>4 DEF Account
  <2>6. /\ pass'[p].statted # {} /\ DOMAIN pass'[p].work \subseteq pass'[p].statted
        /\ \A x \in DOMAIN pass'[p].work :
                /\ ParentOf[x] \in parents' /\ pass'[p].work[x] \in {0, Size[x]}
                /\ x \in bucket' \/ x = pass'[p].at \/ pass'[p].work[x] = 0
    BY <1>2, <1>3, <1>6, <1>9, <1>12 DEF Account
  <2>7. Account(p)'
    BY <1>2, <1>6, <1>9, <2>2, <2>3, <2>5, <2>6 DEF Account
  <2> QED BY <1>2, <1>4, <1>6, <1>7, <1>8, <2>7
<1>13. CASE ~old
  <2>1. pass[p].statted = {}
    BY <1>1, <1>6, <1>13 DEF Account
  <2>2. /\ o \in DOMAIN ledger \ pass[p].gone /\ w = ledger[o]
        /\ pass[p].gone \subseteq DOMAIN ledger
    BY <1>1, <1>6, <2>1 DEF Account
  <2>3. pass'[p].gone = pass[p].gone \cup {o} /\ pass'[p].unowed = pass[p].unowed
    BY <1>3, <1>11, <1>13
  <2>4. Bytes(Restrict(ledger, pass[p].gone \cup {o})) = Bytes(Restrict(ledger, pass[p].gone)) + w
        /\ Bytes(Restrict(ledger, pass[p].gone)) \in Nat
    <3> DEFINE f == Restrict(ledger, pass[p].gone \cup {o})
               g == Restrict(ledger, pass[p].gone)
    <3>1. /\ f \in Amounts /\ DOMAIN f = pass[p].gone \cup {o}
          /\ \A x \in pass[p].gone \cup {o} : f[x] = ledger[x]
      BY <1>11, <2>2, PartsAreAmounts
    <3>2. /\ g \in Amounts /\ DOMAIN g = pass[p].gone
          /\ \A x \in pass[p].gone : g[x] = ledger[x]
      BY <1>11, <2>2, PartsAreAmounts
    <3> HIDE DEF f, g
    <3>3. Bytes(f) = Bytes(g) + f[o]
      BY <2>2, <3>1, <3>2, BytesOfMore
    <3> QED BY <2>2, <3>1, <3>2, <3>3, BytesAreFinite DEF f, g
  <2>5. pass'[p].freed = pass'[p].unowed + Bytes(Restrict(ledger', pass'[p].gone))
    BY <1>2, <1>3, <1>6, <1>11, <2>3, <2>4 DEF Account
  <2>6. Claimed(p) = 0
    BY <2>1 DEF Claimed
  <2>7. owed' >= pass'[p].unowed + Claimable' + Claimed(p)'
    BY <1>4, <1>6, <1>7, <1>10, <1>11, <2>3, <2>6 DEF Account
  <2>8. /\ pass'[p].statted = {} /\ DOMAIN pass'[p].work \subseteq DOMAIN ledger' \ pass'[p].gone
        /\ \A x \in DOMAIN pass'[p].work : pass'[p].work[x] = ledger'[x]
    BY <1>2, <1>3, <1>6, <1>9, <2>1, <2>3 DEF Account
  <2>9. Account(p)'
    BY <1>2, <1>6, <1>9, <2>2, <2>3, <2>5, <2>7, <2>8 DEF Account
  <2> QED BY <1>2, <1>4, <1>6, <1>7, <1>8, <2>9
<1> QED BY <1>12, <1>13

LEMMA FinishingKeepsAccounts ==
  ASSUME StorageTypes, Placed, Apart, Accounted, NEW p \in Passes, Finish(p)
  PROVE  Accounted'
<1> USE DEF rows, history
<1> SUFFICES ASSUME ~tangled' PROVE /\ counter' = Bytes(ledger') + owed'
                                    /\ owed' >= Claimable'
                                    /\ \A q \in Passes : Open(q)' => Account(q)'
  BY DEF Accounted
<1> DEFINE dropped == {o \in DOMAIN ledger : ParentOf[o] \in Deletes(p)}
           gone == pass[p].gone
           G == Restrict(ledger, gone)
           D == Restrict(ledger, dropped \ gone)
           rest == Restrict(ledger, dropped \cup gone)
<1>1. /\ UNCHANGED <<bucket, legacy, tangled>> /\ parents' = parents \ Deletes(p)
      /\ ledger' = Without(ledger, dropped \cup gone)
      /\ counter' = IF counter > pass[p].freed THEN counter - pass[p].freed ELSE 0
      /\ owed' = owed - pass[p].unowed + Bytes(D)
      /\ Open(p)
  BY DEF Finish, Cleared
<1>2. ~tangled /\ Account(p) /\ counter = Bytes(ledger) + owed /\ owed >= Claimable
  BY <1>1 DEF Accounted
<1>3. /\ ledger \in Amounts /\ owed \in Int /\ gone \subseteq DOMAIN ledger
      /\ pass[p].unowed \in Nat /\ pass[p].freed = pass[p].unowed + Bytes(G)
      /\ owed >= pass[p].unowed + Claimable
      /\ gone \cap bucket \cap legacy = {}
  <2>1. ledger \in Amounts /\ owed \in Int
    BY DEF StorageTypes
  <2>2. gone \subseteq DOMAIN ledger /\ pass[p].freed = pass[p].unowed + Bytes(G)
        /\ owed >= pass[p].unowed + Claimable + Claimed(p)
    BY <1>2 DEF Account
  <2>3. gone \cap bucket \cap legacy = {}
    BY DEF Placed, PlacedPass, StorageTypes
  <2>4. Claimable \in Nat /\ Claimed(p) \in Nat /\ pass[p].unowed \in Nat
    <3>1. Claimable \in Nat
      <4>1. Claims \in SUBSET Objects
        BY StorageAssumption DEF StorageTypes, Claims
      <4> QED BY <4>1, ClaimsAreAmounts DEF Claimable
    <3> QED BY <3>1, ClaimedIs, PassFields
  <2> QED BY <2>1, <2>2, <2>3, <2>4
<1>4. /\ Bytes(ledger) = Bytes(ledger') + Bytes(G) + Bytes(D)
      /\ Bytes(ledger') \in Nat /\ Bytes(G) \in Nat /\ Bytes(D) \in Nat
  <2>1. G \in Amounts /\ DOMAIN G = gone /\ \A o \in gone : G[o] = ledger[o]
    BY <1>3, PartsAreAmounts
  <2>2. D \in Amounts /\ DOMAIN D = dropped \ gone /\ \A o \in dropped \ gone : D[o] = ledger[o]
    BY <1>3, PartsAreAmounts
  <2>3. rest \in Amounts /\ DOMAIN rest = dropped \cup gone
        /\ \A o \in dropped \cup gone : rest[o] = ledger[o]
    BY <1>3, PartsAreAmounts
  <2>4. ledger' \in Amounts /\ DOMAIN ledger' = DOMAIN ledger \ (dropped \cup gone)
        /\ \A o \in DOMAIN ledger \ (dropped \cup gone) : ledger'[o] = ledger[o]
    <3> DEFINE S == dropped \cup gone
    <3>1. Without(ledger, S) \in Amounts /\ DOMAIN Without(ledger, S) = DOMAIN ledger \ S
          /\ \A x \in DOMAIN ledger \ S : Without(ledger, S)[x] = ledger[x]
      <4> HIDE DEF S
      <4> QED BY <1>3, WithoutIs
    <3> QED BY <1>1, <3>1
  <2>5. dropped \cup gone \subseteq DOMAIN ledger
    BY <1>3
  <2> HIDE DEF dropped, gone, G, D, rest
  <2>6. Bytes(ledger) = Bytes(ledger') + Bytes(rest)
    BY <1>3, <2>3, <2>4, <2>5, BytesSplit
  <2>7. Bytes(rest) = Bytes(G) + Bytes(D)
    BY <2>1, <2>2, <2>3, BytesSplit
  <2>8. Bytes(ledger') \in Nat /\ Bytes(G) \in Nat /\ Bytes(D) \in Nat
    BY <2>1, <2>2, <2>4, BytesAreFinite
  <2> QED BY <2>6, <2>7, <2>8
<1>5. Claims' \subseteq Claims
  <2>1. DOMAIN ledger' = {o \in DOMAIN ledger : ParentOf[o] \notin Deletes(p)} \ gone
    BY FinishEffect
  <2>2. ASSUME NEW o \in Claims' PROVE o \in Claims
    <3>1. o \in legacy \cap bucket /\ o \notin DOMAIN ledger' /\ ParentOf[o] \in parents \ Deletes(p)
      BY <1>1, <2>2 DEF Claims
    <3>2. o \notin gone
      BY <1>3, <3>1
    <3>3. o \notin DOMAIN ledger
      BY <2>1, <3>1, <3>2
    <3> QED BY <3>1, <3>3 DEF Claims
  <2> QED BY <2>2
<1>6. Claimable \in Nat /\ Claimable' \in Nat /\ Claimable' <= Claimable
  BY <1>5, ClaimsShrink
<1> HIDE DEF dropped, gone, G, D, rest
<1>7. owed' >= Claimable'
  <2>1. \A a, b, c, d, e \in Int : a >= b + c /\ d >= 0 /\ e <= c => a - b + d >= e
    OBVIOUS
  <2> QED BY <1>1, <1>3, <1>4, <1>6, <2>1
<1>8. counter' = Bytes(ledger') + owed'
  <2>1. \A l, g, d, a, u, c \in Int : l >= 0 /\ g >= 0 /\ d >= 0 /\ a >= u + c /\ c >= 0 =>
           (IF (l + g + d) + a > u + g THEN ((l + g + d) + a) - (u + g) ELSE 0) = l + (a - u + d)
    OBVIOUS
  <2>2. counter = (Bytes(ledger') + Bytes(G) + Bytes(D)) + owed
    BY <1>2, <1>4
  <2> QED BY <1>1, <1>3, <1>4, <1>6, <2>1, <2>2
<1>9. \A q \in Passes : ~Open(q)'
  <2>1. Moved(p) /\ ~Open(p)'
    BY CloseEffect DEF Finish, Unused, Open
  <2> QED BY <1>1, <1>2, <2>1, OpenStays, OneIsOpen
<1> QED BY <1>7, <1>8, <1>9

LEMMA AbandoningKeepsAccounts ==
  ASSUME StorageTypes, Placed, Apart, Accounted, NEW p \in Passes, Abandon(p)
  PROVE  Accounted'
<1> USE DEF rows, history
<1> SUFFICES ASSUME ~tangled' PROVE /\ counter' = Bytes(ledger') + owed'
                                    /\ owed' >= Claimable'
                                    /\ \A q \in Passes : Open(q)' => Account(q)'
  BY DEF Accounted
<1>1. UNCHANGED <<bucket, legacy, parents, ledger, counter, owed, tangled>> /\ Open(p)
  BY DEF Abandon, Cleared
<1>2. ~tangled /\ counter = Bytes(ledger) + owed /\ owed >= Claimable
  BY <1>1 DEF Accounted
<1>3. Claimable' = Claimable
  BY <1>1 DEF Claimable, Claims
<1>4. Moved(p) /\ ~Open(p)'
  BY CloseEffect DEF Abandon, Unused, Open
<1> QED BY <1>1, <1>2, <1>3, <1>4, OpenStays, OneIsOpen

LEMMA ReconcilingKeepsAccounts ==
  ASSUME StorageTypes, Placed, Apart, Accounted, Walked, Reconcile
  PROVE  Accounted'
<1> USE DEF rows, history
<1>1. CASE StartWalk
  <2> SUFFICES ASSUME ~tangled' PROVE /\ counter' = Bytes(ledger') + owed'
                                      /\ owed' >= Claimable'
                                      /\ \A q \in Passes : Open(q)' => Account(q)'
    BY DEF Accounted
  <2>1. UNCHANGED <<bucket, legacy, parents, ledger, counter, pass>>
    BY <1>1 DEF StartWalk
  <2>2. ~tangled /\ owed' = owed /\ \A q \in Passes : ~Open(q)
    BY <1>1 DEF StartWalk, StorageTypes
  <2>3. Claimable' = Claimable
    BY <2>1 DEF Claimable, Claims
  <2> QED BY <2>1, <2>2, <2>3 DEF Accounted, Open
<1>2. CASE CommitWalk
  <2> SUFFICES ASSUME ~tangled' PROVE /\ counter' = Bytes(ledger') + owed'
                                      /\ owed' >= Claimable'
                                      /\ \A q \in Passes : Open(q)' => Account(q)'
    BY DEF Accounted
  <2>1. /\ UNCHANGED <<bucket, legacy, parents, pass>> /\ ledger' = Own /\ owed' = 0
        /\ recon.pc = "commit"
        /\ counter' = IF recon.total # recon.used THEN recon.total ELSE counter
    BY <1>2 DEF CommitWalk
  <2>2. Quiet /\ Busy
    BY <1>2 DEF CommitWalk, Quiet, Busy
  <2>3. \A q \in Passes : ~Open(q)
    BY <2>2 DEF Apart, Quiet
  <2>4. /\ \A o \in legacy \cap bucket : ParentOf[o] \in parents => o \in recon.listing \cup DOMAIN Own
        /\ recon.total = Bytes(Own) /\ recon.used = counter /\ recon.listing = {}
    BY <2>1, <2>2 DEF Walked
  <2>5. Claims' = {}
    BY <2>1, <2>4 DEF Claims
  <2>6. Claimable' = 0
    <3>1. Claimable' = Bytes([o \in {} |-> Size[o]])
      BY <2>5 DEF Claimable
    <3> QED BY <3>1, BytesOfNone
  <2>7. Bytes(Own) \in Nat
    BY OwnIs, BytesAreFinite
  <2>8. counter' = Bytes(ledger') + owed'
    <3>1. counter' = Bytes(Own)
      BY <2>1, <2>4
    <3> QED BY <2>1, <2>7, <3>1
  <2> QED BY <2>1, <2>3, <2>6, <2>8 DEF Open
<1>3. CASE DropDangling \/ CountRows \/ AbortWalk \/ \E o \in Objects : WalkRecords(o) \/ WalkRemoves(o)
  <2>1. /\ UNCHANGED <<ledger, counter, owed, legacy, parents, pass, tangled>>
        /\ bucket' \subseteq bucket
    BY <1>3 DEF DropDangling, CountRows, AbortWalk, WalkRecords, WalkRemoves
  <2>2. Claims' \subseteq Claims
    BY <2>1 DEF Claims
  <2>3. tangled \/ \A q \in Passes : ~Open(q)
    <3>1. Busy
      BY <1>3 DEF DropDangling, CountRows, AbortWalk, WalkRecords, WalkRemoves, Busy
    <3> QED BY <3>1 DEF Apart
  <2>4. CASE tangled
    BY <2>1, <2>4 DEF Accounted
  <2>5. CASE ~tangled
    <3>1. \A q \in Passes : SameBut(q, {"again"})
      BY <2>1 DEF SameBut
    <3> QED BY <2>1, <2>2, <2>3, <2>5, <3>1, AccountsStay
  <2> QED BY <2>4, <2>5
<1> QED BY <1>1, <1>2, <1>3 DEF Reconcile

LEMMA AccountedKept ==
  ASSUME StorageTypes, Placed, Apart, Accounted, Walked, StorageNext
  PROVE  Accounted'
<1>1. ASSUME NEW p \in Passes, Pass(p) PROVE Accounted'
  BY <1>1, BeginningKeepsAccounts, StattingKeepsAccounts, RemovingKeepsAccounts,
     RefundingKeepsAccounts, FinishingKeepsAccounts, AbandoningKeepsAccounts DEF Pass
<1> QED BY <1>1, StoringKeepsAccounts, ReconcilingKeepsAccounts DEF StorageNext

-----------------------------------------------------------------------------
(* What a walk has seen *)

LEMMA StepsBeside ==
  ASSUME StorageTypes, Placed,
         \/ \E o \in Objects : Store(o) \/ Charge(o) \/ Discard(o)
         \/ \E p \in Passes : Pass(p)
  PROVE  WalkKeeps
<1>1. ASSUME NEW p \in Passes, Pass(p) PROVE WalkKeeps
  <2>1. Beside
    BY <1>1 DEF Pass, Begin, StatLegacy, Remove, RemoveFails, Refund, Finish, Abandon, Close
  <2> QED BY <2>1, BesideEffect
<1>2. ASSUME NEW o \in Objects, Charge(o) \/ Discard(o) PROVE WalkKeeps
  <2>1. Beside
    BY <1>2 DEF Charge, Discard
  <2> QED BY <2>1, BesideEffect
<1>3. ASSUME NEW o \in Objects, Store(o) PROVE WalkKeeps
  BY <1>3, StoreEffect
<1> QED BY <1>1, <1>2, <1>3

LEMMA PassesOverlapAWalk ==
  ASSUME StorageTypes, Placed, Apart, NEW p \in Passes, Pass(p), Busy
  PROVE  tangled'
<1> USE DEF rows, history
<1>1. CASE \E op \in {"job", "crawl", "cleanup", "user"} : Begin(p, op)
  BY <1>1 DEF Begin
<1>2. CASE ~\E op \in {"job", "crawl", "cleanup", "user"} : Begin(p, op)
  <2>1. CASE Refund(p)
    <3>1. Open(p)
      BY <2>1 DEF Refund, Placed, PlacedPass, Fresh
    <3>2. tangled
      BY <3>1 DEF Apart
    <3> QED BY <2>1, <3>2 DEF Refund
  <2>2. CASE ~Refund(p)
    <3>1. Open(p) /\ tangled' = tangled
      BY <1>2, <2>2 DEF Pass, StatLegacy, Remove, RemoveFails, Finish, Abandon, Cleared
    <3> QED BY <3>1 DEF Apart
  <2> QED BY <2>1, <2>2
<1> QED BY <1>1, <1>2

Seen ==
    Busy /\ Quiet =>
          /\ \A o \in legacy \cap bucket :
                ParentOf[o] \in parents => o \in recon.listing \cup DOMAIN Own
          /\ recon.pc = "commit" => recon.total = Bytes(Own) /\ recon.used = counter

LEMMA SeenKept ==
  ASSUME StorageTypes, Placed, Apart, Walked, StorageNext
  PROVE  Seen'
<1> USE DEF rows, history
<1> SUFFICES ASSUME Busy', Quiet'
             PROVE  /\ \A o \in legacy' \cap bucket' :
                         ParentOf[o] \in parents' => o \in recon'.listing \cup DOMAIN Own'
                    /\ recon'.pc = "commit" => recon'.total = Bytes(Own') /\ recon'.used = counter'
  BY DEF Seen
<1>0. Busy /\ Quiet => Seen
  BY DEF Walked, Seen
<1>1. CASE \E o \in Objects : ChargeAgain(o)
  BY <1>0, <1>1 DEF ChargeAgain, storageVars, Seen, Own, Busy, Quiet
<1>2. CASE \E o \in Objects : Store(o) \/ Discard(o)
  <2>1. PICK o \in Objects : Store(o) \/ Discard(o)
    BY <1>2
  <2>2. UNCHANGED <<legacy, parents, ledger, counter, tangled>>
        /\ \A x \in legacy : x \in bucket' => x \in bucket
    BY <2>1 DEF Store, Discard, StorageTypes
  <2>3. /\ recon'.pc = recon.pc /\ recon'.listing = recon.listing
        /\ recon'.fixed = recon.fixed /\ recon'.dropped = recon.dropped
        /\ recon'.total = recon.total /\ recon'.used = recon.used /\ ~recon'.alone
    BY <2>1, StepsBeside DEF WalkKeeps
  <2>4. Own' = Own
    BY <2>2, <2>3 DEF Own
  <2>5. Busy /\ Quiet
    BY <2>2, <2>3 DEF Busy, Quiet
  <2> QED BY <1>0, <2>2, <2>3, <2>4, <2>5 DEF Seen
<1>3. CASE \E o \in Objects : Charge(o)
  <2>1. PICK o \in Objects : Charge(o)
    BY <1>3
  <2>2. recon'.pc = recon.pc /\ ~recon'.alone
    BY <2>1, StepsBeside DEF WalkKeeps
  <2>3. tangled'
    BY <2>1, <2>2 DEF Charge, Busy
  <2> QED BY <2>2, <2>3 DEF Quiet
<1>4. CASE \E p \in Passes : Pass(p)
  <2>1. recon'.pc = recon.pc /\ ~recon'.alone
    BY <1>4, StepsBeside DEF WalkKeeps
  <2>2. tangled'
    BY <1>4, <2>1, PassesOverlapAWalk DEF Busy
  <2> QED BY <2>1, <2>2 DEF Quiet
<1>5. CASE StartWalk
  BY <1>5, StartEffect DEF StartWalk
<1>6. CASE CommitWalk \/ AbortWalk
  BY <1>6, EndEffect DEF Busy
<1>7. CASE DropDangling \/ CountRows \/ \E o \in Objects : WalkRecords(o) \/ WalkRemoves(o)
  <2>1. /\ UNCHANGED <<legacy, parents, ledger, counter, tangled>> /\ bucket' \subseteq bucket
        /\ Busy
    BY <1>7 DEF DropDangling, CountRows, WalkRecords, WalkRemoves, Busy
  <2>2. recon'.alone = recon.alone
    BY <1>7, DropEffect, CountEffect, RecordsEffect, RemovesEffect
  <2>3. Seen /\ Quiet
    BY <1>0, <2>1, <2>2 DEF Quiet
  <2>4. DOMAIN Own' = (DOMAIN ledger' \cup recon'.fixed) \ recon'.dropped
        /\ DOMAIN Own = (DOMAIN ledger \cup recon.fixed) \ recon.dropped
    BY DEF Own
  <2>5. CASE CountRows
    <3>1. Own' = Own
      BY <2>1, <2>5, CountEffect DEF Own
    <3> QED BY <2>1, <2>3, <2>5, <3>1, CountEffect DEF Seen
  <2>6. CASE DropDangling
    BY <2>1, <2>3, <2>4, <2>6, DropEffect DEF Seen, Walked
  <2>7. ASSUME NEW o \in Objects, WalkRecords(o)
        PROVE  /\ \A x \in legacy' \cap bucket' :
                         ParentOf[x] \in parents' => x \in recon'.listing \cup DOMAIN Own'
               /\ recon'.pc # "commit"
    <3>1. recon.pc = "walk" /\ recon.dropped = {}
      BY <2>7 DEF WalkRecords, Walked
    <3>2. /\ recon'.pc = "walk" /\ recon'.listing = recon.listing \ {o}
          /\ o \in DOMAIN ledger \cup recon'.fixed /\ recon.fixed \subseteq recon'.fixed
          /\ recon'.dropped = {}
      BY <2>7, <3>1, RecordsEffect
    <3> QED BY <2>1, <2>3, <2>4, <3>1, <3>2 DEF Seen
  <2>8. ASSUME NEW o \in Objects, WalkRemoves(o)
        PROVE  /\ \A x \in legacy' \cap bucket' :
                         ParentOf[x] \in parents' => x \in recon'.listing \cup DOMAIN Own'
               /\ recon'.pc # "commit"
    <3>1. o \in legacy => ParentOf[o] \notin parents
      BY <2>8, StorageAssumption DEF WalkRemoves, Attributable, StorageTypes
    <3> QED BY <2>1, <2>3, <2>4, <2>8, <3>1, RemovesEffect DEF Seen
  <2> QED BY <1>7, <2>5, <2>6, <2>7, <2>8
<1> QED BY <1>1, <1>2, <1>3, <1>4, <1>5, <1>6, <1>7 DEF StorageNext, Reconcile

LEMMA WalkedKept ==
  ASSUME StorageTypes, Placed, Apart, Walked, StorageNext
  PROVE  Walked'
<1> USE DEF rows, history
<1>1. /\ recon'.pc = "walk" => recon'.dropped = {}
      /\ recon'.pc \in {"count", "commit"} => recon'.listing = {}
  <2>1. CASE \E o \in Objects : ChargeAgain(o)
    BY <2>1 DEF ChargeAgain, storageVars, Walked
  <2>2. CASE (\E o \in Objects : Store(o) \/ Charge(o) \/ Discard(o)) \/ \E p \in Passes : Pass(p)
    BY <2>2, StepsBeside DEF Walked, WalkKeeps
  <2>3. CASE StartWalk \/ CommitWalk \/ AbortWalk
    BY <2>3, StartEffect, EndEffect
  <2>4. CASE DropDangling \/ CountRows
    BY <2>4, DropEffect, CountEffect DEF Walked
  <2>5. CASE \E o \in Objects : WalkRecords(o) \/ WalkRemoves(o)
    <3>1. PICK o \in Objects : WalkRecords(o) \/ WalkRemoves(o)
      BY <2>5
    <3>2. recon.pc = "walk"
      BY <3>1 DEF WalkRecords, WalkRemoves
    <3> QED BY <3>1, <3>2, RecordsEffect, RemovesEffect DEF Walked
  <2> QED BY <2>1, <2>2, <2>3, <2>4, <2>5 DEF StorageNext, Reconcile
<1> QED BY <1>1, SeenKept DEF Walked, Seen

LEMMA RepairingKept ==
  ASSUME StorageTypes, Placed, Walked, Repairing, StorageNext
  PROVE  Repairing'
<1> USE DEF rows, history
<1> SUFFICES ASSUME Busy', recon'.alone, ~recon'.failed
             PROVE  /\ recon'.listing \subseteq bucket'
                    /\ \A o \in bucket' \ recon'.listing : o \in DOMAIN Own' /\ Own'[o] = Size[o]
                    /\ recon'.pc # "walk" => DOMAIN Own' \subseteq bucket'
  BY DEF Repairing
<1>1. CASE \E o \in Objects : ChargeAgain(o)
  BY <1>1 DEF ChargeAgain, storageVars, Repairing, Own, Busy
<1>2. CASE (\E o \in Objects : Store(o) \/ Charge(o) \/ Discard(o)) \/ \E p \in Passes : Pass(p)
  BY <1>2, StepsBeside DEF WalkKeeps
<1>3. CASE StartWalk
  BY <1>3, StartEffect DEF StartWalk
<1>4. CASE CommitWalk \/ AbortWalk
  BY <1>4, EndEffect
<1>5. CASE DropDangling \/ CountRows \/ \E o \in Objects : WalkRecords(o) \/ WalkRemoves(o)
  <2>1. ledger' = ledger /\ Busy
    BY <1>5 DEF DropDangling, CountRows, WalkRecords, WalkRemoves, Busy
  <2>2. recon'.alone = recon.alone /\ (~recon'.failed => ~recon.failed)
    <3>1. CASE DropDangling \/ CountRows
      BY <3>1, DropEffect, CountEffect
    <3>2. CASE \E o \in Objects : WalkRecords(o) \/ WalkRemoves(o)
      BY <3>2, RecordsEffect, RemovesEffect
    <3> QED BY <1>5, <3>1, <3>2
  <2>3. /\ recon.listing \subseteq bucket
        /\ \A o \in bucket \ recon.listing : o \in DOMAIN Own /\ Own[o] = Size[o]
        /\ recon.pc # "walk" => DOMAIN Own \subseteq bucket
    BY <2>1, <2>2 DEF Repairing
  <2>4. /\ DOMAIN Own' = (DOMAIN ledger' \cup recon'.fixed) \ recon'.dropped
        /\ \A o \in DOMAIN Own' : Own'[o] = IF o \in recon'.fixed THEN Size[o] ELSE ledger'[o]
        /\ DOMAIN Own = (DOMAIN ledger \cup recon.fixed) \ recon.dropped
        /\ \A o \in DOMAIN Own : Own[o] = IF o \in recon.fixed THEN Size[o] ELSE ledger[o]
    BY DEF Own
  <2>5. CASE CountRows
    <3>1. Own' = Own /\ bucket' = bucket
      BY <2>1, <2>5, CountEffect DEF CountRows, Own
    <3> QED BY <2>3, <2>5, <3>1, CountEffect
  <2>6. CASE DropDangling
    <3>1. bucket' = bucket /\ recon.dropped = {}
      BY <2>6, DropEffect DEF DropDangling, Walked
    <3>2. recon'.dropped = {o \in DOMAIN Own : o \notin bucket} /\ recon'.fixed = recon.fixed
          /\ recon'.listing = {} /\ recon.listing = {}
      BY <2>6, DropEffect
    <3> QED BY <2>1, <2>3, <2>4, <3>1, <3>2
  <2>7. ASSUME NEW o \in Objects, WalkRecords(o)
        PROVE  /\ recon'.listing \subseteq bucket'
               /\ \A x \in bucket' \ recon'.listing : x \in DOMAIN Own' /\ Own'[x] = Size[x]
               /\ recon'.pc = "walk"
    <3>1. bucket' = bucket /\ recon.dropped = {} /\ o \in recon.listing
      BY <2>7 DEF WalkRecords, Walked
    <3>2. /\ recon'.pc = "walk" /\ recon'.listing = recon.listing \ {o}
          /\ recon'.fixed = IF o \in DOMAIN ledger /\ ledger[o] = Size[o] THEN recon.fixed
                            ELSE recon.fixed \cup {o}
          /\ recon'.dropped = {}
      BY <2>7, <3>1, RecordsEffect
    <3> QED BY <2>1, <2>3, <2>4, <3>1, <3>2
  <2>8. ASSUME NEW o \in Objects, WalkRemoves(o)
        PROVE  /\ recon'.listing \subseteq bucket'
               /\ \A x \in bucket' \ recon'.listing : x \in DOMAIN Own' /\ Own'[x] = Size[x]
               /\ recon'.pc = "walk"
    <3>1. /\ recon'.pc = "walk" /\ recon'.listing = recon.listing \ {o}
          /\ recon'.fixed = recon.fixed /\ recon'.dropped = recon.dropped
          /\ bucket' = bucket \ {o}
      BY <2>8, RemovesEffect
    <3>2. Own' = Own
      BY <2>1, <3>1 DEF Own
    <3> QED BY <2>3, <3>1, <3>2
  <2> QED BY <1>5, <2>5, <2>6, <2>7, <2>8
<1> QED BY <1>1, <1>2, <1>3, <1>4, <1>5 DEF StorageNext, Reconcile

-----------------------------------------------------------------------------
(* The invariant and the theorems *)

LEMMA StorageInvHoldsAtFirst == StorageInit => StorageInv
<1> SUFFICES ASSUME StorageInit PROVE StorageInv
  OBVIOUS
<1>1. StorageTypes
  BY TypesHoldAtFirst
<1>2. \A p \in Passes : pass[p] = Unused
  BY DEF StorageInit
<1>3. \A p \in Passes : ~Open(p) /\ Fresh(p) /\ pass[p].again = {}
  BY <1>2, NothingIs DEF Open, Unused, Fresh
<1>4. recon.pc = "off" /\ recon.listing = {} /\ recon.fixed = {} /\ recon.dropped = {}
  BY DEF StorageInit, Off
<1>5. Placed
  <2>1. bucket \cup DOMAIN ledger \subseteq Known
    BY DEF StorageInit, Known
  <2>2. \A p \in Passes : PlacedPass(p)
    BY <1>1, <1>3, StorageAssumption DEF PlacedPass, Fresh, StorageTypes
  <2> QED BY <1>4, <2>1, <2>2 DEF Placed
<1>6. Accounted
  <2>1. Bytes(ledger) = 0
    <3>1. BytesOf(ledger) = {}
      BY DEF StorageInit, BytesOf
    <3> QED BY <3>1, FS_EmptySet DEF Bytes
  <2>2. Claims \subseteq legacy /\ legacy \subseteq Objects
    BY <1>1, StorageAssumption DEF Claims, StorageTypes
  <2>3. Claimable <= Bytes([o \in legacy |-> Size[o]]) /\ Bytes([o \in legacy |-> Size[o]]) \in Nat
    BY <2>2, ClaimsAreAmounts DEF Claimable
  <2> QED BY <1>3, <2>1, <2>3 DEF Accounted, StorageInit
<1>7. ~Busy
  BY <1>4 DEF Busy
<1> QED BY <1>1, <1>3, <1>4, <1>5, <1>6, <1>7 DEF StorageInv, Apart, Walked, Repairing, Busy

LEMMA StorageInvIsKept ==
  ASSUME StorageInv, [StorageNext]_storageVars
  PROVE  StorageInv'
<1>1. CASE StorageNext
  <2>1. StorageTypes /\ Placed /\ Apart /\ Accounted /\ Walked /\ Repairing
        /\ \A p \in Passes : CoveredPass(p)
    BY DEF StorageInv, CoveredPass
  <2>2. \A p \in Passes : CoveredPass(p)'
    BY <1>1, <2>1, CoveredKept
  <2>3. StorageTypes' /\ Placed' /\ Apart' /\ Accounted' /\ Walked' /\ Repairing'
    BY <1>1, <2>1, TypesKept, PlacesKept, ApartKept, AccountedKept, WalkedKept, RepairingKept
  <2> QED BY <2>2, <2>3 DEF StorageInv, CoveredPass
<1>2. CASE UNCHANGED storageVars
  <2>1. StorageTypes' /\ Placed'
    BY <1>2 DEF storageVars, StorageInv, StorageTypes, Placed, PlacedPass, Fresh, Known, Open
  <2>2. Apart' /\ \A p \in Passes : Open(p)' => Covered(p)'
    BY <1>2 DEF storageVars, StorageInv, Apart, Covered, Open, Busy
  <2>3. Accounted'
    BY <1>2 DEF storageVars, StorageInv, Accounted, Account, Claimable, Claims, Claimed, Open
  <2>4. Walked' /\ Repairing'
    BY <1>2 DEF storageVars, StorageInv, Walked, Quiet, Repairing, Busy, Own
  <2> QED BY <2>1, <2>2, <2>3, <2>4 DEF StorageInv
<1> QED BY <1>1, <1>2

THEOREM StorageInvHolds == StorageSpec => []StorageInv
<1>1. StorageInv /\ [StorageNext]_storageVars => StorageInv'
  BY StorageInvIsKept
<1> QED BY <1>1, StorageInvHoldsAtFirst, PTL DEF StorageSpec

THEOREM StorageAlwaysHolds == StorageSpec => []StorageHolds
<1>1. StorageInv => StorageHolds
  <2> SUFFICES ASSUME StorageInv PROVE StorageHolds
    OBVIOUS
  <2>1. StorageTypeOK
    BY AmountsAre DEF StorageInv, StorageTypes, StorageTypeOK
  <2>2. CounterIsAccounted
    <3>1. Claimable \in Nat /\ owed \in Int
      <4>1. Claims \in SUBSET Objects
        BY StorageAssumption DEF StorageInv, StorageTypes, Claims
      <4> QED BY <4>1, ClaimsAreAmounts DEF Claimable, StorageInv, StorageTypes
    <3> QED BY <3>1 DEF StorageInv, Accounted, CounterIsAccounted
  <2> QED BY <2>1, <2>2 DEF StorageHolds
<1> QED BY <1>1, StorageInvHolds, PTL

THEOREM RowsAreKept == StorageSpec => NoRowIsDroppedOverItsObject
<1>1. StorageInv /\ [StorageNext]_storageVars
        => [\A o \in DOMAIN ledger \ DOMAIN ledger' : o \in bucket' => o \in unread \/ StoredAgain(o)]_storageVars
  <2> SUFFICES ASSUME StorageInv, StorageNext, NEW o \in DOMAIN ledger \ DOMAIN ledger', o \in bucket'
               PROVE  o \in unread \/ StoredAgain(o)
    OBVIOUS
  <2> USE DEF rows, history
  <2>1. StorageTypes /\ Placed
    BY DEF StorageInv
  <2>2. CASE \E x \in Objects : Charge(x)
    <3>1. PICK x \in Objects : Charge(x)
      BY <2>2
    <3>2. DOMAIN ledger' = DOMAIN ledger \cup {x}
      BY <3>1 DEF Charge, With
    <3> QED BY <3>2
  <2>3. CASE \E p \in Passes : Finish(p)
    <3>1. PICK p \in Passes : Finish(p)
      BY <2>3
    <3>2. /\ bucket' = bucket /\ Open(p) /\ pass[p].work = Nothing
      BY <3>1 DEF Finish, Cleared
    <3>3. o \in pass[p].gone => StoredAgain(o)
      BY <2>1, <3>2 DEF Placed, PlacedPass, StoredAgain
    <3> SUFFICES ASSUME o \notin pass[p].gone PROVE o \in unread
      BY <3>3
    <3>4. ParentOf[o] \in Deletes(p)
      BY <2>1, <3>1, FinishEffect
    <3>5. ParentOf[o] \in pass[p].scope \ pass[p].failed
      BY <3>4 DEF Deletes
    <3>6. Covered(p)
      BY <3>2 DEF StorageInv
    <3> QED BY <3>2, <3>5, <3>6, NothingIs DEF Covered
  <2>4. CASE CommitWalk
    <3>1. o \in recon.dropped /\ bucket' = bucket
      BY <2>1, <2>4, OwnIs DEF CommitWalk
    <3> QED BY <2>1, <3>1 DEF Placed, StoredAgain
  <2>5. CASE ~((\E x \in Objects : Charge(x)) \/ (\E p \in Passes : Finish(p)) \/ CommitWalk)
    <3>1. ASSUME NEW x \in Objects, Store(x) \/ ChargeAgain(x) \/ Discard(x)
          PROVE  ledger' = ledger
      BY <3>1 DEF Store, ChargeAgain, Discard, storageVars
    <3>2. ASSUME NEW p \in Passes, Pass(p), ~ Finish(p)
          PROVE  ledger' = ledger
      <4>1. ASSUME \E op \in {"job", "crawl", "cleanup", "user"} : Begin(p, op)
            PROVE  ledger' = ledger
        BY <4>1 DEF Begin
      <4>2. ASSUME NEW x \in Objects, StatLegacy(p, x) \/ Remove(p, x) \/ RemoveFails(p, x)
            PROVE  ledger' = ledger
        BY <4>2 DEF StatLegacy, Remove, RemoveFails
      <4>3. ASSUME Refund(p) \/ Abandon(p)
            PROVE  ledger' = ledger
        BY <4>3 DEF Refund, Abandon
      <4> QED BY <3>2, <4>1, <4>2, <4>3 DEF Pass
    <3>3. ASSUME Reconcile, ~ CommitWalk
          PROVE  ledger' = ledger
      <4>1. ASSUME StartWalk \/ CountRows \/ AbortWalk
            PROVE  ledger' = ledger
        BY <4>1 DEF StartWalk, CountRows, AbortWalk
      <4>2. ASSUME DropDangling
            PROVE  ledger' = ledger
        BY <4>2 DEF DropDangling
      <4>3. ASSUME NEW x \in Objects, WalkRecords(x)
            PROVE  ledger' = ledger
        BY <4>3 DEF WalkRecords
      <4>4. ASSUME NEW x \in Objects, WalkRemoves(x)
            PROVE  ledger' = ledger
        BY <4>4 DEF WalkRemoves
      <4> QED BY <3>3, <4>1, <4>2, <4>3, <4>4 DEF Reconcile
    <3>4. ledger' = ledger
      BY <2>2, <2>3, <2>4, <2>5, <3>1, <3>2, <3>3 DEF StorageNext
    <3> QED BY <3>4
  <2> QED BY <2>2, <2>3, <2>4, <2>5
<1> QED BY <1>1, StorageInvHolds, PTL DEF StorageSpec, NoRowIsDroppedOverItsObject

THEOREM RepairsComplete == StorageSpec => RepairIsComplete
<1>1. StorageInv /\ [StorageNext]_storageVars
        => [CommitWalk /\ recon.alone /\ ~recon.failed
              => /\ DOMAIN ledger' = bucket'
                 /\ \A o \in DOMAIN ledger' : ledger'[o] = Size[o]
                 /\ counter' = Bytes(ledger')]_storageVars
  <2> SUFFICES ASSUME StorageInv, CommitWalk, recon.alone, ~recon.failed
               PROVE  /\ DOMAIN ledger' = bucket'
                      /\ \A o \in DOMAIN ledger' : ledger'[o] = Size[o]
                      /\ counter' = Bytes(ledger')
    OBVIOUS
  <2>1. Busy /\ recon.pc = "commit" /\ bucket' = bucket /\ ledger' = Own
        /\ counter' = IF recon.total # recon.used THEN recon.total ELSE counter
    BY DEF CommitWalk, Busy
  <2>2. recon.listing = {} /\ recon.total = Bytes(Own) /\ recon.used = counter
    BY <2>1 DEF StorageInv, Walked, Quiet
  <2>3. /\ \A o \in bucket \ recon.listing : o \in DOMAIN Own /\ Own[o] = Size[o]
        /\ DOMAIN Own \subseteq bucket
    BY <2>1 DEF StorageInv, Repairing
  <2>4. counter' = Bytes(Own)
    BY <2>1, <2>2
  <2> QED BY <2>1, <2>2, <2>3, <2>4
<1> QED BY <1>1, StorageInvHolds, PTL DEF StorageSpec, RepairIsComplete
============================================================================
