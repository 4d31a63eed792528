---------------------------- MODULE ScheduleProofs ----------------------------
(***************************************************************************)
(* Theorems about Schedule, for any number of jobs, ticks and requests and *)
(* any limits: the meters hold, and the engine's Schedules follow the rows *)
(* wherever nothing the history names has set them apart.                  *)
(***************************************************************************)
EXTENDS Schedule, FiniteSetTheorems, TLAPS

-----------------------------------------------------------------------------
(* The inductive invariant *)

Rows == [status : {"absent", "none", "active", "paused", "gone"}, cron : 0..2,
         lane : {"none", "v1", "v2"}]
Stages == {"commit", "sync", "create", "restore", "pause", "forget", "drop"}
Requests == {Idle} \cup [at : Stages, job : Jobs, read : Rows, want : Rows]
Movers == {Idle} \cup [at : {"put", "commit"}, job : Jobs, read : Rows]
          \cup [at : {"reconcile"}, read : [Jobs -> Rows], quiet : SUBSET Jobs]
Workflows == {Idle} \cup [at : {"over"}, job : Jobs]
             \cup [at : {"locked", "retry", "sleep", "child"}, job : Jobs, asks : Nat, read : Rows]
Runs == {"none", "pending", "failed", "ended"}

Asks == 1..MaxRequests

Types ==
    /\ TypeOK
    /\ request \in [Asks -> Requests]
    /\ mover \in Movers
    /\ tick \in [Ticks -> Workflows]
    /\ \A n \in Asks : request[n].at # "none" => n <= made

(* Rows of the month the admissions inserted, first runs and ticks apart. *)
Ran == {t \in Ticks : run[t] # "none"}
Begun == {j \in Jobs : first[j] # "none"}

Follows(r, c) ==
    r.lane = "v2" =>
        /\ r.status = "active" => c = [cron |-> r.cron, paused |-> FALSE]
        /\ r.status = "gone" => c = NoClock

(* What a request asks for: an active schedule kept active ends on v2, and *)
(* only a write that leaves it active is undone.                           *)
SoundRequest(q) ==
    /\ q.at \in {"commit", "sync"} =>
          /\ q.want.status # "gone"
          /\ q.read.status = "active" /\ q.want.status = "active" => q.want.lane = "v2"
    /\ q.at \in {"create", "pause", "restore"} => q.want.status = "active"

Sound == \A n \in Asks : SoundRequest(request[n])

On(n, j) == request[n].at # "none" /\ request[n].job = j
Moving(j) == mover.at \in {"put", "commit"} /\ mover.job = j

(* The one request on a job has the row to itself, and the Schedule still *)
(* follows what the request read.                                         *)
Alone(n) ==
    LET q == request[n] IN
    /\ row[q.job] = IF q.at \in {"commit", "forget", "drop"} THEN q.read ELSE q.want
    /\ q.at \in {"commit", "sync", "restore", "forget"} => Follows(q.read, clock[q.job])
    /\ q.at = "drop" /\ q.read.lane = "v2" => clock[q.job] = NoClock

(* So has the migration. *)
Held(j) ==
    /\ mover.read.status # "gone"
    /\ row[j] = [mover.read EXCEPT !.status = "paused"]
    /\ mover.at = "commit" =>
          clock[j] = [cron |-> mover.read.cron, paused |-> mover.read.status # "active"]

Tracked(j) ==
    /\ \A m, n \in Asks : On(m, j) /\ On(n, j) => m = n
    /\ \A n \in Asks : On(n, j) => ~Moving(j) /\ Alone(n)
    /\ Moving(j) => Held(j)
    /\ (\A n \in Asks : ~On(n, j)) /\ ~Moving(j) => Follows(row[j], clock[j])

Reconciling ==
    mover.at = "reconcile" =>
        \A j \in mover.quiet : row[j] = mover.read[j] /\ \A n \in Asks : ~On(n, j)

SlotsHold == Slots <= Concurrent
MonthHolds == Admitted <= Monthly
Armed == Cardinality(Active \ rearmed) <= Cap
Tracking == \A j \in Jobs \ drift : Tracked(j)

ScheduleInv ==
    Types /\ SlotsHold /\ MonthHolds /\ Armed /\ Sound /\ Tracking /\ Reconciling

LEMMA Finites ==
    ASSUME Types
    PROVE  /\ IsFiniteSet(Pending) /\ IsFiniteSet(Active) /\ IsFiniteSet(Starting)
           /\ IsFiniteSet(Ran) /\ IsFiniteSet(Begun) /\ IsFiniteSet(crawling)
           /\ Cardinality(Pending) \in Nat /\ Cardinality(Starting) \in Nat
           /\ Cardinality(Ran) \in Nat /\ Cardinality(Begun) \in Nat
           /\ Cardinality(crawling) \in Nat
<1>1. /\ Pending \in SUBSET Ticks /\ Active \in SUBSET Jobs /\ Starting \in SUBSET Jobs
      /\ Ran \in SUBSET Ticks /\ Begun \in SUBSET Jobs /\ crawling \in SUBSET Crawls
  BY DEF Pending, Active, Starting, Ran, Begun, Types, TypeOK
<1>2. /\ IsFiniteSet(Pending) /\ IsFiniteSet(Active) /\ IsFiniteSet(Starting)
      /\ IsFiniteSet(Ran) /\ IsFiniteSet(Begun) /\ IsFiniteSet(crawling)
  BY <1>1, FS_Subset, SetsAssumption
<1> QED
  BY <1>2, FS_CardinalityType

(* What the row, the Schedule and a request can hold. *)
LEMMA Constants == NoJob \in Rows /\ Unscheduled \in Rows /\ Idle \in Requests
  BY DEF NoJob, Unscheduled, Rows, Idle, Requests, Stages

LEMMA WriteTyped ==
    ASSUME NEW r \in Rows, NEW from \in Rows, NEW to \in Rows
    PROVE  Write(r, from, to) \in Rows
  BY DEF Write, Rows

(* The row's writer alone: what it read becomes what it wants, and back. *)
LEMMA WriteAlone ==
    ASSUME NEW from \in Rows, NEW to \in Rows
    PROVE  Write(from, from, to) = to
  BY DEF Write, Rows

(* A write arms only when the writer itself changed the status. *)
LEMMA WriteArms ==
    ASSUME NEW r \in Rows, NEW from \in Rows, NEW to \in Rows,
           Write(r, from, to).status = "active", r.status # "active"
    PROVE  to.status = "active" /\ from.status # "active"
  BY DEF Write

LEMMA ClockTyped ==
    ASSUME NEW r \in Rows
    PROVE  /\ ClockOf(r) \in [cron : 0..2, paused : BOOLEAN]
           /\ Follows(r, ClockOf(r))
<1>1. CASE r.lane = "v2" /\ r.status = "active" /\ r.cron # 0
  <2>1. ClockOf(r) = [cron |-> r.cron, paused |-> FALSE]
    BY <1>1, Zenon DEF ClockOf
  <2> QED
    BY <1>1, <2>1 DEF Rows, Follows
<1>2. CASE r.lane = "v2" /\ r.status = "paused" /\ r.cron # 0
  <2>1. ClockOf(r) = [cron |-> r.cron, paused |-> TRUE]
    BY <1>2, Zenon DEF ClockOf
  <2> QED
    BY <1>2, <2>1 DEF Rows, Follows
<1>3. CASE ~(r.lane = "v2" /\ r.status \in {"active", "paused"} /\ r.cron # 0)
  <2>1. ClockOf(r) = NoClock
    BY <1>3, Zenon DEF ClockOf
  <2> QED
    <3>1. r.status = "active" /\ r.lane = "v2" => r.cron = 0
      BY <1>3
    <3>2. NoClock = [cron |-> 0, paused |-> FALSE]
      BY Zenon DEF NoClock
    <3>3. Follows(r, NoClock)
      BY <3>1, <3>2 DEF Follows
    <3> QED
      BY <2>1, <3>2, <3>3
<1> QED
  BY <1>1, <1>2, <1>3

LEMMA WantedTyped ==
    ASSUME NEW r \in Rows, NEW w \in Wanted(r)
    PROVE  /\ w \in Rows /\ (r.status # "gone" => w.status # "gone")
           /\ r.status = "active" /\ w.status = "active" => w.lane = "v2"
<1>1. CASE w = Unscheduled
  BY <1>1, Constants DEF Unscheduled
<1>2. ASSUME NEW c \in 1..2, w = WithCron(r, c)
      PROVE  /\ w \in Rows /\ (w.status = "active" => r.status # "active" \/ w.lane = "v2")
             /\ r.status # "gone" => w.status # "gone"
  <2> DEFINE v == [r EXCEPT !.cron = c, !.status = IF @ = "none" THEN "active" ELSE @]
  <2>1. v \in Rows /\ (r.status # "gone" => v.status # "gone")
    <3> DEFINE u == [r EXCEPT !.cron = c]
    <3>1. u \in Rows /\ u.status = r.status
      BY DEF Rows
    <3>2. v = [u EXCEPT !.status = IF u.status = "none" THEN "active" ELSE u.status]
      OBVIOUS
    <3> HIDE DEF u, v
    <3> QED
      BY <3>1, <3>2 DEF Rows
  <2> HIDE DEF v
  <2>2. w = OnV2(v)
    BY <1>2 DEF WithCron, v
  <2> QED
    BY <2>1, <2>2 DEF OnV2, Rows
<1>3. ASSUME NEW s \in {"active", "paused"}, w = WithStatus(r, s)
      PROVE  /\ w \in Rows /\ (w.status = "active" => w.lane = "v2")
             /\ r.status # "gone" => w.status # "gone"
  BY <1>3 DEF WithStatus, OnV2, Rows
<1> QED
  BY <1>1, <1>2, <1>3 DEF Wanted

(* A request being handled: its job, what it read and what it wants. *)
LEMMA Handled ==
    ASSUME Types, NEW n \in Asks, request[n].at # "none"
    PROVE  /\ request[n].at \in Stages
           /\ request[n].job \in Jobs /\ request[n].read \in Rows /\ request[n].want \in Rows
           /\ request[n] \in [at : Stages, job : Jobs, read : Rows, want : Rows]
  BY DEF Types, Requests, Idle

-----------------------------------------------------------------------------
(* Tracking, for the jobs a step does not touch and for those it does *)

LEMMA Untouched ==
    ASSUME NEW k \in Jobs, Tracked(k),
           row'[k] = row[k], clock'[k] = clock[k],
           \A n \in Asks : request'[n] = request[n] \/ (~On(n, k) /\ ~On(n, k)'),
           mover' = mover \/ (~Moving(k) /\ ~Moving(k)')
    PROVE  Tracked(k)'
<1>1. \A n \in Asks : (On(n, k)' <=> On(n, k)) /\ (On(n, k) => request'[n] = request[n])
  BY DEF On
<1>2. (Moving(k)' <=> Moving(k)) /\ (Moving(k) => mover' = mover)
  BY DEF Moving
<1>3. ASSUME NEW n \in Asks, On(n, k)'  PROVE ~Moving(k)' /\ Alone(n)'
  BY <1>1, <1>2, <1>3 DEF Tracked, Alone, On
<1>4. Moving(k)' => Held(k)'
  BY <1>2 DEF Tracked, Held
<1> QED
  BY <1>1, <1>2, <1>3, <1>4 DEF Tracked

(* A request moves on or ends. *)
LEMMA Progresses ==
    ASSUME Types, Tracking, Reconciling,
           NEW n \in Asks, NEW j \in Jobs, request[n].at # "none", request[n].job = j,
           NEW r \in Requests, request' = [request EXCEPT ![n] = r],
           r.at # "none" => r.job = j,
           mover' = mover, drift \subseteq drift',
           \A k \in Jobs : k # j => row'[k] = row[k] /\ clock'[k] = clock[k],
           j \notin drift' /\ r.at = "none" => Follows(row'[j], clock'[j]),
           j \notin drift' /\ r.at # "none" => Alone(n)'
    PROVE  Tracking' /\ Reconciling'
<1>1. /\ request'[n] = r
      /\ \A m \in Asks : m # n => request'[m] = request[m]
  BY DEF Types
<1>2. On(n, j) /\ \A k \in Jobs : k # j => ~On(n, k) /\ ~On(n, k)'
  BY <1>1 DEF On
<1>3. ASSUME NEW k \in Jobs, k \notin drift', k # j  PROVE Tracked(k)'
  BY <1>1, <1>2, <1>3, Untouched DEF Tracking
<1>4. ASSUME j \notin drift'  PROVE Tracked(j)'
  <2>1. Tracked(j)
    BY <1>4 DEF Tracking
  <2>2. ~Moving(j) /\ ~Moving(j)' /\ \A m \in Asks : On(m, j) => m = n
    BY <2>1, <1>2 DEF Tracked, Moving
  <2>3. \A m \in Asks : On(m, j)' => m = n /\ r.at # "none"
    BY <2>2, <1>1 DEF On
  <2>4. ~(\E m \in Asks : On(m, j)') => Follows(row'[j], clock'[j])
    BY <1>1, <1>4 DEF On
  <2>5. \A m \in Asks : On(m, j)' => Alone(m)'
    BY <2>3, <1>4
  <2> QED
    BY <2>2, <2>3, <2>4, <2>5 DEF Tracked
<1>5. Reconciling'
  BY <1>1, <1>2 DEF Reconciling, On, Types, Movers, Idle
<1> QED
  BY <1>3, <1>4, <1>5 DEF Tracking

(* A request arrives; a POST writes its row with it. *)
LEMMA Begins ==
    ASSUME Types, Tracking, Reconciling,
           NEW q \in Requests, q.at \in {"commit", "create", "forget"}, Begin(q),
           clock' = clock,
           \A k \in Jobs : k # q.job => row'[k] = row[k],
           row'[q.job] = IF q.at = "create" THEN q.want ELSE q.read,
           q.at # "create" => q.read = row[q.job]
    PROVE  /\ request' \in [Asks -> Requests] /\ mover' \in Movers /\ drift' \subseteq Jobs
           /\ made' \in Nat /\ \A n \in Asks : request'[n].at # "none" => n <= made'
           /\ made + 1 \in Asks /\ request[made + 1].at = "none"
           /\ request' = [request EXCEPT ![made + 1] = q]
           /\ Tracking' /\ Reconciling'
<1> DEFINE j == q.job
<1> PICK a : a = made + 1
  OBVIOUS
<1>1. a \in Asks /\ request[a].at = "none" /\ made \in Nat
  BY LimitsAssumption DEF Types, TypeOK, Begin, Asks
<1>2. /\ request' = [request EXCEPT ![a] = q] /\ made' = a
      /\ request'[a] = q
      /\ \A m \in Asks : m # a => request'[m] = request[m]
  BY <1>1 DEF Types, Begin
<1>3. j \in Jobs /\ q.at # "none"
  BY DEF Requests, Idle
<1>4. /\ mover' \in Movers
      /\ mover'.at = mover.at /\ (mover.at # "reconcile" => mover' = mover)
      /\ mover.at = "reconcile" =>
            mover'.quiet = mover.quiet \ {j} /\ mover'.read = mover.read /\ mover.quiet \subseteq Jobs
  BY DEF Types, Movers, Begin, Idle
<1>5. \A k \in Jobs : (Moving(k)' <=> Moving(k))
  BY <1>4 DEF Moving
<1>6. drift \subseteq drift' /\ drift' \subseteq Jobs
  BY <1>3 DEF Begin, Types, TypeOK
<1>7. ASSUME NEW k \in Jobs, k \notin drift', k # j  PROVE Tracked(k)'
  <2>1. \A n \in Asks : request'[n] = request[n] \/ (~On(n, k) /\ ~On(n, k)')
    BY <1>1, <1>2, <1>7 DEF On
  <2>2. mover' = mover \/ (~Moving(k) /\ ~Moving(k)')
    BY <1>4 DEF Moving
  <2> QED
    BY <2>1, <2>2, <1>6, <1>7, Untouched DEF Tracking
<1>8. ASSUME j \notin drift'  PROVE Tracked(j)'
  <2>1. InFlight(j) = {} /\ ~Moving(j) /\ Tracked(j)
    BY <1>3, <1>6, <1>8 DEF Begin, Moving, Tracking
  <2>2. \A n \in Asks : ~On(n, j)
    BY <2>1 DEF InFlight, On, Asks
  <2>3. \A n \in Asks : On(n, j)' => n = a
    BY <2>2, <1>2 DEF On
  <2>4. Alone(a)'
    BY <2>1, <2>2, <1>2 DEF Alone, Tracked
  <2>5. On(a, j)'
    BY <1>1, <1>2, <1>3 DEF On
  <2> QED
    BY <2>1, <2>3, <2>4, <2>5, <1>1, <1>3, <1>5 DEF Tracked
<1>9. Reconciling'
  <2> SUFFICES ASSUME mover.at = "reconcile", NEW k \in mover.quiet \ {j}
               PROVE  row'[k] = mover.read[k] /\ \A n \in Asks : ~On(n, k)'
    BY <1>4 DEF Reconciling
  <2> QED
    BY <1>1, <1>2, <1>4 DEF Reconciling, On
<1> QED
  BY <1>1, <1>2, <1>3, <1>4, <1>6, <1>7, <1>8, <1>9 DEF Tracking, Types, TypeOK

-----------------------------------------------------------------------------
(* What the counted sets do in a step *)

LEMMA ArmedStays ==
    ASSUME Types, Armed, rearmed \subseteq rearmed',
           \A k \in Jobs : row'[k].status = "active" => row[k].status = "active" \/ k \in rearmed'
    PROVE  Armed'
<1>1. (Active \ rearmed)' \subseteq Active \ rearmed
  BY DEF Active
<1>2. IsFiniteSet(Active \ rearmed)
  BY Finites, FS_Difference
<1>3. /\ IsFiniteSet((Active \ rearmed)') /\ Cardinality(Active \ rearmed) \in Nat
      /\ Cardinality(Active \ rearmed)' \in Nat
      /\ Cardinality(Active \ rearmed)' <= Cardinality(Active \ rearmed)
  BY <1>1, <1>2, FS_Subset, FS_CardinalityType
<1> QED
  BY <1>3, LimitsAssumption DEF Armed

(* Arming one job under the cap. *)
LEMMA ArmedByOne ==
    ASSUME Types, NEW j \in Jobs, CapAllows(j), rearmed' = rearmed,
           \A k \in Jobs : k # j => row'[k] = row[k]
    PROVE  Armed'
<1> DEFINE A == Active \ {j}
           B == (Active \ rearmed)'
<1>1. IsFiniteSet(A) /\ Cardinality(A) \in Nat /\ Cardinality(A) < Cap
  BY Finites, FS_Difference, FS_CardinalityType DEF CapAllows
<1>2. B \subseteq A \cup {j}
  BY DEF Active
<1>3. IsFiniteSet(A \cup {j}) /\ Cardinality(A \cup {j}) = Cardinality(A) + 1
  <2>1. j \notin A
    OBVIOUS
  <2> HIDE DEF A
  <2> QED
    BY <1>1, <2>1, FS_AddElement
<1>4. IsFiniteSet(B) /\ Cardinality(B) \in Nat /\ Cardinality(B) <= Cardinality(A \cup {j})
  <2> HIDE DEF A, B
  <2> QED
    BY <1>2, <1>3, FS_Subset, FS_CardinalityType
<1>5. Cardinality(B) <= Cap
  <2> HIDE DEF A, B
  <2> QED
    BY <1>1, <1>3, <1>4, LimitsAssumption
<1> QED
  BY <1>5 DEF Armed

(* A step that admits nothing takes no slot. *)
LEMMA SlotsStay ==
    ASSUME Types, SlotsHold, others' \in Nat, others' <= others,
           crawling' \subseteq crawling, Pending' \subseteq Pending, Starting' \subseteq Starting
    PROVE  SlotsHold'
<1>1. /\ Cardinality(Pending') \in Nat /\ Cardinality(Pending') <= Cardinality(Pending)
      /\ Cardinality(Starting') \in Nat /\ Cardinality(Starting') <= Cardinality(Starting)
      /\ Cardinality(crawling') \in Nat /\ Cardinality(crawling') <= Cardinality(crawling)
  BY Finites, FS_Subset, FS_CardinalityType
<1>2. Slots \in Nat /\ Slots' \in Nat /\ Slots' <= Slots
  BY <1>1, Finites DEF Slots, Types, TypeOK
<1> QED
  BY <1>2, LimitsAssumption DEF SlotsHold

(* Nor does one that inserts nothing the month counts add to it. *)
LEMMA MonthStays ==
    ASSUME Types, MonthHolds, units' \in Nat, units' <= units,
           Ran' \subseteq Ran, Begun' \subseteq Begun
    PROVE  MonthHolds'
<1>1. /\ Cardinality(Ran') \in Nat /\ Cardinality(Ran') <= Cardinality(Ran)
      /\ Cardinality(Begun') \in Nat /\ Cardinality(Begun') <= Cardinality(Begun)
  BY Finites, FS_Subset, FS_CardinalityType
<1>2. Admitted = units + Cardinality(Ran) + Cardinality(Begun)
  BY DEF Admitted, Ran, Begun
<1>3. Admitted' = units' + Cardinality(Ran') + Cardinality(Begun')
  BY DEF Admitted, Ran, Begun
<1>4. Admitted \in Nat /\ Admitted' \in Nat /\ Admitted' <= Admitted
  BY <1>1, <1>2, <1>3, Finites DEF Types, TypeOK
<1> QED
  BY <1>4, LimitsAssumption DEF MonthHolds

LEMMA MetersStay ==
    ASSUME Types, SlotsHold, MonthHolds, UNCHANGED <<run, meterVars>>
    PROVE  SlotsHold' /\ MonthHolds'
<1>1. Pending' = Pending /\ Starting' = Starting /\ Ran' = Ran /\ Begun' = Begun
      /\ others' = others /\ crawling' = crawling /\ units' = units
  BY DEF Pending, Starting, Ran, Begun, meterVars, otherVars
<1> QED
  BY <1>1, SlotsStay, MonthStays DEF Types, TypeOK

LEMMA AtMostOneMore ==
    ASSUME NEW S, IsFiniteSet(S), NEW x, NEW T, T \subseteq S \cup {x}
    PROVE  Cardinality(T) \in Nat /\ Cardinality(T) <= Cardinality(S) + 1
<1>1. Cardinality(S) \in Nat
  BY FS_CardinalityType
<1>2. IsFiniteSet(S \cup {x}) /\ Cardinality(S \cup {x}) <= Cardinality(S) + 1
  <2>1. /\ IsFiniteSet(S \cup {x})
        /\ Cardinality(S \cup {x}) = IF x \in S THEN Cardinality(S) ELSE Cardinality(S) + 1
    BY Zenon, FS_AddElement
  <2> QED
    BY <1>1, <2>1
<1>3. /\ Cardinality(T) \in Nat /\ Cardinality(T) <= Cardinality(S \cup {x})
      /\ Cardinality(S \cup {x}) \in Nat
  BY <1>2, FS_Subset, FS_CardinalityType
<1> QED
  BY <1>1, <1>2, <1>3

(* One admission: the checks and what they let in. *)
LEMMA RoomFor ==
    ASSUME Types, ~ConcurrentFull
    PROVE  Slots \in Nat /\ Slots + 1 <= Concurrent
<1>1. Slots \in Nat /\ blocks \in Nat
  BY Finites DEF Slots, Types, TypeOK
<1> QED
  BY <1>1, LimitsAssumption DEF ConcurrentFull

LEMMA MonthRoomFor ==
    ASSUME Types, NEW n \in Nat, MonthAllows(n)
    PROVE  Admitted \in Nat /\ Admitted + n <= Monthly
           /\ Admitted = units + Cardinality(Ran) + Cardinality(Begun)
<1>1. Admitted = units + Cardinality(Ran) + Cardinality(Begun)
  BY DEF Admitted, Ran, Begun
<1>2. Admitted \in Nat /\ pages \in Nat
  BY <1>1, Finites DEF Types, TypeOK
<1> QED
  BY <1>1, <1>2, LimitsAssumption DEF MonthAllows

-----------------------------------------------------------------------------
(* Requests *)

(* What the requests that begin have in common. *)
LEMMA BeginsKeeps ==
    ASSUME ScheduleInv, NEW q \in Requests, q.at \in {"commit", "create", "forget"}, Begin(q),
           SoundRequest(q), row' \in [Jobs -> Rows],
           \A k \in Jobs : k # q.job => row'[k] = row[k],
           row'[q.job] = IF q.at = "create" THEN q.want ELSE q.read,
           q.at # "create" => q.read = row[q.job],
           first' \in [Jobs -> {"none", "pending", "ended"}],
           UNCHANGED <<clock, loose, listed, rearmed, tickVars, otherVars, perils>>,
           SlotsHold', MonthHolds', Armed'
    PROVE  ScheduleInv'
<1>1. /\ clock' = clock /\ loose' = loose /\ rearmed' = rearmed /\ listed' = listed
      /\ tick' = tick /\ run' = run /\ stranded' = stranded /\ perils' = perils
      /\ UNCHANGED otherVars
  BY DEF tickVars
<1>2. /\ request' \in [Asks -> Requests] /\ mover' \in Movers /\ drift' \subseteq Jobs
      /\ made' \in Nat /\ \A n \in Asks : request'[n].at # "none" => n <= made'
      /\ made + 1 \in Asks /\ request[made + 1].at = "none"
      /\ request' = [request EXCEPT ![made + 1] = q]
      /\ Tracking' /\ Reconciling'
  BY <1>1, Begins DEF ScheduleInv
<1>3. Types'
  BY <1>1, <1>2 DEF ScheduleInv, Types, TypeOK, Rows, otherVars
<1>4. Sound'
  BY <1>2 DEF ScheduleInv, Sound, Types
<1> QED
  BY <1>2, <1>3, <1>4 DEF ScheduleInv

LEMMA BeginPatchKeeps ==
    ASSUME ScheduleInv, NEW j \in Jobs, BeginPatch(j)
    PROVE  ScheduleInv'
<1> PICK want \in Wanted(row[j]) \ {row[j]} :
        Begin([at |-> "commit", job |-> j, read |-> row[j], want |-> want])
  BY DEF BeginPatch
<1> DEFINE q == [at |-> "commit", job |-> j, read |-> row[j], want |-> want]
<1> PICK r : r = q
  OBVIOUS
<1>1. row[j] \in Rows /\ want \in Rows /\ want.status # "gone"
      /\ (row[j].status = "active" /\ want.status = "active" => want.lane = "v2")
  BY WantedTyped DEF ScheduleInv, Types, TypeOK, Rows, BeginPatch, Exists
<1>2. /\ r \in Requests /\ r.at = "commit" /\ r.job = j /\ r.read = row[j] /\ r.want = want
      /\ SoundRequest(r)
  BY <1>1 DEF Requests, Stages, SoundRequest
<1>3. /\ row' = row /\ clock' = clock /\ loose' = loose /\ rearmed' = rearmed
      /\ listed' = listed /\ perils' = perils /\ UNCHANGED <<tickVars, meterVars>>
  BY DEF BeginPatch
<1> QED
  BY <1>2, <1>3, BeginsKeeps, ArmedStays, MetersStay DEF ScheduleInv, Types, TypeOK, Rows, tickVars, meterVars

LEMMA BeginDeleteKeeps ==
    ASSUME ScheduleInv, NEW j \in Jobs, BeginDelete(j)
    PROVE  ScheduleInv'
<1> PICK r : r = [at |-> "forget", job |-> j, read |-> row[j], want |-> row[j]]
  OBVIOUS
<1>1. row[j] \in Rows
  BY DEF ScheduleInv, Types, TypeOK, Rows
<1>2. /\ r \in Requests /\ r.at = "forget" /\ r.job = j /\ r.read = row[j]
      /\ SoundRequest(r)
  BY <1>1 DEF Requests, Stages, SoundRequest
<1>3. /\ row' = row /\ clock' = clock /\ loose' = loose /\ rearmed' = rearmed
      /\ listed' = listed /\ perils' = perils /\ UNCHANGED <<tickVars, meterVars>> /\ Begin(r)
  BY DEF BeginDelete
<1> QED
  BY <1>2, <1>3, BeginsKeeps, ArmedStays, MetersStay DEF ScheduleInv, Types, TypeOK, Rows, tickVars, meterVars

LEMMA CreateJobKeeps ==
    ASSUME ScheduleInv, NEW j \in Jobs, CreateJob(j)
    PROVE  ScheduleInv'
<1> DEFINE new == [status |-> "active", cron |-> 1, lane |-> "v2"]
           q == [at |-> "create", job |-> j, read |-> Unscheduled, want |-> new]
<1> PICK r : r = q
  OBVIOUS
<1>1. new \in Rows
  BY DEF Rows
<1>2. /\ r \in Requests /\ r.at = "create" /\ r.job = j /\ r.want = new /\ SoundRequest(r)
  BY <1>1, Constants DEF Requests, Stages, SoundRequest
<1>3. /\ clock' = clock /\ loose' = loose /\ rearmed' = rearmed
      /\ listed' = listed /\ perils' = perils /\ row' = [row EXCEPT ![j] = new]
      /\ first' = [first EXCEPT ![j] = "pending"]
      /\ Begin(r) /\ MonthAllows(1) /\ ~ConcurrentFull /\ CapAllows(j)
      /\ UNCHANGED <<tickVars, otherVars>>
  BY DEF CreateJob, MonthlyFull
<1>4. row' \in [Jobs -> Rows] /\ row'[j] = new /\ \A k \in Jobs : k # j => row'[k] = row[k]
  BY <1>1, <1>3 DEF ScheduleInv, Types, TypeOK, Rows
<1>5. /\ first' \in [Jobs -> {"none", "pending", "ended"}]
      /\ Starting' \subseteq Starting \cup {j} /\ Begun' \subseteq Begun \cup {j}
      /\ Pending' = Pending /\ Ran' = Ran
      /\ others' = others /\ crawling' = crawling /\ units' = units
  BY <1>3 DEF ScheduleInv, Types, TypeOK, Starting, Begun, Pending, Ran, tickVars, otherVars
<1>6. /\ Cardinality(Starting') \in Nat /\ Cardinality(Starting') <= Cardinality(Starting) + 1
      /\ Cardinality(Begun') \in Nat /\ Cardinality(Begun') <= Cardinality(Begun) + 1
  BY <1>5, Finites, AtMostOneMore DEF ScheduleInv
<1>7. SlotsHold'
  BY <1>3, <1>5, <1>6, Finites, RoomFor, LimitsAssumption
  DEF ScheduleInv, SlotsHold, Slots, Types, TypeOK
<1>8. MonthHolds'
  <2>1. Admitted' = units' + Cardinality(Ran') + Cardinality(Begun')
    BY DEF Admitted, Ran, Begun
  <2>2. /\ Admitted + 1 <= Monthly
        /\ Admitted = units + Cardinality(Ran) + Cardinality(Begun)
    BY <1>3, MonthRoomFor DEF ScheduleInv
  <2> QED
    BY <2>1, <2>2, <1>5, <1>6, Finites, LimitsAssumption
    DEF ScheduleInv, MonthHolds, Types, TypeOK
<1>9. Armed'
  BY <1>3, <1>4, ArmedByOne DEF ScheduleInv
<1> QED
  BY <1>2, <1>3, <1>4, <1>5, <1>7, <1>8, <1>9, BeginsKeeps DEF ScheduleInv, Types, TypeOK, tickVars

(* What the steps of a request already made have in common. *)
LEMMA RequestKeeps ==
    ASSUME ScheduleInv, NEW n \in Asks, NEW j \in Jobs, request[n].at # "none", request[n].job = j,
           NEW r \in Requests, request' = [request EXCEPT ![n] = r], r.at # "none" => r.job = j,
           SoundRequest(r),
           row' \in [Jobs -> Rows], clock' \in [Jobs -> [cron : 0..2, paused : BOOLEAN]],
           \A k \in Jobs : k # j => row'[k] = row[k] /\ clock'[k] = clock[k],
           drift \subseteq drift', drift' \subseteq Jobs,
           j \notin drift' /\ r.at = "none" => Follows(row'[j], clock'[j]),
           j \notin drift' /\ r.at # "none" => Alone(n)',
           perils' \in Nat, loose' \subseteq Ticks,
           run' \in [Ticks -> Runs], first' \in [Jobs -> {"none", "pending", "ended"}],
           UNCHANGED <<made, moverVars, tick, stranded, otherVars>>,
           SlotsHold', MonthHolds', Armed'
    PROVE  ScheduleInv'
<1>1. /\ made' = made /\ mover' = mover /\ listed' = listed /\ rearmed' = rearmed
      /\ tick' = tick /\ stranded' = stranded /\ UNCHANGED otherVars
  BY DEF moverVars
<1>2. request' \in [Asks -> Requests] /\ request'[n] = r
      /\ \A m \in Asks : m # n => request'[m] = request[m]
  BY DEF ScheduleInv, Types
<1>3. Types'
  BY <1>1, <1>2 DEF ScheduleInv, Types, TypeOK, Rows, Runs, otherVars
<1>4. Sound'
  BY <1>2 DEF ScheduleInv, Sound, SoundRequest
<1>5. Tracking' /\ Reconciling'
  BY <1>1, Progresses DEF ScheduleInv
<1> QED
  BY <1>3, <1>4, <1>5 DEF ScheduleInv

(* Most of them leave the runs alone. *)
LEMMA RequestMoves ==
    ASSUME ScheduleInv, NEW n \in Asks, NEW j \in Jobs, request[n].at # "none", request[n].job = j,
           NEW r \in Requests, request' = [request EXCEPT ![n] = r], r.at # "none" => r.job = j,
           SoundRequest(r),
           row' \in [Jobs -> Rows], clock' \in [Jobs -> [cron : 0..2, paused : BOOLEAN]],
           \A k \in Jobs : k # j => row'[k] = row[k] /\ clock'[k] = clock[k],
           drift \subseteq drift', drift' \subseteq Jobs,
           j \notin drift' /\ r.at = "none" => Follows(row'[j], clock'[j]),
           j \notin drift' /\ r.at # "none" => Alone(n)',
           perils' \in Nat, loose' \subseteq Ticks,
           UNCHANGED <<made, moverVars, tickVars, meterVars>>, Armed'
    PROVE  ScheduleInv'
<1>1. /\ run' = run /\ first' = first
      /\ UNCHANGED <<made, moverVars, tick, stranded, otherVars>>
  BY DEF tickVars, meterVars
<1>2. SlotsHold' /\ MonthHolds'
  BY <1>1, MetersStay DEF ScheduleInv
<1>3. run' \in [Ticks -> Runs] /\ first' \in [Jobs -> {"none", "pending", "ended"}]
  BY <1>1 DEF ScheduleInv, Types, TypeOK, Runs
<1> QED
  BY ZenonT(60), <1>1, <1>2, <1>3, RequestKeeps

LEMMA EndSound == Idle \in Requests /\ Idle.at = "none" /\ SoundRequest(Idle)
  BY Constants DEF Idle, SoundRequest

LEMMA CommitPatchKeeps ==
    ASSUME ScheduleInv, NEW n \in Asks, CommitPatch(n)
    PROVE  ScheduleInv'
<1> PICK q : q = request[n]
  OBVIOUS
<1> PICK j : j = q.job
  OBVIOUS
<1>1. /\ q.at = "commit" /\ j \in Jobs /\ q.read \in Rows /\ q.want \in Rows
      /\ q \in [at : Stages, job : Jobs, read : Rows, want : Rows]
      /\ SoundRequest(q)
  BY Handled DEF ScheduleInv, CommitPatch, Sound
<1>2. /\ UNCHANGED <<made, moverVars, tickVars, meterVars>>
      /\ clock' = clock /\ loose' = loose /\ drift' = drift
      /\ perils' = perils /\ rearmed' = rearmed
  BY DEF CommitPatch, moverVars
<1>3. row \in [Jobs -> Rows] /\ row[j] \in Rows
  BY <1>1 DEF ScheduleInv, Types, TypeOK, Rows
<1>4. j \notin drift => row[j] = q.read /\ Follows(q.read, clock[j])
  BY <1>1 DEF ScheduleInv, Tracking, Tracked, On, Alone
<1>5. /\ perils' \in Nat /\ loose' \subseteq Ticks
      /\ drift \subseteq drift' /\ drift' \subseteq Jobs
      /\ clock' \in [Jobs -> [cron : 0..2, paused : BOOLEAN]]
      /\ \A k \in Jobs : clock'[k] = clock[k]
  BY <1>2 DEF ScheduleInv, Types, TypeOK
<1>6. CASE ~Exists(j) \/ (Arms(q) /\ ~CapAllows(j))
  <2>1. request' = [request EXCEPT ![n] = Idle] /\ row' = row
    BY <1>6 DEF CommitPatch
  <2>2. Armed'
    BY <1>2, <2>1, ArmedStays DEF ScheduleInv
  <2> QED
    BY <1>1, <1>2, <1>3, <1>4, <1>5, <2>1, <2>2, EndSound, RequestMoves
<1>7. CASE ~(~Exists(j) \/ (Arms(q) /\ ~CapAllows(j)))
  <2> DEFINE now == Write(row[j], q.read, q.want)
  <2>1. PatchRow(n)
    BY <1>7 DEF CommitPatch
  <2>2. now \in Rows /\ (j \notin drift => now = q.want)
    BY <1>1, <1>3, <1>4, WriteTyped, WriteAlone
  <2>3. /\ row' \in [Jobs -> Rows] /\ row'[j] = now
        /\ \A k \in Jobs : k # j => row'[k] = row[k]
    BY <1>1, <1>3, <2>1, <2>2 DEF PatchRow
  <2>4. PICK r : r = IF "v2" \in {q.read.lane, q.want.lane} THEN [q EXCEPT !.at = "sync"] ELSE Idle
    OBVIOUS
  <2>5. request' = [request EXCEPT ![n] = r]
    BY <2>1, <2>4 DEF PatchRow
  <2>6. Armed'
    <3>1. CASE Arms(q)
      BY <1>1, <1>2, <1>7, <2>3, <3>1, ArmedByOne DEF ScheduleInv
    <3>2. CASE ~Arms(q)
      <4>1. now.status = "active" => row[j].status = "active"
        BY <1>1, <1>3, <3>2, WriteArms DEF Arms
      <4> QED
        BY <1>2, <2>3, <4>1, ArmedStays DEF ScheduleInv
    <3> QED
      BY <3>1, <3>2
  <2>7. CASE "v2" \in {q.read.lane, q.want.lane}
    <3>1. r \in Requests /\ r.at = "sync" /\ r.job = j /\ r.read = q.read /\ r.want = q.want
      BY <1>1, <2>4, <2>7 DEF Requests, Stages
    <3>2. SoundRequest(r)
      BY <1>1, <3>1 DEF SoundRequest
    <3>3. request'[n] = r
      BY <2>5 DEF ScheduleInv, Types
    <3>4. j \notin drift' => Alone(n)'
      BY <1>2, <1>4, <2>2, <2>3, <3>1, <3>3 DEF Alone
    <3>5. r.at # "none" /\ request[n].at # "none" /\ request[n].job = j
      BY <1>1, <3>1
    <3> HIDE DEF now
    <3>6. \A k \in Jobs : k # j => row'[k] = row[k] /\ clock'[k] = clock[k]
      BY <1>5, <2>3
    <3>7. j \in Jobs /\ row' \in [Jobs -> Rows]
      BY <1>1, <2>3
    <3> QED
      BY ZenonT(60), <1>2, <1>5, <2>5, <2>6, <3>1, <3>2, <3>4, <3>5, <3>6, <3>7, RequestMoves
  <2>8. CASE "v2" \notin {q.read.lane, q.want.lane}
    <3>1. r = Idle
      BY <2>4, <2>8
    <3>2. j \notin drift' => Follows(row'[j], clock'[j])
      BY <1>2, <2>2, <2>3, <2>8 DEF Follows
    <3> QED
      BY ZenonT(60), <1>1, <1>2, <1>5, <2>3, <2>5, <2>6, <3>1, <3>2, EndSound, RequestMoves
  <2> QED
    BY <2>7, <2>8
<1> QED
  BY <1>6, <1>7

LEMMA PutTyped ==
    ASSUME Types, NEW j \in Jobs, NEW c \in [cron : 0..2, paused : BOOLEAN], Put(j, c)
    PROVE  /\ clock' \in [Jobs -> [cron : 0..2, paused : BOOLEAN]] /\ loose' \subseteq Ticks
           /\ clock'[j] = c /\ \A k \in Jobs : k # j => clock'[k] = clock[k]
<1>1. loose' \subseteq Ticks
  BY DEF Types, TypeOK, Put
<1>2. clock' = [clock EXCEPT ![j] = c] /\ clock \in [Jobs -> [cron : 0..2, paused : BOOLEAN]]
  BY DEF Types, TypeOK, Put
<1> HIDE DEF Put
<1> QED
  BY <1>1, <1>2

LEMMA SyncKeeps ==
    ASSUME ScheduleInv, NEW n \in Asks, Sync(n)
    PROVE  ScheduleInv'
<1> PICK q : q = request[n]
  OBVIOUS
<1> PICK j : j = q.job
  OBVIOUS
<1>1. /\ q.at \in {"sync", "create"} /\ j \in Jobs /\ q.want \in Rows
      /\ request[n].at # "none" /\ request[n].job = j
  BY Handled DEF ScheduleInv, Sync
<1>2. /\ UNCHANGED <<made, moverVars, tickVars, meterVars>>
      /\ row' = row /\ drift' = drift /\ perils' = perils /\ rearmed' = rearmed
      /\ Put(j, ClockOf(q.want)) /\ request' = [request EXCEPT ![n] = Idle]
  BY DEF Sync, moverVars
<1>3. /\ row' \in [Jobs -> Rows] /\ perils' \in Nat
      /\ drift \subseteq drift' /\ drift' \subseteq Jobs
  BY <1>2 DEF ScheduleInv, Types, TypeOK, Rows
<1>4. /\ clock' \in [Jobs -> [cron : 0..2, paused : BOOLEAN]] /\ loose' \subseteq Ticks
      /\ clock'[j] = ClockOf(q.want)
      /\ \A k \in Jobs : k # j => row'[k] = row[k] /\ clock'[k] = clock[k]
  BY <1>1, <1>2, PutTyped, ClockTyped DEF ScheduleInv
<1>5. j \notin drift' => Follows(row'[j], clock'[j])
  <2>1. j \notin drift => row[j] = q.want
    BY <1>1 DEF ScheduleInv, Tracking, Tracked, On, Alone
  <2> QED
    BY <1>1, <1>2, <1>4, <2>1, ClockTyped
<1>6. Armed'
  BY <1>2, ArmedStays DEF ScheduleInv
<1> QED
  BY ZenonT(60), <1>1, <1>2, <1>3, <1>4, <1>5, <1>6, EndSound, RequestMoves

(* What a failed call leaves: the request undoes its write, or ends. *)
LEMMA SyncFailsKeeps ==
    ASSUME ScheduleInv, NEW n \in Asks, SyncFails(n)
    PROVE  ScheduleInv'
<1> PICK q : q = request[n]
  OBVIOUS
<1> PICK j : j = q.job
  OBVIOUS
<1>1. /\ q.at \in {"sync", "create"} /\ j \in Jobs /\ q.read \in Rows /\ q.want \in Rows
      /\ request[n].at # "none" /\ request[n].job = j /\ SoundRequest(q)
      /\ q \in [at : Stages, job : Jobs, read : Rows, want : Rows]
  BY Handled DEF ScheduleInv, SyncFails, Sound
<1> PICK r : r = IF q.at = "create" THEN [q EXCEPT !.at = "pause"]
                 ELSE IF Undoes(q) THEN [q EXCEPT !.at = "restore"] ELSE Idle
  OBVIOUS
<1>2. /\ UNCHANGED <<made, moverVars, tickVars, meterVars>>
      /\ row' = row /\ rearmed' = rearmed /\ request' = [request EXCEPT ![n] = r]
  BY DEF SyncFails, moverVars
<1>3. \/ /\ clock' = clock /\ loose' = loose
         /\ drift' = IF q.at = "sync" /\ HandsOver(q) THEN drift \cup {j} ELSE drift
      \/ Put(j, ClockOf(q.want)) /\ drift' = drift \cup {j}
  BY DEF SyncFails
<1>4. /\ row' \in [Jobs -> Rows] /\ perils' \in Nat
      /\ drift \subseteq drift' /\ drift' \subseteq Jobs
  BY <1>1, <1>2, <1>3 DEF ScheduleInv, Types, TypeOK, Rows, SyncFails, Peril
<1>5. /\ clock' \in [Jobs -> [cron : 0..2, paused : BOOLEAN]] /\ loose' \subseteq Ticks
      /\ \A k \in Jobs : k # j => row'[k] = row[k] /\ clock'[k] = clock[k]
  <2>1. CASE Put(j, ClockOf(q.want))
    BY <1>1, <1>2, <2>1, PutTyped, ClockTyped DEF ScheduleInv
  <2>2. CASE clock' = clock /\ loose' = loose
    BY <1>2, <2>2 DEF ScheduleInv, Types, TypeOK
  <2> QED
    BY <1>3, <2>1, <2>2
<1>6. /\ r \in Requests /\ (r.at # "none" => r.job = j /\ r.read = q.read /\ r.want = q.want)
      /\ r.at = IF q.at = "create" THEN "pause" ELSE IF Undoes(q) THEN "restore" ELSE "none"
  BY <1>1, Constants DEF Requests, Stages, Idle
<1>7. request'[n] = r
  BY <1>2 DEF ScheduleInv, Types
<1>8. SoundRequest(r)
  BY <1>1, <1>6 DEF Undoes, SoundRequest
<1>9. ASSUME j \notin drift'
      PROVE  /\ clock'[j] = clock[j] /\ ~(q.at = "sync" /\ HandsOver(q))
             /\ row[j] = q.want /\ (q.at = "sync" => Follows(q.read, clock[j]))
  <2>1. j \notin drift /\ clock' = clock /\ ~(q.at = "sync" /\ HandsOver(q))
    BY <1>3, <1>4, <1>9
  <2> QED
    BY <1>1, <2>1 DEF ScheduleInv, Tracking, Tracked, On, Alone
<1>10. j \notin drift' /\ r.at = "none" => Follows(row'[j], clock'[j])
  <2> SUFFICES ASSUME j \notin drift', r.at = "none", q.want.lane = "v2"
               PROVE  /\ q.want.status # "gone"
                      /\ q.want.status = "active" =>
                            clock[j] = [cron |-> q.want.cron, paused |-> FALSE]
    BY <1>2, <1>9 DEF Follows
  <2>1. q.at = "sync" /\ ~Undoes(q)
    BY <1>1, <1>6
  <2>2. q.want.status # "gone"
    BY <1>1, <2>1 DEF SoundRequest
  <2> SUFFICES ASSUME q.want.status = "active"
               PROVE  clock[j] = [cron |-> q.want.cron, paused |-> FALSE]
    BY <2>2
  <2>3. q.read.status = "active" /\ q.want.cron = q.read.cron
    BY <2>1 DEF Undoes, Arms
  <2>4. q.read.lane = "v2"
    <3>1. q.want = [q.read EXCEPT !.lane = "v2"]
      BY <1>1, <2>3 DEF Rows
    <3> QED
      BY <1>9, <2>1, <2>3, <3>1 DEF HandsOver
  <2> QED
    BY <1>9, <2>1, <2>3, <2>4 DEF Follows
<1>11. j \notin drift' /\ r.at # "none" => Alone(n)'
  BY <1>1, <1>2, <1>6, <1>7, <1>9 DEF Alone
<1>12. Armed'
  BY <1>2, ArmedStays DEF ScheduleInv
<1>13. r \in Requests /\ (r.at # "none" => r.job = j)
  BY <1>6
<1> QED
  BY ZenonT(60), <1>1, <1>2, <1>4, <1>5, <1>8, <1>10, <1>11, <1>12, <1>13, RequestMoves

LEMMA RestoreKeeps ==
    ASSUME ScheduleInv, NEW n \in Asks, Restore(n)
    PROVE  ScheduleInv'
<1> PICK q : q = request[n]
  OBVIOUS
<1> PICK j : j = q.job
  OBVIOUS
<1>1. /\ q.at = "restore" /\ j \in Jobs /\ q.read \in Rows /\ q.want \in Rows
      /\ request[n].at # "none" /\ request[n].job = j /\ q.want.status = "active"
  BY Handled DEF ScheduleInv, Restore, Sound, SoundRequest
<1> PICK now : now = IF Exists(j) THEN Write(row[j], q.want, q.read) ELSE row[j]
  OBVIOUS
<1>2. /\ UNCHANGED <<made, moverVars, tickVars, meterVars>>
      /\ clock' = clock /\ drift' = drift /\ perils' = perils
      /\ rearmed' = rearmed /\ loose' = loose
      /\ row' = IF Exists(j) THEN [row EXCEPT ![j] = Write(@, q.want, q.read)] ELSE row
      /\ request' = [request EXCEPT ![n] = Idle]
  BY DEF Restore, moverVars
<1>3. row \in [Jobs -> Rows] /\ row[j] \in Rows /\ now \in Rows
  BY <1>1, WriteTyped DEF ScheduleInv, Types, TypeOK, Rows
<1>4. row' \in [Jobs -> Rows] /\ row'[j] = now /\ \A k \in Jobs : k # j => row'[k] = row[k]
  BY <1>1, <1>2, <1>3
<1>5. /\ perils' \in Nat /\ loose' \subseteq Ticks
      /\ drift \subseteq drift' /\ drift' \subseteq Jobs
      /\ clock' \in [Jobs -> [cron : 0..2, paused : BOOLEAN]]
      /\ \A k \in Jobs : k # j => row'[k] = row[k] /\ clock'[k] = clock[k]
  BY <1>2, <1>4 DEF ScheduleInv, Types, TypeOK
<1>6. j \notin drift' => Follows(row'[j], clock'[j])
  <2>1. j \notin drift => row[j] = q.want /\ Follows(q.read, clock[j])
    BY <1>1 DEF ScheduleInv, Tracking, Tracked, On, Alone
  <2> QED
    BY <1>1, <1>2, <1>4, <2>1, WriteAlone DEF Exists
<1>7. Armed'
  <2>1. now.status = "active" => row[j].status = "active"
    BY <1>1, <1>3, WriteArms
  <2> QED
    BY <1>2, <1>4, <2>1, ArmedStays DEF ScheduleInv
<1> QED
  BY ZenonT(60), <1>1, <1>2, <1>4, <1>5, <1>6, <1>7, EndSound, RequestMoves

LEMMA PauseNewKeeps ==
    ASSUME ScheduleInv, NEW n \in Asks, PauseNew(n)
    PROVE  ScheduleInv'
<1> PICK q : q = request[n]
  OBVIOUS
<1> PICK j : j = q.job
  OBVIOUS
<1>1. /\ q.at = "pause" /\ j \in Jobs /\ q.want.status = "active"
      /\ request[n].at # "none" /\ request[n].job = j
  BY Handled DEF ScheduleInv, PauseNew, Sound, SoundRequest
<1>2. /\ UNCHANGED <<made, moverVars, tick, stranded, otherVars>>
      /\ clock' = clock /\ drift' = drift /\ perils' = perils
      /\ rearmed' = rearmed /\ loose' = loose /\ tick' = tick /\ stranded' = stranded /\ run' = run
      /\ request' = [request EXCEPT ![n] = Idle]
  BY DEF PauseNew, moverVars, tickVars
<1>3. /\ row' = IF Exists(j) THEN [row EXCEPT ![j].status = "paused"] ELSE row
      /\ first' = [first EXCEPT ![j] = Ended(first[j])]
  BY DEF PauseNew
<1>4. row \in [Jobs -> Rows] /\ [row[j] EXCEPT !.status = "paused"] \in Rows
  BY SMTT(30), <1>1 DEF ScheduleInv, Types, TypeOK, Rows
<1>5. /\ row' \in [Jobs -> Rows] /\ (Exists(j) => row'[j].status = "paused")
      /\ row'[j].status = "active" => row[j].status = "active"
      /\ \A k \in Jobs : k # j => row'[k] = row[k] /\ clock'[k] = clock[k]
  BY <1>1, <1>2, <1>3, <1>4 DEF Rows
<1>6. /\ first' \in [Jobs -> {"none", "pending", "ended"}]
      /\ Starting' \subseteq Starting /\ Begun' \subseteq Begun
  BY <1>1, <1>3 DEF ScheduleInv, Types, TypeOK, Starting, Begun, Ended
<1>7. SlotsHold'
  BY <1>2, <1>6, SlotsStay DEF ScheduleInv, otherVars, Pending, Types, TypeOK
<1>8. MonthHolds'
  BY <1>2, <1>6, MonthStays DEF ScheduleInv, otherVars, Ran, Types, TypeOK
<1>9. /\ perils' \in Nat /\ loose' \subseteq Ticks /\ drift \subseteq drift' /\ drift' \subseteq Jobs
      /\ clock' \in [Jobs -> [cron : 0..2, paused : BOOLEAN]] /\ run' \in [Ticks -> Runs]
  BY <1>2 DEF ScheduleInv, Types, TypeOK, Runs
<1>10. j \notin drift' => Follows(row'[j], clock'[j])
  <2>1. j \notin drift => Exists(j)
    BY <1>1 DEF ScheduleInv, Tracking, Tracked, On, Alone, Exists
  <2> QED
    BY <1>2, <1>5, <2>1 DEF Follows
<1>11. Armed'
  BY <1>2, <1>5, ArmedStays DEF ScheduleInv
<1> QED
  BY ZenonT(60), <1>1, <1>2, <1>5, <1>6, <1>7, <1>8, <1>9, <1>10, <1>11, EndSound, RequestKeeps

LEMMA KeepsJobKeeps ==
    ASSUME ScheduleInv, NEW n \in Asks, KeepsJob(n)
    PROVE  ScheduleInv'
<1> PICK j : j = request[n].job
  OBVIOUS
<1>1. j \in Jobs /\ request[n].at = "forget"
      /\ request[n].at # "none" /\ request[n].job = j
  BY Handled DEF ScheduleInv, KeepsJob
<1>2. /\ UNCHANGED <<made, moverVars, tickVars, meterVars>>
      /\ clock' = clock /\ drift' = drift /\ perils' = perils
      /\ rearmed' = rearmed /\ loose' = loose /\ row' = row
      /\ request' = [request EXCEPT ![n] = Idle]
  BY DEF KeepsJob, moverVars
<1>3. /\ row' \in [Jobs -> Rows] /\ clock' \in [Jobs -> [cron : 0..2, paused : BOOLEAN]]
      /\ \A k \in Jobs : k # j => row'[k] = row[k] /\ clock'[k] = clock[k]
      /\ perils' \in Nat /\ loose' \subseteq Ticks
      /\ drift \subseteq drift' /\ drift' \subseteq Jobs
  BY <1>2 DEF ScheduleInv, Types, TypeOK, Rows
<1>4. j \notin drift' => Follows(row'[j], clock'[j])
  BY <1>1, <1>2 DEF ScheduleInv, Tracking, Tracked, On, Alone
<1>5. Armed'
  BY <1>2, ArmedStays DEF ScheduleInv
<1> QED
  BY ZenonT(60), <1>1, <1>2, <1>3, <1>4, <1>5, EndSound, RequestMoves

LEMMA ForgetKeeps ==
    ASSUME ScheduleInv, NEW n \in Asks, Forget(n)
    PROVE  ScheduleInv'
<1> PICK q : q = request[n]
  OBVIOUS
<1> PICK j : j = q.job
  OBVIOUS
<1> PICK r : r = [q EXCEPT !.at = "drop"]
  OBVIOUS
<1>1. /\ q.at = "forget" /\ j \in Jobs /\ request[n].at # "none" /\ request[n].job = j
      /\ q \in [at : Stages, job : Jobs, read : Rows, want : Rows]
  BY Handled DEF ScheduleInv, Forget
<1>2. /\ r \in Requests /\ r.at = "drop" /\ r.at # "none" /\ r.job = j /\ r.read = q.read
      /\ SoundRequest(r)
  BY <1>1 DEF Requests, Stages, SoundRequest
<1>3. /\ UNCHANGED <<made, moverVars, tickVars, meterVars>>
      /\ row' = row /\ rearmed' = rearmed /\ request' = [request EXCEPT ![n] = r]
  BY DEF Forget, moverVars
<1>4. \/ q.read.lane # "v2" /\ clock' = clock /\ loose' = loose /\ drift' = drift
      \/ q.read.lane = "v2" /\ Put(j, NoClock) /\ drift' = drift
      \/ clock' = clock /\ loose' = loose /\ drift' = drift \cup {j}
  BY DEF Forget
<1>5. perils' \in Nat
  BY DEF Forget, Peril, ScheduleInv, Types, TypeOK
<1>6. NoClock \in [cron : 0..2, paused : BOOLEAN]
  BY DEF NoClock
<1>7. /\ clock' \in [Jobs -> [cron : 0..2, paused : BOOLEAN]] /\ loose' \subseteq Ticks
      /\ \A k \in Jobs : k # j => row'[k] = row[k] /\ clock'[k] = clock[k]
      /\ j \notin drift' /\ q.read.lane = "v2" => clock'[j] = NoClock
  <2>1. CASE Put(j, NoClock) /\ q.read.lane = "v2"
    BY <1>1, <1>3, <1>6, <2>1, PutTyped DEF ScheduleInv
  <2>2. CASE clock' = clock /\ loose' = loose /\ (q.read.lane # "v2" \/ drift' = drift \cup {j})
    BY <1>1, <1>3, <2>2 DEF ScheduleInv, Types, TypeOK
  <2> QED
    BY <1>4, <2>1, <2>2
<1>8. /\ row' \in [Jobs -> Rows] /\ drift \subseteq drift' /\ drift' \subseteq Jobs
  BY <1>1, <1>3, <1>4 DEF ScheduleInv, Types, TypeOK, Rows
<1>9. j \notin drift' => Alone(n)'
  <2>1. j \notin drift => row[j] = q.read
    BY <1>1 DEF ScheduleInv, Tracking, Tracked, On, Alone
  <2>2. request'[n] = r
    BY <1>3 DEF ScheduleInv, Types
  <2> QED
    BY <1>2, <1>3, <1>7, <1>8, <2>1, <2>2 DEF Alone
<1>10. Armed'
  BY <1>3, ArmedStays DEF ScheduleInv
<1> QED
  BY ZenonT(60), <1>1, <1>2, <1>3, <1>5, <1>7, <1>8, <1>9, <1>10, RequestMoves

(* The row goes, and every run of the job with it. *)
LEMMA DropKeeps ==
    ASSUME ScheduleInv, NEW n \in Asks, Drop(n)
    PROVE  ScheduleInv'
<1> PICK q : q = request[n]
  OBVIOUS
<1> PICK j : j = q.job
  OBVIOUS
<1>1. /\ q.at = "drop" /\ j \in Jobs /\ request[n].at # "none" /\ request[n].job = j
  BY Handled DEF ScheduleInv, Drop
<1>2. /\ UNCHANGED <<made, moverVars, tick, stranded, otherVars>>
      /\ clock' = clock /\ drift' = drift /\ perils' = perils /\ rearmed' = rearmed
      /\ loose' = loose /\ request' = [request EXCEPT ![n] = Idle]
      /\ row' = [row EXCEPT ![j].status = "gone", ![j].cron = 0]
      /\ first' = [first EXCEPT ![j] = "none"]
      /\ run' = [t \in Ticks |-> IF tick[t].at # "none" /\ tick[t].job = j THEN "none" ELSE run[t]]
  BY DEF Drop, moverVars
<1>3. row \in [Jobs -> Rows] /\ row[j] \in Rows
  BY <1>1 DEF ScheduleInv, Types, TypeOK, Rows
<1> PICK new : new = [row[j] EXCEPT !.status = "gone", !.cron = 0]
  OBVIOUS
<1>4. new \in Rows /\ new.status = "gone" /\ new.lane = row[j].lane
  <2>1. new = [status |-> "gone", cron |-> 0, lane |-> row[j].lane]
    BY <1>3 DEF Rows
  <2>2. row[j].lane \in {"none", "v1", "v2"}
    BY <1>3 DEF Rows
  <2>3. [status |-> "gone", cron |-> 0, lane |-> row[j].lane] \in Rows
    BY <2>2 DEF Rows
  <2> QED
    BY <2>1, <2>3
<1>5. row' = [row EXCEPT ![j] = new]
  BY <1>1, <1>2, <1>3
<1>6. /\ row' \in [Jobs -> Rows] /\ row'[j] = new
      /\ \A k \in Jobs : k # j => row'[k] = row[k] /\ clock'[k] = clock[k]
  BY <1>1, <1>2, <1>3, <1>4, <1>5
<1>7. /\ first' \in [Jobs -> {"none", "pending", "ended"}] /\ run' \in [Ticks -> Runs]
      /\ Starting' \subseteq Starting /\ Begun' \subseteq Begun
      /\ Pending' \subseteq Pending /\ Ran' \subseteq Ran
  BY <1>1, <1>2 DEF ScheduleInv, Types, TypeOK, Starting, Begun, Pending, Ran, Runs
<1>8. SlotsHold'
  BY <1>2, <1>7, SlotsStay DEF ScheduleInv, otherVars, Types, TypeOK
<1>9. MonthHolds'
  BY <1>2, <1>7, MonthStays DEF ScheduleInv, otherVars, Types, TypeOK
<1>10. /\ perils' \in Nat /\ loose' \subseteq Ticks /\ drift \subseteq drift' /\ drift' \subseteq Jobs
       /\ clock' \in [Jobs -> [cron : 0..2, paused : BOOLEAN]]
  BY <1>2 DEF ScheduleInv, Types, TypeOK
<1>11. j \notin drift' => Follows(row'[j], clock'[j])
  <2>1. j \notin drift /\ row[j].lane = "v2" => clock[j] = NoClock
    BY <1>1 DEF ScheduleInv, Tracking, Tracked, On, Alone
  <2> QED
    BY <1>2, <1>4, <1>6, <2>1 DEF Follows
<1>12. Armed'
  BY <1>2, <1>4, <1>6, ArmedStays DEF ScheduleInv
<1> QED
  BY ZenonT(60), <1>1, <1>2, <1>6, <1>7, <1>8, <1>9, <1>10, <1>11, <1>12, EndSound, RequestKeeps

LEMMA ApiDiesKeeps ==
    ASSUME ScheduleInv, NEW n \in Asks, ApiDies(n)
    PROVE  ScheduleInv'
<1> PICK j : j = request[n].job
  OBVIOUS
<1>1. j \in Jobs /\ request[n].at # "none" /\ request[n].job = j
  BY Handled DEF ScheduleInv, ApiDies
<1>2. /\ UNCHANGED <<made, moverVars, tickVars, meterVars>>
      /\ clock' = clock /\ drift' = drift \cup {j}
      /\ rearmed' = rearmed /\ loose' = loose /\ row' = row
      /\ request' = [request EXCEPT ![n] = Idle]
  BY DEF ApiDies, moverVars
<1>3. /\ row' \in [Jobs -> Rows] /\ clock' \in [Jobs -> [cron : 0..2, paused : BOOLEAN]]
      /\ \A k \in Jobs : k # j => row'[k] = row[k] /\ clock'[k] = clock[k]
      /\ perils' \in Nat /\ loose' \subseteq Ticks
      /\ drift \subseteq drift' /\ drift' \subseteq Jobs /\ j \in drift'
  BY <1>1, <1>2 DEF ScheduleInv, Types, TypeOK, Rows, ApiDies, Peril
<1>4. Armed'
  BY <1>2, ArmedStays DEF ScheduleInv
<1> QED
  BY ZenonT(60), <1>1, <1>2, <1>3, <1>4, EndSound, RequestMoves

-----------------------------------------------------------------------------
(* The migration *)

(* What the script's steps leave alone. *)
LEMMA MoverKeeps ==
    ASSUME ScheduleInv, row' \in [Jobs -> Rows], mover' \in Movers,
           clock' \in [Jobs -> [cron : 0..2, paused : BOOLEAN]],
           loose' \subseteq Ticks, drift' \subseteq Jobs, rearmed' \subseteq Jobs, listed' \subseteq Jobs,
           made' \in Nat, made <= made', perils' \in Nat,
           UNCHANGED <<request, tickVars, meterVars>>,
           Armed', Tracking', Reconciling'
    PROVE  ScheduleInv'
<1>1. /\ request' = request /\ tick' = tick /\ run' = run /\ stranded' = stranded
      /\ first' = first /\ UNCHANGED otherVars
  BY DEF tickVars, meterVars
<1>2. Types'
  <2>1. \A n \in Asks : request'[n].at # "none" => n <= made'
    BY <1>1 DEF ScheduleInv, Types, TypeOK, Asks
  <2> QED
    BY <1>1, <2>1 DEF ScheduleInv, Types, TypeOK, Rows, otherVars
<1>3. SlotsHold' /\ MonthHolds' /\ Sound'
  BY <1>1, MetersStay DEF ScheduleInv, Sound, SoundRequest, meterVars
<1> QED
  BY <1>2, <1>3 DEF ScheduleInv

LEMMA MigratePausesKeeps ==
    ASSUME ScheduleInv, NEW j \in Jobs, MigratePauses(j)
    PROVE  ScheduleInv'
<1>1. /\ mover = Idle /\ made' = made + 1 /\ listed' = listed \ {j} /\ Exists(j)
      /\ mover' = [at |-> "put", job |-> j, read |-> row[j]]
      /\ row' = [row EXCEPT ![j].status = "paused"]
      /\ drift' = IF InFlight(j) # {} THEN drift \cup {j} ELSE drift
      /\ clock' = clock /\ request' = request /\ loose' = loose /\ rearmed' = rearmed
      /\ perils' = perils /\ UNCHANGED <<request, tickVars, meterVars>>
  BY DEF MigratePauses
<1>2. /\ row' \in [Jobs -> Rows] /\ row[j] \in Rows
      /\ row'[j] = [row[j] EXCEPT !.status = "paused"]
      /\ \A k \in Jobs : k # j => row'[k] = row[k]
  BY <1>1 DEF ScheduleInv, Types, TypeOK, Rows
<1>3. /\ mover' \in Movers /\ mover'.at = "put" /\ mover'.job = j /\ mover'.read = row[j]
      /\ mover.at = "none"
  BY <1>1, <1>2 DEF Movers, Idle
<1>4. Armed'
  <2>1. row'[j].status # "active"
    BY <1>2 DEF Rows
  <2> QED
    BY <1>1, <1>2, <2>1, ArmedStays DEF ScheduleInv
<1>5. drift \subseteq drift' /\ drift' \subseteq Jobs
  BY <1>1 DEF ScheduleInv, Types, TypeOK
<1>6. Tracking'
  <2> SUFFICES ASSUME NEW k \in Jobs, k \notin drift'  PROVE Tracked(k)'
    BY DEF Tracking
  <2>1. Tracked(k)
    BY <1>5 DEF ScheduleInv, Tracking
  <2>2. CASE k # j
    BY <1>1, <1>2, <1>3, <2>1, <2>2, Untouched DEF Moving
  <2>3. CASE k = j
    <3>1. \A n \in Asks : ~On(n, k) /\ ~On(n, k)'
      BY <1>1, <2>3 DEF InFlight, On, Asks
    <3>2. Moving(k)' /\ Held(k)'
      BY <1>1, <1>2, <1>3, <2>3 DEF Moving, Held, Exists
    <3> QED
      BY <3>1, <3>2 DEF Tracked
  <2> QED
    BY <2>2, <2>3
<1>7. Reconciling'
  BY <1>3 DEF Reconciling
<1>8. /\ made' \in Nat /\ made <= made' /\ perils' \in Nat /\ loose' \subseteq Ticks
      /\ rearmed' \subseteq Jobs /\ listed' \subseteq Jobs
      /\ clock' \in [Jobs -> [cron : 0..2, paused : BOOLEAN]]
  BY <1>1 DEF ScheduleInv, Types, TypeOK
<1> QED
  BY <1>1, <1>2, <1>3, <1>4, <1>5, <1>6, <1>7, <1>8, MoverKeeps

LEMMA MigratePutsKeeps ==
    ASSUME ScheduleInv, MigratePuts
    PROVE  ScheduleInv'
<1> PICK j : j = mover.job
  OBVIOUS
<1> PICK old : old = mover.read
  OBVIOUS
<1> DEFINE c == [cron |-> old.cron, paused |-> old.status # "active"]
<1>1. mover.at = "put" /\ j \in Jobs /\ old \in Rows /\ Moving(j)
  BY DEF MigratePuts, ScheduleInv, Types, Movers, Idle, Moving
<1>2. c \in [cron : 0..2, paused : BOOLEAN]
  BY <1>1 DEF Rows
<1>3. /\ row' = row /\ drift' = drift /\ rearmed' = rearmed /\ listed' = listed
      /\ made' = made /\ request' = request /\ UNCHANGED <<request, tickVars, meterVars>>
  BY DEF MigratePuts
<1>4. \/ Put(j, c) /\ mover' = [mover EXCEPT !.at = "commit"]
      \/ clock' = clock /\ loose' = loose /\ mover' = Idle
  BY DEF MigratePuts
<1>5. perils' \in Nat
  BY DEF MigratePuts, Peril, ScheduleInv, Types, TypeOK
<1>6. /\ row' \in [Jobs -> Rows] /\ made' \in Nat /\ made <= made' /\ drift' \subseteq Jobs
      /\ rearmed' \subseteq Jobs /\ listed' \subseteq Jobs
  BY <1>3 DEF ScheduleInv, Types, TypeOK, Rows
<1>7. Armed'
  BY <1>3, ArmedStays DEF ScheduleInv
<1>8. CASE Put(j, c) /\ mover' = [mover EXCEPT !.at = "commit"]
  <2>1. /\ clock' \in [Jobs -> [cron : 0..2, paused : BOOLEAN]] /\ loose' \subseteq Ticks
        /\ clock'[j] = c /\ \A k \in Jobs : k # j => clock'[k] = clock[k]
    BY <1>1, <1>2, <1>8, PutTyped DEF ScheduleInv
  <2>2. mover' \in Movers /\ mover'.at = "commit" /\ mover'.job = j /\ mover'.read = old
    BY <1>1, <1>8 DEF ScheduleInv, Types, Movers, Idle
  <2> HIDE DEF c
  <2>3. ASSUME NEW k \in Jobs, k \notin drift'  PROVE Tracked(k)'
    <3>1. Tracked(k)
      BY <1>3, <2>3 DEF ScheduleInv, Tracking
    <3>2. CASE k # j
      BY <1>1, <1>3, <2>1, <2>2, <3>1, <3>2, Untouched DEF Moving
    <3>3. CASE k = j
      <4>1. \A n \in Asks : ~On(n, k) /\ ~On(n, k)'
        BY <1>1, <1>3, <3>1, <3>3 DEF Tracked, On
      <4>2. Moving(k)' /\ Held(k)'
        BY <1>1, <1>3, <2>1, <2>2, <3>1, <3>3 DEF Moving, Held, Tracked, c
      <4> QED
        BY <4>1, <4>2 DEF Tracked
    <3> QED
      BY <3>2, <3>3
  <2>4. Tracking' /\ Reconciling'
    BY <2>2, <2>3 DEF Tracking, Reconciling
  <2> QED
    BY <1>3, <1>5, <1>6, <1>7, <2>1, <2>2, <2>4, MoverKeeps
<1>9. CASE clock' = clock /\ loose' = loose /\ mover' = Idle
  <2>1. mover' \in Movers /\ mover'.at = "none"
    BY <1>9 DEF Movers, Idle
  <2>2. ASSUME NEW k \in Jobs, k \notin drift'  PROVE Tracked(k)'
    <3>1. Tracked(k)
      BY <1>3, <2>2 DEF ScheduleInv, Tracking
    <3>2. CASE k # j
      BY <1>1, <1>3, <1>9, <2>1, <3>1, <3>2, Untouched DEF Moving
    <3>3. CASE k = j
      <4>1. \A n \in Asks : ~On(n, k) /\ ~On(n, k)'
        BY <1>1, <1>3, <3>1, <3>3 DEF Tracked, On
      <4>2. row[k].status = "paused"
        BY <1>1, <3>1, <3>3 DEF Tracked, Held, Rows
      <4>3. ~Moving(k)' /\ Follows(row'[k], clock'[k])
        BY <1>3, <2>1, <4>2 DEF Moving, Follows
      <4> QED
        BY <4>1, <4>3 DEF Tracked
    <3> QED
      BY <3>2, <3>3
  <2>3. Tracking' /\ Reconciling'
    BY <2>1, <2>2 DEF Tracking, Reconciling
  <2>4. loose' \subseteq Ticks /\ clock' \in [Jobs -> [cron : 0..2, paused : BOOLEAN]]
    BY <1>9 DEF ScheduleInv, Types, TypeOK
  <2> QED
    BY <1>3, <1>5, <1>6, <1>7, <2>1, <2>3, <2>4, MoverKeeps
<1> QED
  BY <1>4, <1>8, <1>9

LEMMA MigrateCommitsKeeps ==
    ASSUME ScheduleInv, MigrateCommits
    PROVE  ScheduleInv'
<1> PICK j : j = mover.job
  OBVIOUS
<1> PICK old : old = mover.read
  OBVIOUS
<1> PICK held : held = [old EXCEPT !.status = "paused"]
  OBVIOUS
<1> PICK new : new = [old EXCEPT !.lane = "v2"]
  OBVIOUS
<1>1. mover.at = "commit" /\ j \in Jobs /\ old \in Rows /\ Moving(j)
  BY DEF MigrateCommits, ScheduleInv, Types, Movers, Idle, Moving
<1>2. held \in Rows /\ new \in Rows
  BY <1>1 DEF Rows
<1>3. /\ row' = IF Exists(j) THEN [row EXCEPT ![j] = Write(row[j], held, new)] ELSE row
      /\ rearmed' = IF row'[j].status = "active" THEN rearmed \cup {j} ELSE rearmed
      /\ mover' = Idle /\ clock' = clock /\ drift' = drift /\ listed' = listed /\ loose' = loose
      /\ made' = made /\ request' = request /\ perils' = perils
      /\ UNCHANGED <<request, tickVars, meterVars>>
  BY DEF MigrateCommits
<1>4. row \in [Jobs -> Rows] /\ Write(row[j], held, new) \in Rows
  <2>1. row \in [Jobs -> Rows]
    BY DEF ScheduleInv, Types, TypeOK, Rows
  <2>2. row[j] \in Rows
    BY <1>1, <2>1
  <2> QED
    BY <1>2, <2>1, <2>2, WriteTyped
<1>5. /\ row' \in [Jobs -> Rows] /\ (Exists(j) => row'[j] = Write(row[j], held, new))
      /\ \A k \in Jobs : k # j => row'[k] = row[k]
  BY <1>1, <1>3, <1>4
<1>6. /\ made' \in Nat /\ made <= made' /\ drift' \subseteq Jobs /\ perils' \in Nat
      /\ rearmed' \subseteq Jobs /\ listed' \subseteq Jobs /\ loose' \subseteq Ticks
      /\ clock' \in [Jobs -> [cron : 0..2, paused : BOOLEAN]]
  BY <1>1, <1>3 DEF ScheduleInv, Types, TypeOK
<1>7. mover' \in Movers /\ mover'.at = "none"
  BY <1>3 DEF Movers, Idle
<1>8. Armed'
  <2>1. \A k \in Jobs : row'[k].status = "active" => row[k].status = "active" \/ k \in rearmed'
    BY <1>3, <1>5
  <2> QED
    BY <1>3, <2>1, ArmedStays DEF ScheduleInv
<1>9. ASSUME NEW k \in Jobs, k \notin drift'  PROVE Tracked(k)'
  <2>1. Tracked(k)
    BY <1>3, <1>9 DEF ScheduleInv, Tracking
  <2>2. CASE k # j
    BY <1>1, <1>3, <1>5, <1>7, <2>1, <2>2, Untouched DEF Moving
  <2>3. CASE k = j
    <3>1. \A n \in Asks : ~On(n, k) /\ ~On(n, k)'
      BY <1>1, <1>3, <2>1, <2>3 DEF Tracked, On
    <3>2. /\ row[k] = held /\ old.status # "gone"
          /\ clock[k] = [cron |-> old.cron, paused |-> old.status # "active"]
      BY <1>1, <2>1, <2>3 DEF Tracked, Held
    <3>3. row'[k] = new
      <4>1. held.status = "paused"
        BY <1>1 DEF Rows
      <4> QED
        BY <1>2, <1>5, <2>3, <3>2, <4>1, WriteAlone DEF Exists
    <3>4. Follows(new, clock[k])
      <4> SUFFICES ASSUME new.status = "active"
                   PROVE  clock[k] = [cron |-> new.cron, paused |-> FALSE]
        BY <1>1, <3>2 DEF Follows, Rows
      <4>1. new.cron = old.cron /\ (old.status # "active") = FALSE
        BY <1>1 DEF Rows
      <4> QED
        BY <3>2, <4>1
    <3>5. ~Moving(k)' /\ Follows(row'[k], clock'[k])
      BY <1>3, <1>7, <3>3, <3>4 DEF Moving
    <3> QED
      BY <3>1, <3>5 DEF Tracked
  <2> QED
    BY <2>2, <2>3
<1>10. Tracking' /\ Reconciling'
  BY <1>7, <1>9 DEF Tracking, Reconciling
<1> QED
  BY <1>3, <1>5, <1>6, <1>7, <1>8, <1>10, MoverKeeps

LEMMA ReconcileReadsKeeps ==
    ASSUME ScheduleInv, ReconcileReads
    PROVE  ScheduleInv'
<1> PICK quiet : quiet = {j \in Jobs : InFlight(j) = {}}
  OBVIOUS
<1>1. /\ mover = Idle /\ mover' = [at |-> "reconcile", read |-> row, quiet |-> quiet]
      /\ row' = row /\ clock' = clock /\ request' = request /\ made' = made /\ loose' = loose
      /\ drift' = drift /\ listed' = listed /\ rearmed' = rearmed /\ perils' = perils
      /\ UNCHANGED <<request, tickVars, meterVars>>
  BY DEF ReconcileReads, apiVars
<1>2. /\ row' \in [Jobs -> Rows] /\ row \in [Jobs -> Rows]
      /\ made' \in Nat /\ made <= made' /\ drift' \subseteq Jobs /\ perils' \in Nat
      /\ rearmed' \subseteq Jobs /\ listed' \subseteq Jobs /\ loose' \subseteq Ticks
      /\ clock' \in [Jobs -> [cron : 0..2, paused : BOOLEAN]]
  BY <1>1 DEF ScheduleInv, Types, TypeOK, Rows
<1>3. /\ mover' \in Movers /\ mover'.at = "reconcile" /\ mover.at = "none"
      /\ mover'.quiet = quiet /\ mover'.read = row
  BY <1>1, <1>2 DEF Movers, Idle
<1>4. Armed'
  BY <1>1, ArmedStays DEF ScheduleInv
<1>5. Tracking'
  <2> SUFFICES ASSUME NEW k \in Jobs, k \notin drift'  PROVE Tracked(k)'
    BY DEF Tracking
  <2>1. Tracked(k)
    BY <1>1 DEF ScheduleInv, Tracking
  <2> QED
    BY <1>1, <1>3, <2>1, Untouched DEF Moving
<1>6. Reconciling'
  BY <1>1, <1>3 DEF Reconciling, InFlight, On, Asks
<1> QED
  BY <1>1, <1>2, <1>3, <1>4, <1>5, <1>6, MoverKeeps

LEMMA ReconcileKeeps ==
    ASSUME ScheduleInv, Reconcile
    PROVE  ScheduleInv'
<1> PICK read : read = mover.read
  OBVIOUS
<1> PICK quiet : quiet = mover.quiet
  OBVIOUS
<1>1. mover.at = "reconcile" /\ read \in [Jobs -> Rows] /\ quiet \subseteq Jobs
  BY DEF Reconcile, ScheduleInv, Types, Movers, Idle
<1>2. /\ clock' = [j \in Jobs |-> ClockOf(read[j])] /\ drift' = Jobs \ quiet
      /\ loose' \subseteq loose \cup Ticks /\ mover' = Idle
      /\ row' = row /\ request' = request /\ made' = made
      /\ listed' = listed /\ rearmed' = rearmed /\ perils' = perils
      /\ UNCHANGED <<request, tickVars, meterVars>>
  BY DEF Reconcile
<1>3. \A k \in Jobs : /\ ClockOf(read[k]) \in [cron : 0..2, paused : BOOLEAN]
                      /\ Follows(read[k], ClockOf(read[k]))
  BY <1>1, ClockTyped
<1>4. /\ row' \in [Jobs -> Rows] /\ made' \in Nat /\ made <= made' /\ drift' \subseteq Jobs
      /\ perils' \in Nat /\ rearmed' \subseteq Jobs /\ listed' \subseteq Jobs
      /\ loose' \subseteq Ticks
  BY <1>1, <1>2 DEF ScheduleInv, Types, TypeOK, Rows
<1>5. clock' \in [Jobs -> [cron : 0..2, paused : BOOLEAN]]
  BY <1>2, <1>3
<1>6. mover' \in Movers /\ mover'.at = "none"
  BY <1>2 DEF Movers, Idle
<1>7. Armed'
  BY <1>2, ArmedStays DEF ScheduleInv
<1>8. Tracking'
  <2> SUFFICES ASSUME NEW k \in quiet  PROVE Tracked(k)'
    BY <1>1, <1>2 DEF Tracking
  <2>1. k \in Jobs /\ row[k] = read[k] /\ \A n \in Asks : ~On(n, k)
    BY <1>1 DEF ScheduleInv, Reconciling
  <2>2. Follows(row'[k], clock'[k])
    BY <1>2, <1>3, <2>1
  <2>3. ~Moving(k)' /\ \A n \in Asks : ~On(n, k)'
    BY <1>2, <1>6, <2>1 DEF Moving, On
  <2> QED
    BY <2>2, <2>3 DEF Tracked
<1>9. Reconciling'
  BY <1>6 DEF Reconciling
<1> QED
  BY <1>2, <1>4, <1>5, <1>6, <1>7, <1>8, <1>9, MoverKeeps

-----------------------------------------------------------------------------
(* Ticks and the user's other submissions *)

(* What their steps leave alone. *)
LEMMA TickKeeps ==
    ASSUME ScheduleInv, UNCHANGED <<row, clock, request, loose, drift, moverVars>>,
           made' \in Nat, made <= made', tick' \in [Ticks -> Workflows],
           run' \in [Ticks -> Runs], stranded' \subseteq Ticks, perils' \in Nat,
           first' \in [Jobs -> {"none", "pending", "ended"}],
           crawling' \subseteq Crawls, left' \in [Crawls -> Nat], blocks' <= pipes',
           others' \in Nat, pages' \in Nat, pipes' \in Nat, blocks' \in Nat, units' \in Nat,
           SlotsHold', MonthHolds'
    PROVE  ScheduleInv'
<1>1. /\ row' = row /\ clock' = clock /\ request' = request /\ loose' = loose /\ drift' = drift
      /\ mover' = mover /\ listed' = listed /\ rearmed' = rearmed
  BY DEF moverVars
<1>2. Types'
  <2>1. \A n \in Asks : request'[n].at # "none" => n <= made'
    BY <1>1 DEF ScheduleInv, Types, TypeOK, Asks
  <2> QED
    BY <1>1, <2>1 DEF ScheduleInv, Types, TypeOK, Runs
<1>3. Armed' /\ Sound'
  BY <1>1 DEF ScheduleInv, Armed, Active, Sound, SoundRequest
<1>4. Tracking'
  <2> SUFFICES ASSUME NEW k \in Jobs, k \notin drift  PROVE Tracked(k)'
    BY <1>1 DEF Tracking
  <2> QED
    BY <1>1, Untouched DEF ScheduleInv, Tracking
<1>5. Reconciling'
  BY <1>1 DEF ScheduleInv, Reconciling, On
<1> QED
  BY <1>2, <1>3, <1>4, <1>5 DEF ScheduleInv

(* What the ticks leave alone of the other submissions. *)
LEMMA OwnKeeps ==
    ASSUME ScheduleInv, UNCHANGED <<row, clock, request, loose, drift, moverVars, meterVars>>,
           made' \in Nat, made <= made', tick' \in [Ticks -> Workflows],
           run' \in [Ticks -> Runs], stranded' \subseteq Ticks, perils' \in Nat,
           SlotsHold', MonthHolds'
    PROVE  ScheduleInv'
<1>1. /\ first' = first /\ others' = others /\ crawling' = crawling /\ left' = left
      /\ pages' = pages /\ pipes' = pipes /\ blocks' = blocks /\ units' = units
  BY DEF meterVars, otherVars
<1> QED
  BY <1>1, TickKeeps DEF ScheduleInv, Types, TypeOK

(* A tick's workflow: its record, and where a step leaves it. *)
LEMMA Ticking ==
    ASSUME Types, NEW t \in Ticks, tick[t].at \notin {"none", "over"}
    PROVE  tick[t] \in [at : {"locked", "retry", "sleep", "child"},
                        job : Jobs, asks : Nat, read : Rows]
  BY DEF Types, Workflows, Idle

LEMMA GoesTyped ==
    ASSUME Types, NEW t \in Ticks, tick[t].at \notin {"none", "over"},
           NEW at \in {"over", "retry", "sleep", "child"}, Goes(t, at)
    PROVE  tick' \in [Ticks -> Workflows]
<1>1. tick[t] \in [at : {"locked", "retry", "sleep", "child"},
                   job : Jobs, asks : Nat, read : Rows]
  BY Ticking
<1>2. CASE at = "over"
  <2> PICK w : w = [at |-> "over", job |-> tick[t].job]
    OBVIOUS
  <2>1. w \in Workflows
    BY <1>1 DEF Workflows
  <2>2. tick' = [tick EXCEPT ![t] = w]
    BY <1>2 DEF Goes
  <2> QED
    BY <2>1, <2>2 DEF Types
<1>3. CASE at # "over"
  <2> PICK w : w = [tick[t] EXCEPT !.at = at, !.read = NoJob]
    OBVIOUS
  <2>1. w \in Workflows
    BY <1>1, <1>3, Constants DEF Workflows
  <2>2. tick' = [tick EXCEPT ![t] = w]
    BY <1>3 DEF Goes
  <2> QED
    BY <2>1, <2>2 DEF Types
<1> QED
  BY <1>2, <1>3

LEMMA AnsweredTyped ==
    ASSUME Types, NEW t \in Ticks, tick[t].at \notin {"none", "over"},
           NEW at \in {"over", "sleep", "child"}, Answered(t, at)
    PROVE  tick' \in [Ticks -> Workflows] /\ perils' \in Nat
<1>1. (Goes(t, at) \/ Goes(t, "retry")) /\ perils' \in Nat
  BY DEF Answered, Peril, Types, TypeOK
<1> QED
  BY <1>1, GoesTyped

(* A run inserted where the month allows one. *)
LEMMA RanOneMore ==
    ASSUME Types, NEW t \in Ticks, MonthAllows(1), Ran' = Ran \cup {t}, UNCHANGED meterVars
    PROVE  MonthHolds'
<1>1. Cardinality(Ran') \in Nat /\ Cardinality(Ran') <= Cardinality(Ran) + 1
  BY Finites, AtMostOneMore
<1>2. units' = units /\ Begun' = Begun
  BY DEF meterVars, otherVars, Begun
<1>3. Admitted' = units' + Cardinality(Ran') + Cardinality(Begun')
  BY DEF Admitted, Ran, Begun
<1>4. /\ Admitted + 1 <= Monthly
      /\ Admitted = units + Cardinality(Ran) + Cardinality(Begun)
  BY MonthRoomFor
<1> QED
  BY <1>1, <1>2, <1>3, <1>4, Finites, LimitsAssumption DEF MonthHolds, Types, TypeOK

LEMMA TickStepsKeep ==
    ASSUME ScheduleInv, NEW t \in Ticks,
           Fire(t) \/ TickSteps(t) \/ GivesUp(t) \/ CancelRun(t)
    PROVE  ScheduleInv'
<1>1. /\ Types /\ made \in Nat /\ perils \in Nat
      /\ tick \in [Ticks -> Workflows] /\ stranded \subseteq Ticks
      /\ run \in [Ticks -> Runs] /\ SlotsHold /\ MonthHolds
  BY DEF ScheduleInv, Types, TypeOK, Runs
<1>2. /\ UNCHANGED <<row, clock, request, loose, drift, moverVars, meterVars>>
      /\ (made' = made \/ made' = made + 1)
  BY DEF Fire, TickSteps, AdmitReads, AdmitFound, AdmitRefused, AdmitVanished, AdmitWaits, AdmitFails,
         AdmitRuns, Admit, Wakes, ChildEnds, GivesUp, CancelRun, apiVars
<1>3. made' \in Nat /\ made <= made'
  BY <1>1, <1>2
<1>4. ASSUME tick' \in [Ticks -> Workflows], run' = run, stranded' \subseteq Ticks, perils' \in Nat
      PROVE  ScheduleInv'
  BY <1>1, <1>2, <1>3, <1>4, MetersStay, OwnKeeps
(* A row that ends takes no slot and adds nothing to the month. *)
<1>15. ASSUME Pending' \subseteq Pending, Ran' \subseteq Ran
       PROVE  SlotsHold' /\ MonthHolds'
  BY <1>1, <1>2, <1>15, SlotsStay, MonthStays DEF Starting, Begun, meterVars, otherVars, Types, TypeOK
<1>5. CASE Fire(t)
  <2> PICK j \in Jobs : tick' = [tick EXCEPT ![t] = [at |-> "locked", job |-> j, asks |-> 0,
                                                     read |-> row[j]]]
    BY <1>5 DEF Fire
  <2>1. [at |-> "locked", job |-> j, asks |-> 0, read |-> row[j]] \in Workflows
    BY DEF ScheduleInv, Types, TypeOK, Rows, Workflows
  <2> QED
    BY <1>1, <1>4, <1>5, <2>1 DEF Fire
<1>6. CASE AdmitReads(t)
  <2> PICK w : w = [tick[t] EXCEPT !.at = "locked", !.read = row[tick[t].job]]
    OBVIOUS
  <2>1. w \in Workflows
    <3>1. tick[t] \in [at : {"locked", "retry", "sleep", "child"},
                       job : Jobs, asks : Nat, read : Rows]
          /\ row[tick[t].job] \in Rows
      BY <1>1, <1>6, Ticking DEF AdmitReads, Types, TypeOK, Rows
    <3> QED
      BY <3>1 DEF Workflows
  <2>2. tick' = [tick EXCEPT ![t] = w]
    BY <1>1, <1>6 DEF AdmitReads
  <2> QED
    BY <1>1, <1>4, <1>6, <2>1, <2>2 DEF AdmitReads
<1>7. CASE AdmitFound(t)
  <2> PICK at \in {"over", "child"} : Answered(t, at)
    BY <1>7 DEF AdmitFound
  <2> QED
    BY <1>1, <1>4, <1>7, AnsweredTyped DEF AdmitFound
<1>8. CASE AdmitRefused(t)
  BY <1>1, <1>4, <1>8, AnsweredTyped DEF AdmitRefused
<1>9. CASE AdmitWaits(t)
  BY <1>1, <1>4, <1>9, AnsweredTyped DEF AdmitWaits
<1>10. CASE AdmitFails(t)
  <2>1. /\ tick' \in [Ticks -> Workflows] /\ perils' \in Nat
    <3> PICK at \in {"over", "retry"} : Goes(t, at)
      BY <1>10 DEF AdmitFails
    <3> QED
      BY <1>1, <1>10, GoesTyped DEF AdmitFails, Peril
  <2>2. /\ run' = [run EXCEPT ![t] = "failed"] /\ stranded' = stranded
        /\ run[t] = "none" /\ MonthAllows(1)
    BY <1>10 DEF AdmitFails, MonthlyFull
  <2>3. /\ run' \in [Ticks -> Runs] /\ Pending' \subseteq Pending
        /\ Ran' = Ran \cup {t}
    BY <1>1, <2>2 DEF Pending, Ran, Runs
  <2>4. SlotsHold'
    BY <1>1, <1>2, <2>3, SlotsStay DEF Starting, meterVars, otherVars, Types, TypeOK
  <2>5. MonthHolds'
    BY <1>1, <1>2, <2>2, <2>3, RanOneMore
  <2> QED
    BY <1>1, <1>2, <1>3, <2>1, <2>2, <2>3, <2>4, <2>5, OwnKeeps
<1>11. CASE AdmitRuns(t)
  <2>1. /\ run' = [run EXCEPT ![t] = "pending"] /\ stranded' = stranded
        /\ MonthAllows(1) /\ ~ConcurrentFull /\ Answered(t, "child") /\ run[t] = "none"
        /\ tick[t].at = "locked"
    BY <1>11 DEF AdmitRuns, Admit, MonthlyFull
  <2>2. tick' \in [Ticks -> Workflows] /\ perils' \in Nat
    BY <1>1, <2>1, AnsweredTyped
  <2>3. /\ run' \in [Ticks -> Runs] /\ Pending' = Pending \cup {t} /\ Ran' = Ran \cup {t}
    BY <1>1, <2>1 DEF Pending, Ran, Runs
  <2>4. MonthHolds'
    BY <1>1, <1>2, <2>1, <2>3, RanOneMore
  <2>5. SlotsHold'
    <3>1. Cardinality(Pending') \in Nat /\ Cardinality(Pending') <= Cardinality(Pending) + 1
      BY <1>1, <2>3, Finites, AtMostOneMore
    <3>2. others' = others /\ crawling' = crawling /\ Starting' = Starting
      BY <1>2 DEF meterVars, otherVars, Starting
    <3> QED
      BY <1>1, <2>1, <3>1, <3>2, Finites, RoomFor, LimitsAssumption DEF SlotsHold, Slots, Types, TypeOK
  <2> QED
    BY <1>1, <1>2, <1>3, <2>1, <2>2, <2>3, <2>4, <2>5, OwnKeeps
<1>12. CASE Wakes(t)
  <2> PICK w : w = [tick[t] EXCEPT !.at = "locked", !.read = row[tick[t].job],
                                   !.asks = IF @ < MaxAsks THEN @ + 1 ELSE @]
    OBVIOUS
  <2>1. w \in Workflows
    <3>1. tick[t] \in [at : {"locked", "retry", "sleep", "child"},
                       job : Jobs, asks : Nat, read : Rows]
          /\ row[tick[t].job] \in Rows
      BY <1>1, <1>12, Ticking DEF Wakes, Types, TypeOK, Rows
    <3> PICK asks \in Nat : asks = IF tick[t].asks < MaxAsks THEN tick[t].asks + 1
                                   ELSE tick[t].asks
      BY <3>1
    <3>2. w = [tick[t] EXCEPT !.at = "locked", !.read = row[tick[t].job], !.asks = asks]
      BY <3>1
    <3> QED
      BY <3>1, <3>2 DEF Workflows
  <2>2. tick' = [tick EXCEPT ![t] = w]
    BY <1>1, <1>12 DEF Wakes
  <2> QED
    BY <1>1, <1>4, <1>12, <2>1, <2>2 DEF Wakes
<1>13. CASE ChildEnds(t) \/ CancelRun(t)
  <2>1. /\ run' = [run EXCEPT ![t] = Ended(run[t])] /\ stranded' = stranded
        /\ perils' = perils
    BY <1>1, <1>13 DEF ChildEnds, CancelRun, Ended
  <2>2. tick' \in [Ticks -> Workflows]
    BY <1>1, <1>13, GoesTyped DEF ChildEnds, CancelRun
  <2>3. run' \in [Ticks -> Runs] /\ Pending' \subseteq Pending /\ Ran' \subseteq Ran
    BY <1>1, <2>1 DEF Ended, Runs, Pending, Ran
  <2> QED
    BY <1>1, <1>2, <1>3, <1>15, <2>1, <2>2, <2>3, OwnKeeps
<1>16. CASE AdmitVanished(t)
  BY <1>1, <1>4, <1>16, GoesTyped DEF AdmitVanished
<1>14. CASE GivesUp(t)
  <2>1. tick' \in [Ticks -> Workflows] /\ perils' \in Nat
    BY <1>1, <1>14, GoesTyped DEF GivesUp, Peril
  <2> QED
    BY <1>1, <1>4, <1>14, <2>1 DEF GivesUp
<1> QED
  BY <1>5, <1>6, <1>7, <1>8, <1>9, <1>10, <1>11, <1>12, <1>13, <1>14, <1>16 DEF TickSteps

(* The submissions the ticks know nothing of: what an admission lets in. *)
LEMMA AdmitOtherKeeps ==
    ASSUME ScheduleInv, NEW n \in 1..Monthly, AdmitOther(n),
           crawling' \subseteq Crawls, left' \in [Crawls -> Nat],
           others' \in Nat, pipes' \in Nat, units' \in Nat, pipes <= pipes',
           UNCHANGED <<pages, blocks>>, units' <= units + n,
           \/ crawling' = crawling /\ others' <= others + 1
           \/ (\E c \in Crawls : crawling' \subseteq crawling \cup {c}) /\ others' = others
    PROVE  ScheduleInv'
<1>1. /\ Types /\ SlotsHold /\ MonthHolds /\ made \in Nat /\ pipes \in Nat /\ blocks \in Nat
      /\ others \in Nat /\ units \in Nat /\ blocks <= pipes
  BY DEF ScheduleInv, Types, TypeOK
<1>2. /\ UNCHANGED <<row, clock, request, loose, drift, moverVars>> /\ made' = made + 1
      /\ first' = first /\ perils' = perils /\ tick' = tick /\ run' = run /\ stranded' = stranded
      /\ MonthAllows(n) /\ ~ConcurrentFull
  BY DEF AdmitOther, tickVars
<1>3. Pending' = Pending /\ Starting' = Starting /\ Ran' = Ran /\ Begun' = Begun
  BY <1>2 DEF Pending, Starting, Ran, Begun
<1>4. SlotsHold'
  <2>1. CASE crawling' = crawling /\ others' <= others + 1
    BY <1>1, <1>2, <1>3, <2>1, Finites, RoomFor, LimitsAssumption DEF SlotsHold, Slots
  <2>2. ASSUME NEW c \in Crawls, crawling' \subseteq crawling \cup {c}, others' = others
        PROVE  SlotsHold'
    <3>1. Cardinality(crawling') \in Nat /\ Cardinality(crawling') <= Cardinality(crawling) + 1
      BY <1>1, <2>2, Finites, AtMostOneMore
    <3> QED
      BY <1>1, <1>2, <1>3, <2>2, <3>1, Finites, RoomFor, LimitsAssumption DEF SlotsHold, Slots
  <2> QED
    BY <2>1, <2>2
<1>5. MonthHolds'
  <2>1. Admitted' = units' + Cardinality(Ran') + Cardinality(Begun')
    BY DEF Admitted, Ran, Begun
  <2>2. n \in Nat /\ Admitted + n <= Monthly
        /\ Admitted = units + Cardinality(Ran) + Cardinality(Begun)
    BY <1>1, <1>2, MonthRoomFor, LimitsAssumption
  <2> QED
    BY <1>1, <1>3, <2>1, <2>2, Finites, LimitsAssumption DEF MonthHolds
<1> QED
  BY <1>1, <1>2, <1>4, <1>5, TickKeeps DEF ScheduleInv, Types, TypeOK, Runs

(* And what ends, waits or is deleted without asking. *)
LEMMA OthersMoveKeeps ==
    ASSUME ScheduleInv, UNCHANGED <<row, clock, request, loose, drift, moverVars, tickVars, first, perils>>,
           made' \in Nat, made <= made',
           crawling' \subseteq crawling, left' \in [Crawls -> Nat], blocks' <= pipes',
           others' \in Nat, pages' \in Nat, pipes' \in Nat, blocks' \in Nat, units' \in Nat,
           others' <= others, units' <= units
    PROVE  ScheduleInv'
<1>1. /\ tick' = tick /\ run' = run /\ stranded' = stranded
      /\ Pending' = Pending /\ Starting' = Starting /\ Ran' = Ran /\ Begun' = Begun
  BY DEF tickVars, Pending, Starting, Ran, Begun
<1>2. SlotsHold' /\ MonthHolds'
  BY <1>1, SlotsStay, MonthStays DEF ScheduleInv
<1> QED
  BY <1>1, <1>2, TickKeeps DEF ScheduleInv, Types, TypeOK, Runs

LEMMA SubmissionsKeep ==
    ASSUME ScheduleInv, Submissions
    PROVE  ScheduleInv'
<1>1. /\ made \in Nat /\ others \in Nat /\ pages \in Nat /\ pipes \in Nat /\ blocks \in Nat
      /\ units \in Nat /\ blocks <= pipes /\ crawling \subseteq Crawls /\ left \in [Crawls -> Nat]
  BY DEF ScheduleInv, Types, TypeOK
<1>2. ASSUME NEW n \in 1..Monthly, Submit(n)  PROVE ScheduleInv'
  BY <1>1, <1>2, LimitsAssumption, AdmitOtherKeeps DEF Submit
<1>3. ASSUME NEW n \in 1..Monthly, NEW c \in Crawls, SubmitCrawl(c, n)  PROVE ScheduleInv'
  <2>1. left' \in [Crawls -> Nat] /\ crawling' = crawling \cup {c}
    BY <1>1, <1>3, LimitsAssumption DEF SubmitCrawl
  <2>2. /\ AdmitOther(n) /\ others' = others /\ pages' = pages /\ pipes' = pipes
        /\ blocks' = blocks /\ units' = units /\ n \in Nat
    BY <1>3, LimitsAssumption DEF SubmitCrawl
  <2>3. crawling' \subseteq Crawls /\ units' <= units + n /\ pipes <= pipes'
    BY <1>1, <2>1, <2>2
  <2>4. (\E d \in Crawls : crawling' \subseteq crawling \cup {d}) /\ others' = others
    BY <2>1, <2>2
  <2> QED
    BY <1>1, <2>1, <2>2, <2>3, <2>4, AdmitOtherKeeps
<1>4. CASE SubmitPipeline
  <2>1. 1 \in 1..Monthly
    <3>1. MonthAllows(1) /\ Types
      BY <1>4 DEF SubmitPipeline, AdmitOther, ScheduleInv
    <3>2. Admitted \in Nat /\ Admitted + 1 <= Monthly
      BY <3>1, MonthRoomFor
    <3> QED
      BY <3>2, LimitsAssumption
  <2> QED
    BY <1>1, <1>4, <2>1, AdmitOtherKeeps DEF SubmitPipeline
<1>5. CASE SubmissionEnds \/ BlockRuns \/ BlockStops \/ PipelineEnds
  BY <1>1, <1>5, OthersMoveKeeps
  DEF SubmissionEnds, BlockRuns, BlockStops, PipelineEnds, OthersMove, apiVars
<1>6. ASSUME NEW c \in Crawls, ClaimPage(c) \/ CrawlEnds(c)  PROVE ScheduleInv'
  <2>1. /\ crawling' \subseteq crawling /\ left' \in [Crawls -> Nat] /\ pages' \in Nat
        /\ others' = others /\ pipes' = pipes /\ blocks' = blocks /\ units' = units
    BY <1>1, <1>6 DEF ClaimPage, CrawlEnds
  <2> QED
    BY <1>1, <1>6, <2>1, OthersMoveKeeps DEF ClaimPage, CrawlEnds, OthersMove, apiVars
<1>7. CASE RowsDeleted
  BY <1>1, <1>7, OthersMoveKeeps DEF RowsDeleted
<1> QED
  BY <1>2, <1>3, <1>4, <1>5, <1>6, <1>7 DEF Submissions

LEMMA FirstEndsKeeps ==
    ASSUME ScheduleInv, NEW j \in Jobs, FirstEnds(j)
    PROVE  ScheduleInv'
<1>1. /\ UNCHANGED <<row, clock, request, loose, drift, moverVars, otherVars>> /\ made' = made
      /\ tick' = tick /\ run' = run /\ stranded' = stranded /\ perils' = perils
      /\ first[j] = "pending" /\ first' = [first EXCEPT ![j] = "ended"]
  BY DEF FirstEnds, apiVars, tickVars
<1>2. /\ first' \in [Jobs -> {"none", "pending", "ended"}]
      /\ Starting' \subseteq Starting /\ Begun' \subseteq Begun /\ Pending' = Pending /\ Ran' = Ran
  BY <1>1 DEF ScheduleInv, Types, TypeOK, Starting, Begun, Pending, Ran
<1>3. /\ others' = others /\ crawling' = crawling /\ left' = left
      /\ pages' = pages /\ pipes' = pipes /\ blocks' = blocks /\ units' = units
  BY <1>1 DEF otherVars
<1>4. SlotsHold' /\ MonthHolds'
  BY <1>2, <1>3, SlotsStay, MonthStays DEF ScheduleInv, Types, TypeOK
<1> QED
  BY <1>1, <1>2, <1>3, <1>4, TickKeeps DEF ScheduleInv, Types, TypeOK, Runs

-----------------------------------------------------------------------------
(* Theorems *)

LEMMA StartsRight == Init => ScheduleInv
<1> SUFFICES ASSUME Init  PROVE ScheduleInv
  OBVIOUS
<1>1. /\ row \in [Jobs -> Rows] /\ \A j \in Jobs : row[j].lane # "v2"
      /\ clock \in [Jobs -> [cron : 0..2, paused : BOOLEAN]]
  <2>1. [status |-> "active", cron |-> 1, lane |-> "v1"] \in Rows
    BY DEF Rows
  <2>2. NoClock \in [cron : 0..2, paused : BOOLEAN]
    BY DEF NoClock
  <2>3. NoJob.lane # "v2" /\ NoJob.status # "active"
    BY DEF NoJob
  <2> QED
    BY <2>1, <2>2, <2>3, Constants DEF Init
<1>2. /\ request \in [Asks -> Requests] /\ mover \in Movers /\ tick \in [Ticks -> Workflows]
      /\ \A n \in Asks : request[n].at = "none"
      /\ mover.at = "none"
  BY Constants DEF Init, Asks, Movers, Workflows, Idle
<1>3. Types
  <2>1. /\ run \in [Ticks -> Runs] /\ first \in [Jobs -> {"none", "pending", "ended"}]
        /\ {others, pages, pipes, blocks, units, made, perils} \subseteq Nat
        /\ crawling \subseteq Crawls /\ left \in [Crawls -> Nat] /\ blocks <= pipes
    BY DEF Init, Runs
  <2>2. UNION {drift, rearmed, listed} \subseteq Jobs /\ loose \cup stranded \subseteq Ticks
    BY SetsAssumption DEF Init
  <2> QED
    BY <1>1, <1>2, <2>1, <2>2 DEF Types, TypeOK, Rows, Runs
<1>4. /\ Pending = {} /\ Starting = {} /\ Ran = {} /\ Begun = {} /\ crawling = {}
      /\ Active \ rearmed = Old
  BY <1>2, SetsAssumption DEF Init, Pending, Starting, Ran, Begun, Active, NoJob
<1>5. SlotsHold /\ MonthHolds /\ Armed
  <2>1. Cardinality({}) = 0 /\ others = 0 /\ units = 0
    BY FS_EmptySet DEF Init
  <2>2. Slots = 0
    BY <1>4, <2>1 DEF Slots
  <2>3. Admitted = 0
    <3>1. Admitted = units + Cardinality(Ran) + Cardinality(Begun)
      BY DEF Admitted, Ran, Begun
    <3> QED
      BY <1>4, <2>1, <3>1
  <2> QED
    BY <1>4, <2>2, <2>3, LimitsAssumption, SetsAssumption DEF SlotsHold, MonthHolds, Armed
<1>6. Sound /\ Tracking /\ Reconciling
  BY <1>1, <1>2 DEF Sound, SoundRequest, Tracking, Tracked, On, Moving, Follows, Reconciling
<1> QED
  BY <1>3, <1>5, <1>6 DEF ScheduleInv

LEMMA StepsKeep == ScheduleInv /\ [Next]_vars => ScheduleInv'
<1> SUFFICES ASSUME ScheduleInv, [Next]_vars  PROVE ScheduleInv'
  OBVIOUS
<1>1. CASE UNCHANGED vars
  <2>1. /\ UNCHANGED <<row, clock, request, loose, drift, moverVars, meterVars>>
        /\ made' = made /\ tick' = tick /\ run' = run /\ stranded' = stranded
        /\ perils' = perils
    BY <1>1 DEF vars, apiVars, tickVars
  <2>2. SlotsHold' /\ MonthHolds'
    BY <2>1, MetersStay DEF ScheduleInv
  <2> QED
    BY <2>1, <2>2, OwnKeeps DEF ScheduleInv, Types, TypeOK, Runs
<1>2. CASE Next
  BY <1>2, BeginPatchKeeps, BeginDeleteKeeps, CreateJobKeeps, FirstEndsKeeps, KeepsJobKeeps,
     ForgetKeeps, DropKeeps, CommitPatchKeeps, SyncKeeps, SyncFailsKeeps,
     RestoreKeeps, PauseNewKeeps, ApiDiesKeeps, MigratePausesKeeps, MigratePutsKeeps,
     MigrateCommitsKeeps, ReconcileReadsKeeps, ReconcileKeeps, TickStepsKeep, SubmissionsKeep
  DEF Next, RequestSteps, Asks
<1> QED
  BY <1>1, <1>2

(* The invariant the theorems below rest on: what the admissions granted is   *)
(* within the meters, and each job's Schedule is where its row and the one     *)
(* request or migration on it say, wherever nothing has set them apart.        *)
THEOREM ScheduleInvHolds == Spec => []ScheduleInv
  BY StartsRight, StepsKeep, PTL DEF Spec

(* Whatever the limits, what the admissions granted stays within them, deletes *)
(* and every lane's submissions beside it: submissions in flight, rows of the  *)
(* month and armed schedules.  A running block's slot, a crawl's pages and the *)
(* schedules the migration put back are not admitted and may pass them         *)
(* (core/quota.py admit, check_scheduled_jobs_quota; the two quota views).     *)
THEOREM MetersAlwaysHold == Spec => []MetersHold
<1>1. ScheduleInv => MetersHold
  BY DEF ScheduleInv, Types, SlotsHold, MonthHolds, Armed, MetersHold
<1> QED
  BY <1>1, ScheduleInvHolds, PTL

(* An armed schedule of the v2 lane fires at its row's cron once no request or *)
(* migration is on it, and a job deleted off that lane leaves no Schedule,     *)
(* unless a crash, a lost answer, a second writer, a failed move to v2 or a    *)
(* failed forget has set the two apart since the last reconciliation           *)
(* (routers/jobs.py patch_jobs, create_job, cancel_job; migrate_schedule.py).  *)
THEOREM EngineFollows == Spec => []EngineFollowsRow
<1>1. ScheduleInv => EngineFollowsRow
  <2> SUFFICES ASSUME ScheduleInv, NEW j \in Jobs \ drift, InFlight(j) = {},
                      mover.at \notin {"put", "commit"}
               PROVE  Follows(row[j], clock[j])
    BY DEF EngineFollowsRow, Follows
  <2>1. Tracked(j)
    BY DEF ScheduleInv, Tracking
  <2>2. ~Moving(j) /\ \A n \in Asks : ~On(n, j)
    BY DEF Moving, InFlight, On, Asks
  <2> QED
    BY <2>1, <2>2 DEF Tracked
<1> QED
  BY <1>1, ScheduleInvHolds, PTL
=============================================================================
