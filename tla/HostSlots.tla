------------------------------- MODULE HostSlots -------------------------------
(***************************************************************************)
(* The per-host limiter: the leases one registrable domain's sorted set    *)
(* holds in Redis, and the workflows that take one before they scrape and  *)
(* give it back after.                                                     *)
(*                                                                         *)
(* Every duration is what is left of it, in units a Tick takes away, so    *)
(* time has no bound.  A Tick waits for whatever the engine would not let  *)
(* last longer; workflow tasks themselves take no time.                    *)
(***************************************************************************)
EXTENDS Naturals, FiniteSets, FiniteSetsExt

CONSTANTS
    Scrapes,   \* scrapes of one host, each by a workflow of its own
    Run,       \* start_to_close_timeout of each scrape's attempts
    Attempts,  \* SCRAPE_RETRY.maximum_attempts
    Queue,     \* SCRAPE_SCHEDULE_TO_START
    Backoff,   \* the interval between two attempts
    Margin,    \* HOST_LEASE_MARGIN
    Answer,    \* HOST_SLOT_ACTIVITY_TIMEOUT
    Limit,     \* host_limit_in_flight
    Interval,  \* host_limit_interval_ms
    BusyPoll,  \* BUSY_POLL_MS, and the first of the doubling re-asks
    PollMax,   \* HOST_POLL_MAX
    WaitCap,   \* HOST_WAIT_CAP
    MaxPerils  \* lost answers, errors of Redis and cancels of a behaviour (a bound)

ASSUME DurationsAssumption ==
    /\ {Attempts, Queue, Backoff, Margin, Answer, Limit, Interval, BusyPoll, PollMax, WaitCap,
        MaxPerils} \subseteq Nat
    /\ Run \in [Scrapes -> Nat]
    /\ Attempts > 0 /\ Answer > 0 /\ Answer + PollMax < Margin
    /\ 0 < BusyPoll /\ BusyPoll <= PollMax

VARIABLES
    lease,   \* KEYS[1]: what is left of each lease, 0 for none
    expiry,  \* the TTL of that key
    last,    \* the TTL of KEYS[2]
    pc,      \* where each scrape's workflow is
    timer,   \* what is left of the wait it is in
    waited,  \* how long it has waited for a slot, while it does
    delay,   \* the least it pauses when refused again, while it waits
    attempt, \* the attempt of the call, or of the scrape, it is at, else 0
    held,    \* scrapes that know they hold a slot
    told,    \* scrapes cancelled while they ask
    late,    \* abandoned acquires Redis has yet to run
    troubled, \* history: scrapes a call of which failed or lost its answer
    perils   \* how many perils have happened

redisVars == <<lease, expiry, last>>
waitVars == <<waited, delay, told>>
faultVars == <<late, troubled, perils>>
vars == <<redisVars, pc, timer, waitVars, attempt, held, faultVars>>

Least(a, b) == Min({a, b})
Most(a, b) == Max({a, b})
Less(n) == IF n = 0 THEN 0 ELSE n - 1

(* Mutant of LeaseTtl: one attempt's worth. *)
LeaseTtlOfOneAttempt(s) == Queue + Run[s] + Margin

(* host_lease_ttl: every attempt queued and run to its limit. *)
LeaseTtl(s) == Attempts * (Queue + Run[s]) + (Attempts - 1) * Backoff + Margin

Init ==
    /\ lease = [s \in Scrapes |-> 0] /\ expiry = 0 /\ last = 0
    /\ pc = [s \in Scrapes |-> "none"] /\ timer = [s \in Scrapes |-> 0]
    /\ waited = [s \in Scrapes |-> 0] /\ delay = [s \in Scrapes |-> 0]
    /\ attempt = [s \in Scrapes |-> 0]
    /\ held = {} /\ told = {} /\ late = {} /\ troubled = {} /\ perils = 0

Peril == perils < MaxPerils /\ perils' = perils + 1

-----------------------------------------------------------------------------
(* Redis *)

Leased == {s \in Scrapes : lease[s] > 0}

(* _ACQUIRE_SCRIPT's answer: 0 for admitted, or already held. *)
Reply(s) ==
    IF s \in Leased THEN 0
    ELSE IF Cardinality(Leased) >= Limit THEN BusyPoll
    ELSE last

(* Mutant of Acquire: the key lives as long as its newest lease. *)
AcquireNewest(s) ==
    IF s \notin Leased /\ Reply(s) = 0
    THEN /\ lease' = [lease EXCEPT ![s] = LeaseTtl(s)]
         /\ expiry' = LeaseTtl(s)
         /\ last' = Interval
    ELSE UNCHANGED redisVars

(* Its effect: the key lives as long as its longest lease. *)
Acquire(s) ==
    IF s \notin Leased /\ Reply(s) = 0
    THEN /\ lease' = [lease EXCEPT ![s] = LeaseTtl(s)]
         /\ expiry' = Max({lease'[u] : u \in Scrapes})
         /\ last' = Interval
    ELSE UNCHANGED redisVars

Release(s) == lease' = [lease EXCEPT ![s] = 0] /\ UNCHANGED <<expiry, last>>

-----------------------------------------------------------------------------
(* wait_for_host_slot *)

Goes(s, at, left) == pc' = [pc EXCEPT ![s] = at] /\ timer' = [timer EXCEPT ![s] = left]

(* The wait is over: with the scrape, with the release, or with nothing to do. *)
Leaves(s, at, left) ==
    /\ Goes(s, at, left)
    /\ attempt' = [attempt EXCEPT ![s] = IF at = "fetching" THEN 1 ELSE 0]
    /\ waited' = [waited EXCEPT ![s] = 0] /\ delay' = [delay EXCEPT ![s] = 0]
    /\ told' = told \ {s}

Asks(s) ==
    /\ pc[s] = "none"
    /\ Goes(s, "asking", Answer)
    /\ attempt' = [attempt EXCEPT ![s] = 1]
    /\ UNCHANGED <<redisVars, waitVars, held, faultVars>>

BeginsScrape(s) == Leaves(s, "fetching", Queue + Run[s])

(* _poll_delay, by the delay a scrape has come to, 0 at its first refusal; *)
(* the jitter is below the unit.                                          *)
PollDelay(s) == Most(Reply(s), delay[s])

(* Each refusal doubles the next re-ask's least delay, to the maximum. *)
Doubled(d) == Least(2 * (IF d = 0 THEN BusyPoll ELSE d), PollMax)

(* Mutant of Pause: only the ask after it looks at the cap. *)
PauseUncapped(s) == PollDelay(s)

Pause(s) == Least(PollDelay(s), WaitCap - waited[s])

(* The limiter says go: the workflow scrapes, or was cancelled and gives it back. *)
Granted(s) ==
    /\ pc[s] = "asking" /\ Reply(s) = 0
    /\ Acquire(s)
    /\ held' = held \cup {s}
    /\ IF s \in told THEN Leaves(s, "releasing", Answer) ELSE BeginsScrape(s)
    /\ UNCHANGED faultVars

Refused(s) ==
    /\ pc[s] = "asking" /\ Reply(s) > 0
    /\ \/ s \in told /\ Leaves(s, "over", 0)
       \/ s \notin told /\ waited[s] >= WaitCap /\ BeginsScrape(s)
       \/ /\ s \notin told /\ waited[s] < WaitCap
          /\ Goes(s, "sleeping", Pause(s))
          /\ delay' = [delay EXCEPT ![s] = Doubled(@)]
          /\ attempt' = [attempt EXCEPT ![s] = 0]
          /\ UNCHANGED <<waited, told>>
    /\ UNCHANGED <<redisVars, held, faultVars>>

(* A call that ran, has not run yet, or never will. *)
Lost(s) ==
    /\ Peril /\ troubled' = troubled \cup {s}
    /\ \/ Acquire(s) /\ UNCHANGED late
       \/ late' = late \cup {s} /\ UNCHANGED redisVars
       \/ UNCHANGED <<redisVars, late>>

(* The first attempt's answer is lost: the activity asks again. *)
AnswerLost(s) ==
    /\ pc[s] = "asking" /\ attempt[s] = 1
    /\ Lost(s)
    /\ attempt' = [attempt EXCEPT ![s] = 2]
    /\ UNCHANGED <<pc, timer, waitVars, held>>

(* Redis cannot be reached, or the activity's attempts are spent: fail open. *)
FailsOpen(s) ==
    /\ pc[s] = "asking"
    /\ Lost(s)
    /\ IF s \in told THEN Leaves(s, "over", 0) ELSE BeginsScrape(s)
    /\ UNCHANGED held

Wakes(s) ==
    /\ pc[s] = "sleeping" /\ timer[s] = 0
    /\ Goes(s, "asking", Answer)
    /\ attempt' = [attempt EXCEPT ![s] = 1]
    /\ UNCHANGED <<redisVars, waitVars, held, faultVars>>

(* _through_cancel: a cancel waits for the limiter's answer; a timer it ends. *)
Cancel(s) ==
    /\ pc[s] \in {"asking", "sleeping"} /\ s \notin told /\ Peril
    /\ IF pc[s] = "asking" THEN told' = told \cup {s} /\ UNCHANGED <<pc, timer, attempt, waited, delay>>
       ELSE Leaves(s, "over", 0)
    /\ UNCHANGED <<redisVars, held, late, troubled>>

(* Redis runs what its caller gave up on. *)
LandsLate(s) ==
    /\ s \in late /\ late' = late \ {s}
    /\ Acquire(s)
    /\ UNCHANGED <<pc, timer, waitVars, attempt, held, troubled, perils>>

-----------------------------------------------------------------------------
(* The scrape, and the slot's release *)

(* An attempt waits for a worker and runs; the timer is the most both take. *)
AttemptFails(s) ==
    /\ pc[s] = "fetching" /\ attempt[s] < Attempts
    /\ Goes(s, "backoff", Backoff)
    /\ UNCHANGED <<redisVars, waitVars, attempt, held, faultVars>>

Retries(s) ==
    /\ pc[s] = "backoff" /\ timer[s] = 0
    /\ Goes(s, "fetching", Queue + Run[s])
    /\ attempt' = [attempt EXCEPT ![s] = @ + 1]
    /\ UNCHANGED <<redisVars, waitVars, held, faultVars>>

(* It succeeds, or fails for good. *)
ScrapeEnds(s) ==
    /\ pc[s] = "fetching"
    /\ IF s \in held THEN Goes(s, "releasing", Answer) ELSE Goes(s, "over", 0)
    /\ attempt' = [attempt EXCEPT ![s] = 0]
    /\ UNCHANGED <<redisVars, waitVars, held, faultVars>>

Released(s) ==
    /\ pc[s] = "releasing"
    /\ Release(s) /\ held' = held \ {s}
    /\ Goes(s, "over", 0)
    /\ UNCHANGED <<waitVars, attempt, faultVars>>

(* Done and not answered, or not done: the lease expires on its own. *)
ReleaseFails(s) ==
    /\ pc[s] = "releasing" /\ Peril
    /\ Release(s) \/ UNCHANGED redisVars
    /\ troubled' = troubled \cup {s} /\ held' = held \ {s}
    /\ Goes(s, "over", 0)
    /\ UNCHANGED <<waitVars, attempt, late>>

-----------------------------------------------------------------------------
Timed == {"asking", "sleeping", "fetching", "backoff", "releasing"}

(* At its key's expiry the whole set goes. *)
Tick ==
    /\ \A s \in Scrapes : pc[s] \in Timed => timer[s] > 0
    /\ lease' = [s \in Scrapes |-> IF expiry <= 1 THEN 0 ELSE Less(lease[s])]
    /\ expiry' = Less(expiry) /\ last' = Less(last)
    /\ timer' = [s \in Scrapes |-> Less(timer[s])]
    /\ waited' = [s \in Scrapes |-> IF pc[s] \in {"asking", "sleeping"} THEN waited[s] + 1
                                    ELSE waited[s]]
    /\ UNCHANGED <<pc, delay, told, attempt, held, faultVars>>

Steps(s) ==
    \/ Asks(s) \/ Granted(s) \/ Refused(s) \/ AnswerLost(s) \/ FailsOpen(s) \/ Wakes(s)
    \/ Cancel(s) \/ LandsLate(s) \/ AttemptFails(s) \/ Retries(s) \/ ScrapeEnds(s)
    \/ Released(s) \/ ReleaseFails(s)

Next == Tick \/ \E s \in Scrapes : Steps(s)

Spec == Init /\ [][Next]_vars

-----------------------------------------------------------------------------
(* Properties *)

TypeOK ==
    /\ lease \in [Scrapes -> Nat] /\ timer \in [Scrapes -> Nat]
    /\ pc \in [Scrapes -> Timed \cup {"none", "over"}]
    /\ attempt \in [Scrapes -> 0..Most(Attempts, 2)]
    /\ held \cup told \cup late \cup troubled \subseteq Scrapes

Fetching == {s \in held : pc[s] \in {"fetching", "backoff"}}

(* The host never has more scrapes with a slot than the limit, because a     *)
(* lease outlives the scrape that holds it: its own ttl counts every attempt *)
(* queued and run to its limit, and no shorter lease of the set takes it     *)
(* along (core/host_limiter.py _ACQUIRE_SCRIPT, steps.py host_lease_ttl).    *)
SlotsHold ==
    /\ TypeOK
    /\ Cardinality(Fetching) <= Limit
    /\ Fetching \subseteq Leased

(* A workflow that is done with the host has left no lease on it, however it *)
(* was cancelled, unless one of its calls failed, and then the lease lapses  *)
(* (steps.py wait_for_host_slot, _through_cancel, release_host_slot).        *)
LeavesNoLease ==
    \A s \in Scrapes \ troubled : pc[s] = "over" => s \notin Leased

(* A lease is held as long as its scrape may fetch, and no longer. *)
LeasesFollowScrapes == SlotsHold /\ LeavesNoLease

(* The limiter delays a scrape and never fails it: whatever the host's load, *)
(* a scrape begins within the cap and one last ask (steps.py HOST_WAIT_CAP). *)
WaitsToTheCap ==
    \A s \in Scrapes : waited[s] <= WaitCap + Answer
=============================================================================
