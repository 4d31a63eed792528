------------------------------ MODULE CrawlProofs ------------------------------
(***************************************************************************)
(* Theorems about Crawl, for any finite set of URLs, any links between     *)
(* them, any bounds and any perils.                                        *)
(***************************************************************************)
EXTENDS Crawl, FiniteSetTheorems, TLAPS

-----------------------------------------------------------------------------
(* The inductive invariant *)

Answers == [state : Statuses \cup {"no answer"}, full : BOOLEAN, pages : SUBSET Urls,
            refused : BOOLEAN]

(* The types of TypeOK, its bounds on the counters apart. *)
Types ==
    /\ status \in Statuses
    /\ queue \in [Urls -> {"unseen", "pending", "dispatched", "completed", "failed", "skipped",
                           "dropped"}]
    /\ page \in [Urls -> {"none", "running", "completed", "failed", "cancelled"}]
    /\ hooks \subseteq {"crawl.completed", "crawl.failed"}
    /\ ledger \subseteq Urls /\ stored \subseteq Urls /\ freed \subseteq Urls
    /\ request \in {"idle", "committed", "refused", "over"} /\ telling \in BOOLEAN
    /\ deleting \in {"no", "purge", "refuse", "over"}
    /\ pc \in {"none", "started", "seed", "loop", "claim", "settle", "wait", "drain", "finish",
               "done"}
    /\ claim \in ClaimInputs /\ late \in ClaimInputs
    /\ asked \subseteq {"started", "seed", "claim", "finish"} /\ outcome \in Terminal
    /\ inFlight \subseteq Urls
    /\ task \in [Urls -> {"none", "slot", "scrape", "links"} \cup Recording]
    /\ woken \in BOOLEAN /\ stop \in {"no", "stopped", "full"}
    /\ failure \in BOOLEAN /\ cancelReq \in BOOLEAN /\ engine \in {"no", "asked", "delivered"}
    /\ perils \in 0 .. MaxPerils
    /\ ret \in Answers /\ reply \in [Urls -> Answers]
    /\ cutShort \in BOOLEAN /\ gaveUp \in BOOLEAN /\ forgot \in BOOLEAN /\ finished \in Nat

Unclaimed == {"unseen", "dropped", "pending"}

(* A page's row comes with the claim of its URL, and only a URL that was   *)
(* claimed has a task; a deleted crawl has no rows, and none comes back.   *)
Frontier ==
    /\ \A u \in Urls :
         /\ queue[u] \in Unclaimed => page[u] = "none"
         /\ queue[u] = "dispatched" <=> page[u] = "running"
         /\ task[u] # "none" => queue[u] \notin Unclaimed \/ status = "gone"
         /\ u \in inFlight => task[u] # "none"
         /\ status = "gone" => queue[u] = "unseen" /\ page[u] = "none"
    /\ request = "idle" => status = "none" /\ deleting = "no"
    /\ request \in {"idle", "committed"} => pc = "none"

Completed == {u \in Urls : page[u] = "completed"}
Failed == {u \in Urls : page[u] = "failed"}
Queued == {u \in Urls : queue[u] \notin {"unseen", "dropped"}}
Running == {u \in Urls : page[u] = "running"}

Counters ==
    /\ completed = Cardinality(Completed)
    /\ failed = Cardinality(Failed)
    /\ queued = Cardinality(Queued)
    /\ queued <= MaxPages

(* What a page's task has fetched is there until its record is made. *)
Charges ==
    /\ ChargedIsKept
    /\ \A u \in Urls : task[u] \in {"keep", "links"} /\ page[u] = "running" => u \in stored
    /\ deleting = "no" => freed = {}

(* A claim, late ones included, asks for what its pages in flight leave. *)
Asks(in) == in.limit + Cardinality(in.inFlight) <= MaxInFlight

(* Pages claimed and not recorded, whoever claimed them, fit in flight. *)
Bounds ==
    /\ Asks(claim) /\ Asks(late)
    /\ Cardinality(Running) <= MaxInFlight
    /\ Cardinality(ledger) + Cardinality(Running) < Limit + MaxInFlight
    /\ InFlightBounded
    /\ finished + Cardinality(inFlight) <= PagesPerRun - 1 + MaxInFlight

(* While a claim is awaited, pages may end and none begins. *)
Claiming ==
    pc = "claim" =>
        /\ inFlight \subseteq claim.inFlight
        /\ claim.limit + Cardinality(claim.inFlight) = MaxInFlight
        /\ Cardinality(ret.pages) <= claim.limit
        /\ finished + Cardinality(inFlight) <= PagesPerRun - 1 + Cardinality(claim.inFlight)
        /\ \A u \in ret.pages : queue[u] \notin Unclaimed \/ status = "gone"

Recorded(u) == task[u] = "links" \/ (task[u] \in Recording /\ reply[u] # NoAnswer)

(* A task ends with its page recorded; otherwise the failure is set, and   *)
(* the claim being awaited was told that the page is in flight.            *)
Once ==
    /\ FetchedOnce
    /\ \A u \in Urls : Recorded(u) => page[u] # "running"
    /\ \A u \in Urls : task[u] \in {"slot", "scrape"} => reply[u] = NoAnswer
    /\ ~forgot /\ ~failure /\ ~cutShort =>
         \A u \in Urls \ inFlight : task[u] # "none" => page[u] # "running"
    /\ ~forgot /\ pc = "claim" =>
         /\ \A u \in Urls \ claim.inFlight : task[u] # "none" => page[u] # "running"
         /\ \A u \in ret.pages : task[u] = "none"

Closed == status \notin Open /\ ~LeftOpen

(* The workflow ends on the answer of a finish_crawl that closed the crawl. *)
Closing ==
    /\ cutShort => pc = "done"
    /\ pc = "finish" /\ ret # NoAnswer => Closed
    /\ ClosedForGood

CrawlInv ==
    Types /\ Frontier /\ Counters /\ Charges /\ Bounds /\ Claiming /\ Once /\ Closing

-----------------------------------------------------------------------------
(* Sets of URLs *)

LEMMA Sizes ==
    /\ MaxPages \in Nat /\ MaxInFlight \in Nat /\ PagesPerRun \in Nat /\ Limit \in Nat
    /\ MaxPerils \in Nat /\ MaxPages > 0 /\ MaxInFlight > 0 /\ PagesPerRun > 0
  BY BoundsAssumption

LEMMA SetSize ==
    ASSUME NEW S \in SUBSET Urls
    PROVE  IsFiniteSet(S) /\ Cardinality(S) \in Nat
  BY SeedAssumption, FS_Subset, FS_CardinalityType

LEMMA SubsetSize ==
    ASSUME NEW T \in SUBSET Urls, NEW S \in SUBSET T
    PROVE  Cardinality(S) <= Cardinality(T)
  BY SetSize, FS_Subset

LEMMA AddSize ==
    ASSUME NEW S \in SUBSET Urls, NEW u \in Urls, u \notin S
    PROVE  Cardinality(S \cup {u}) = Cardinality(S) + 1
  BY SetSize, FS_AddElement

LEMMA RemoveSize ==
    ASSUME NEW S \in SUBSET Urls, NEW u \in S
    PROVE  Cardinality(S \ {u}) = Cardinality(S) - 1
  BY SetSize, FS_RemoveElement

LEMMA UnionSize ==
    ASSUME NEW S \in SUBSET Urls, NEW T \in SUBSET Urls
    PROVE  /\ Cardinality(S \cup T) <= Cardinality(S) + Cardinality(T)
           /\ S \cap T = {} => Cardinality(S \cup T) = Cardinality(S) + Cardinality(T)
<1>1. IsFiniteSet(S) /\ IsFiniteSet(T) /\ Cardinality(S) \in Nat /\ Cardinality(T) \in Nat
      /\ Cardinality(S \cap T) \in Nat
  BY SetSize
<1>2. Cardinality(S \cup T) = Cardinality(S) + Cardinality(T) - Cardinality(S \cap T)
  BY <1>1, FS_Union
<1>3. S \cap T = {} => Cardinality(S \cap T) = 0
  BY FS_EmptySet
<1> QED
  BY <1>1, <1>2, <1>3

LEMMA Smaller ==
    ASSUME NEW m \in Nat, NEW n \in Nat
    PROVE  SmallerOf(m, n) \in Nat /\ SmallerOf(m, n) <= m /\ SmallerOf(m, n) <= n
  BY DEF SmallerOf

(* The sets the invariant counts. *)
LEMMA Counted ==
    ASSUME Types
    PROVE  /\ Completed \in SUBSET Urls /\ Failed \in SUBSET Urls /\ Queued \in SUBSET Urls
           /\ Running \in SUBSET Urls
           /\ inFlight \in SUBSET Urls /\ ledger \in SUBSET Urls
           /\ Cardinality(inFlight) \in Nat /\ Cardinality(ledger) \in Nat
           /\ Cardinality(Running) \in Nat /\ Cardinality(Completed) \in Nat
           /\ Cardinality(Failed) \in Nat /\ Cardinality(Queued) \in Nat
<1>1. /\ Completed \in SUBSET Urls /\ Failed \in SUBSET Urls /\ Queued \in SUBSET Urls
      /\ Running \in SUBSET Urls /\ inFlight \in SUBSET Urls /\ ledger \in SUBSET Urls
  BY DEF Types, Completed, Failed, Queued, Running
<1> QED
  BY <1>1, SetSize

LEMMA AnswerTypes ==
    /\ NoAnswer \in Answers /\ NoAnswer.pages = {} /\ NoClaim \in ClaimInputs /\ Asks(NoClaim)
    /\ \A s \in Statuses : Said(s) \in Answers /\ Said(s) # NoAnswer
<1>1. NoClaim.limit = 0 /\ Cardinality(NoClaim.inFlight) = 0
  BY FS_EmptySet DEF NoClaim
<1>2. NoClaim \in ClaimInputs /\ Asks(NoClaim)
  BY <1>1, Sizes DEF NoClaim, ClaimInputs, Asks
<1>3. NoAnswer.pages = {} /\ NoAnswer.state = "no answer"
  BY DEF NoAnswer, Said
<1>4. ASSUME NEW s \in Statuses \cup {"no answer"}
      PROVE  Said(s) \in Answers /\ Said(s).state = s
  BY DEF Said, Answers
<1>5. \A s \in Statuses : s # "no answer"
  BY DEF Statuses, Open, Terminal
<1> QED
  BY <1>2, <1>3, <1>4, <1>5 DEF NoAnswer

-----------------------------------------------------------------------------
(* Answers to the main coroutine and to the pages *)

LEMMA Heard ==
    ASSUME Types, NEW c, NEW a \in Answers, Hear(c, a)
    PROVE  /\ ret' \in Answers /\ perils' \in 0 .. MaxPerils
           /\ ret' = ret \/ (pc = c /\ ret = NoAnswer /\ ret' = a)
  BY Sizes DEF Types, Hear, Peril

LEMMA HeardPage ==
    ASSUME Types, NEW u \in Urls, NEW steps, NEW a \in Answers, HearPage(u, steps, a)
    PROVE  /\ reply' \in [Urls -> Answers]
           /\ \A v \in Urls : reply'[v] = reply[v] \/ (v = u /\ task[u] \in steps /\ reply'[v] = a)
  BY DEF Types, HearPage, AwaitsPage

LEMMA StartsRight == Init => CrawlInv
<1> SUFFICES ASSUME Init  PROVE CrawlInv
  OBVIOUS
<1> USE DEF Init
<1>1. Types
  <2>1. status \in Statuses /\ outcome \in Terminal
    BY DEF Statuses, Terminal
  <2>a. perils \in 0 .. MaxPerils /\ finished \in Nat
    BY Sizes
  <2>b. /\ cutShort \in BOOLEAN /\ gaveUp \in BOOLEAN /\ forgot \in BOOLEAN /\ woken \in BOOLEAN
        /\ failure \in BOOLEAN /\ cancelReq \in BOOLEAN /\ telling \in BOOLEAN
    OBVIOUS
  <2>2. /\ queue \in [Urls -> {"unseen", "pending", "dispatched", "completed", "failed",
                                "skipped", "dropped"}]
        /\ page \in [Urls -> {"none", "running", "completed", "failed", "cancelled"}]
        /\ task \in [Urls -> {"none", "slot", "scrape", "links"} \cup Recording]
    OBVIOUS
  <2>3. ret \in Answers /\ reply \in [Urls -> Answers] /\ claim \in ClaimInputs
        /\ late \in ClaimInputs
    BY AnswerTypes
  <2> QED
    BY <2>1, <2>a, <2>b, <2>2, <2>3 DEF Types
<1>2. Completed = {} /\ Failed = {} /\ Queued = {} /\ Running = {}
  BY DEF Completed, Failed, Queued, Running
<1>3. Frontier
  BY DEF Frontier, Unclaimed
<1>4. Counters
  BY <1>2, FS_EmptySet, Sizes DEF Counters
<1>5. Charges
  BY DEF Charges, ChargedIsKept
<1>6. Bounds
  BY <1>2, FS_EmptySet, Sizes, AnswerTypes DEF Bounds, InFlightBounded
<1>7. Claiming /\ Closing
  BY DEF Claiming, Closing, ClosedForGood
<1>8. Once
  BY DEF Once, FetchedOnce, Recorded, Recording
<1> QED
  BY <1>1, <1>3, <1>4, <1>5, <1>6, <1>7, <1>8 DEF CrawlInv

-----------------------------------------------------------------------------
(* The main coroutine *)

(* Its moves that neither claim, start pages, begin a new run nor end it. *)
LEMMA MainKeeps ==
    ASSUME CrawlInv, UNCHANGED <<rowVars, apiVars, late, history, claim>>,
           UNCHANGED <<inFlight, reply, finished, failure>>,
           pc \notin {"none", "done"},
           pc' \in {"seed", "loop", "settle", "wait", "drain", "finish"}, ret' = NoAnswer,
           asked' \subseteq {"started", "seed", "claim", "finish"}, outcome' \in Terminal,
           woken' \in BOOLEAN, stop' \in {"no", "stopped", "full"}, cancelReq' \in BOOLEAN,
           engine' \in {"no", "asked", "delivered"}, perils' \in 0 .. MaxPerils,
           task' \in [Urls -> {"none", "slot", "scrape", "links"} \cup Recording],
           \A u \in Urls : task'[u] = task[u] \/ (task[u] = "slot" /\ task'[u] = "drop")
    PROVE  CrawlInv'
<1>1. /\ status' = status /\ queue' = queue /\ page' = page /\ queued' = queued
      /\ completed' = completed /\ failed' = failed /\ hooks' = hooks /\ ledger' = ledger
      /\ stored' = stored /\ request' = request /\ telling' = telling /\ deleting' = deleting
      /\ freed' = freed /\ late' = late /\ cutShort' = cutShort /\ gaveUp' = gaveUp
      /\ forgot' = forgot /\ twice' = twice /\ claim' = claim
      /\ inFlight' = inFlight /\ reply' = reply /\ finished' = finished /\ failure' = failure
  BY DEF rowVars, apiVars, history
<1>2. Types'
  BY <1>1, AnswerTypes DEF CrawlInv, Types
<1>3. Frontier'
  BY <1>1 DEF CrawlInv, Frontier
<1>4. Counters'
  BY <1>1 DEF CrawlInv, Counters, Completed, Failed, Queued
<1>5. Charges'
  BY <1>1 DEF CrawlInv, Charges, ChargedIsKept
<1>6. Bounds'
  BY <1>1 DEF CrawlInv, Bounds, Asks, Running, InFlightBounded
<1>7. Claiming'
  BY DEF Claiming
<1>8. Once'
  <2>1. \A u \in Urls : Recorded(u)' => page[u] # "running"
    BY <1>1 DEF CrawlInv, Once, Recorded, Recording
  <2> QED
    BY <1>1, <2>1 DEF CrawlInv, Once, FetchedOnce
<1>9. Closing'
  BY <1>1 DEF CrawlInv, Closing, ClosedForGood
<1> QED
  BY <1>2, <1>3, <1>4, <1>5, <1>6, <1>7, <1>8, <1>9 DEF CrawlInv

LEMMA DrainKeeps ==
    ASSUME CrawlInv, UNCHANGED <<rowVars, apiVars, late, history>>, NEW to \in Terminal, Drain(to),
           pc \notin {"none", "done"}, cancelReq' \in BOOLEAN,
           engine' \in {"no", "asked", "delivered"}, perils' \in 0 .. MaxPerils
    PROVE  CrawlInv'
<1>1. /\ pc' = "drain" /\ ret' = NoAnswer /\ claim' = claim /\ asked' = asked /\ outcome' = to
      /\ UNCHANGED <<inFlight, reply, finished, failure>> /\ woken' = woken /\ stop' = stop
      /\ task' = [u \in Urls |-> IF u \in inFlight /\ task[u] = "slot" THEN "drop" ELSE task[u]]
  BY DEF Drain, Goto
<1>2. /\ task' \in [Urls -> {"none", "slot", "scrape", "links"} \cup Recording]
      /\ \A u \in Urls : task'[u] = task[u] \/ (task[u] = "slot" /\ task'[u] = "drop")
  BY <1>1 DEF CrawlInv, Types, Recording
<1>3. /\ asked' \subseteq {"started", "seed", "claim", "finish"} /\ woken' \in BOOLEAN
      /\ stop' \in {"no", "stopped", "full"} /\ claim' = claim
  BY <1>1 DEF CrawlInv, Types
<1> QED
  BY <1>1, <1>2, <1>3, MainKeeps

LEMMA FinishKeeps ==
    ASSUME CrawlInv, MainOnly, UNCHANGED <<pageVars, cancelReq, history>>,
           NEW to \in Terminal, Finish(to), pc \notin {"none", "done"}
    PROVE  CrawlInv'
<1>1. /\ pc' = "finish" /\ ret' = NoAnswer /\ claim' = claim /\ asked' = asked \cup {"finish"}
      /\ outcome' = to /\ UNCHANGED <<inFlight, reply, finished, failure>>
      /\ woken' = woken /\ stop' = stop /\ task' = task /\ cancelReq' = cancelReq
      /\ engine' = engine /\ perils' = perils /\ UNCHANGED <<rowVars, apiVars, late, history, claim>>
  BY DEF Finish, Call, pageVars, MainOnly
<1>2. /\ task' \in [Urls -> {"none", "slot", "scrape", "links"} \cup Recording]
      /\ asked' \subseteq {"started", "seed", "claim", "finish"} /\ woken' \in BOOLEAN
      /\ stop' \in {"no", "stopped", "full"} /\ cancelReq' \in BOOLEAN
      /\ engine' \in {"no", "asked", "delivered"} /\ perils' \in 0 .. MaxPerils
  BY <1>1 DEF CrawlInv, Types
<1> QED
  BY <1>1, <1>2, MainKeeps

(* The main coroutine waits, wakes or goes back to its loop. *)
LEMMA GotoKeeps ==
    ASSUME CrawlInv, MainOnly, UNCHANGED <<cancelReq, history>>,
           NEW to \in {"loop", "settle", "wait"}, Goto(to), pc \notin {"none", "done"},
           UNCHANGED <<inFlight, task, reply, finished, failure, outcome>>,
           woken' \in BOOLEAN, stop' \in {"no", "stopped", "full"}
    PROVE  CrawlInv'
<1>1. /\ pc' = to /\ ret' = NoAnswer /\ asked' = asked /\ UNCHANGED <<inFlight, reply, finished, failure>>
      /\ task' = task /\ cancelReq' = cancelReq /\ outcome' = outcome
      /\ engine' = engine /\ perils' = perils /\ UNCHANGED <<rowVars, apiVars, late, history, claim>>
  BY DEF Goto, MainOnly
<1>2. /\ task' \in [Urls -> {"none", "slot", "scrape", "links"} \cup Recording]
      /\ asked' \subseteq {"started", "seed", "claim", "finish"}
      /\ cancelReq' \in BOOLEAN /\ outcome' \in Terminal
      /\ engine' \in {"no", "asked", "delivered"} /\ perils' \in 0 .. MaxPerils
  BY <1>1 DEF CrawlInv, Types
<1> QED
  BY <1>1, <1>2, MainKeeps

LEMMA DrainedKeeps == ASSUME CrawlInv, Drained PROVE CrawlInv'
  BY FinishKeeps DEF Drained, CrawlInv, Types

LEMMA StartedKeeps == ASSUME CrawlInv, Started PROVE CrawlInv'
<1>1. CASE ret.state = "running"
  <2>1. /\ pc' = "seed" /\ ret' = NoAnswer /\ claim' = claim /\ asked' = asked \cup {"seed"}
        /\ outcome' = outcome /\ UNCHANGED <<inFlight, reply, finished, failure>>
        /\ woken' = woken /\ stop' = stop /\ task' = task /\ cancelReq' = cancelReq
        /\ engine' = engine /\ perils' = perils
        /\ UNCHANGED <<rowVars, apiVars, late, history, claim>> /\ pc = "started"
    BY <1>1 DEF Started, Call, pageVars, MainOnly
  <2>2. /\ task' \in [Urls -> {"none", "slot", "scrape", "links"} \cup Recording]
        /\ asked' \subseteq {"started", "seed", "claim", "finish"} /\ woken' \in BOOLEAN
        /\ stop' \in {"no", "stopped", "full"} /\ cancelReq' \in BOOLEAN /\ outcome' \in Terminal
        /\ engine' \in {"no", "asked", "delivered"} /\ perils' \in 0 .. MaxPerils
    BY <2>1 DEF CrawlInv, Types
  <2> QED
    BY <2>1, <2>2, MainKeeps
<1>2. CASE ret.state # "running"
  BY <1>2, FinishKeeps DEF Started, Terminal
<1> QED
  BY <1>1, <1>2

LEMMA SeedAdmittedKeeps == ASSUME CrawlInv, SeedAdmitted PROVE CrawlInv'
<1>1. /\ pc = "seed" /\ UNCHANGED <<inFlight, task, reply, finished, woken, failure, cancelReq, history>>
      /\ MainOnly /\ stop' \in {"no", "stopped", "full"} /\ woken' \in BOOLEAN
  BY DEF SeedAdmitted, CrawlInv, Types
<1>2. CASE ret.refused
  <2>1. /\ pc' = "finish" /\ ret' = NoAnswer /\ claim' = claim /\ asked' = asked \cup {"finish"}
        /\ outcome' = "failed"
    BY <1>2 DEF SeedAdmitted, Finish, Call
  <2>2. /\ UNCHANGED <<rowVars, apiVars, late, history, claim>> /\ engine' = engine
        /\ perils' = perils /\ cancelReq' = cancelReq /\ task' = task
        /\ UNCHANGED <<inFlight, reply, finished, failure>>
    BY <1>1, <2>1 DEF MainOnly
  <2>3. /\ task' \in [Urls -> {"none", "slot", "scrape", "links"} \cup Recording]
        /\ asked' \subseteq {"started", "seed", "claim", "finish"}
        /\ cancelReq' \in BOOLEAN /\ outcome' \in Terminal
        /\ engine' \in {"no", "asked", "delivered"} /\ perils' \in 0 .. MaxPerils
    BY <2>1, <2>2 DEF CrawlInv, Types, Terminal
  <2> QED
    BY <1>1, <2>1, <2>2, <2>3, MainKeeps
<1>3. CASE ~ret.refused
  <2>1. Goto("loop") /\ outcome' = outcome
    BY <1>3 DEF SeedAdmitted
  <2> QED
    BY <1>1, <2>1, GotoKeeps
<1> QED
  BY <1>2, <1>3

LEMMA WakeKeeps == ASSUME CrawlInv, Wake PROVE CrawlInv'
  BY GotoKeeps DEF Wake, pageVars, CrawlInv, Types

(* The claim is told of the pages in flight, none of them yet a failure. *)
LEMMA ClaimBegins ==
    ASSUME CrawlInv, Loop, Call("claim"), ~failure, ~RunFull, Cardinality(inFlight) < MaxInFlight,
           claim' = [limit |-> MaxInFlight - Cardinality(inFlight), inFlight |-> inFlight],
           UNCHANGED <<outcome, pageVars>>
    PROVE  CrawlInv'
<1>1. /\ pc = "loop" /\ pc' = "claim" /\ ret' = NoAnswer /\ asked' = asked \cup {"claim"}
      /\ status' = status /\ queue' = queue /\ page' = page /\ queued' = queued
      /\ completed' = completed /\ failed' = failed /\ hooks' = hooks /\ ledger' = ledger
      /\ stored' = stored /\ request' = request /\ telling' = telling /\ deleting' = deleting
      /\ freed' = freed /\ late' = late /\ outcome' = outcome
  BY DEF Loop, Call, MainOnly, rowVars, apiVars
<1>a. /\ cutShort' = cutShort /\ gaveUp' = gaveUp /\ forgot' = forgot /\ twice' = twice
      /\ inFlight' = inFlight /\ task' = task /\ reply' = reply /\ finished' = finished
      /\ woken' = woken /\ stop' = stop /\ failure' = failure
      /\ cancelReq' = cancelReq /\ engine' = engine /\ perils' = perils
  BY DEF Loop, MainOnly, pageVars, history
<1>b. PICK n \in Nat : n = Cardinality(inFlight)
  BY Counted DEF CrawlInv
<1>c. claim' = [limit |-> MaxInFlight - n, inFlight |-> inFlight] /\ n < MaxInFlight
  BY <1>b
<1>d. /\ claim'.limit = MaxInFlight - n /\ claim'.inFlight = inFlight /\ inFlight \subseteq Urls
      /\ MaxInFlight - n \in 0 .. MaxInFlight /\ finished \in Nat /\ finished < PagesPerRun
  BY <1>b, <1>c, Sizes DEF CrawlInv, Types, RunFull
<1>2. Types'
  <2>1. claim' \in ClaimInputs
    BY <1>c, <1>d DEF ClaimInputs
  <2> QED
    BY <1>1, <1>a, <2>1, AnswerTypes DEF CrawlInv, Types
<1>3. Frontier'
  BY <1>1, <1>a DEF CrawlInv, Frontier
<1>4. Counters'
  BY <1>1, <1>a DEF CrawlInv, Counters, Completed, Failed, Queued
<1>5. Charges'
  BY <1>1, <1>a DEF CrawlInv, Charges, ChargedIsKept
<1>6. Bounds'
  <2>1. Asks(claim')
    BY <1>b, <1>d, Sizes DEF Asks
  <2>2. Bounds'
    BY <1>1, <1>a, <2>1 DEF CrawlInv, Bounds, Asks, Running, InFlightBounded
  <2> QED
    BY <2>2
<1>7. Claiming'
  <2>1. ret'.pages = {} /\ Cardinality(ret'.pages) = 0
    BY <1>1, AnswerTypes, FS_EmptySet
  <2>2. finished + n <= PagesPerRun - 1 + n
    BY <1>b, <1>d, Sizes
  <2>3. MaxInFlight - n + n = MaxInFlight /\ 0 <= MaxInFlight - n
    BY <1>b, <1>c, Sizes
  <2> QED
    BY <1>1, <1>a, <1>b, <1>d, <2>1, <2>2, <2>3 DEF Claiming
<1>8. Once'
  <2>1. ~cutShort /\ ret'.pages = {}
    BY <1>1, AnswerTypes DEF CrawlInv, Closing
  <2>2. \A u \in Urls : Recorded(u)' => page'[u] # "running"
    BY <1>1, <1>a DEF CrawlInv, Once, Recorded
  <2> QED
    BY <1>1, <1>a, <1>d, <2>1, <2>2 DEF CrawlInv, Once, FetchedOnce
<1>9. Closing'
  BY <1>1, <1>a DEF CrawlInv, Closing, ClosedForGood
<1> QED
  BY <1>2, <1>3, <1>4, <1>5, <1>6, <1>7, <1>8, <1>9 DEF CrawlInv

LEMMA LoopKeeps == ASSUME CrawlInv, Loop PROVE CrawlInv'
<1>1. pc = "loop" /\ UNCHANGED <<cancelReq, history>> /\ MainOnly
  BY DEF Loop
<1>2. /\ cancelReq' \in BOOLEAN /\ engine' \in {"no", "asked", "delivered"}
      /\ perils' \in 0 .. MaxPerils
  BY <1>1 DEF MainOnly, CrawlInv, Types
<1>3. ASSUME NEW to \in {"cancelled", "failed"}, Drain(to)  PROVE CrawlInv'
  BY <1>1, <1>2, <1>3, DrainKeeps DEF MainOnly, Terminal
<1>4. CASE Goto("settle") /\ UNCHANGED <<outcome, pageVars>>
  <2>1. /\ UNCHANGED <<inFlight, task, reply, finished, failure, outcome>>
        /\ woken' \in BOOLEAN /\ stop' \in {"no", "stopped", "full"}
    BY <1>4 DEF pageVars, CrawlInv, Types
  <2> QED
    BY <1>1, <1>4, <2>1, GotoKeeps
<1> QED
  BY <1>3, <1>4, ClaimBegins DEF Loop

(* The claim's pages are the places it left, and of pages with no task yet. *)
LEMMA PagesBegin ==
    ASSUME CrawlInv, StartPages, ~cancelReq
    PROVE  CrawlInv'
<1> DEFINE pages == ret.pages \ inFlight
<1>1. /\ pc = "claim" /\ pc' = "settle" /\ ret' = NoAnswer /\ asked' = asked /\ claim' = claim
      /\ status' = status /\ queue' = queue /\ page' = page /\ queued' = queued
      /\ completed' = completed /\ failed' = failed /\ hooks' = hooks /\ ledger' = ledger
      /\ stored' = stored /\ request' = request /\ telling' = telling /\ deleting' = deleting
      /\ freed' = freed /\ late' = late /\ outcome' = outcome
  BY DEF StartPages, Goto, MainOnly, rowVars, apiVars
<1>a. /\ cutShort' = cutShort /\ gaveUp' = gaveUp /\ forgot' = forgot /\ finished' = finished
      /\ woken' = woken /\ failure' = failure /\ cancelReq' = cancelReq /\ engine' = engine
      /\ perils' = perils
  BY DEF StartPages, MainOnly
<1>b. /\ stop' \in {"stopped", "full", stop} /\ inFlight' = inFlight \cup pages
      /\ twice' = twice \cup {u \in pages : task[u] # "none"}
      /\ task' = [u \in Urls |-> IF u \in pages THEN "slot" ELSE task[u]]
      /\ reply' = [u \in Urls |-> IF u \in pages THEN NoAnswer ELSE reply[u]]
  BY DEF StartPages
<1>c. ret.pages \in SUBSET Urls /\ pages \in SUBSET ret.pages /\ inFlight \in SUBSET Urls
      /\ ret.pages = pages \cup (ret.pages \cap inFlight)
  BY DEF CrawlInv, Types, Answers
<1> HIDE DEF pages
<1>d. /\ \A u \in pages : task'[u] = "slot" /\ reply'[u] = NoAnswer
      /\ \A u \in Urls : u \notin pages => task'[u] = task[u] /\ reply'[u] = reply[u]
  BY <1>b, <1>c
<1>2. Types'
  <2>1. /\ task' \in [Urls -> {"none", "slot", "scrape", "links"} \cup Recording]
        /\ stop' \in {"no", "stopped", "full"} /\ inFlight' \subseteq Urls
    BY <1>b, <1>c DEF CrawlInv, Types
  <2>2. reply' \in [Urls -> Answers]
    BY <1>b, AnswerTypes DEF CrawlInv, Types
  <2> QED
    BY <1>1, <1>a, <2>1, <2>2, AnswerTypes DEF CrawlInv, Types
<1>3. Frontier'
  <2>1. \A u \in pages : queue[u] \notin Unclaimed \/ status = "gone"
    BY <1>1, <1>c DEF CrawlInv, Claiming
  <2>2. \A u \in Urls : task'[u] # "none" => queue[u] \notin Unclaimed \/ status = "gone"
    BY <1>d, <2>1 DEF CrawlInv, Frontier
  <2>3. \A u \in Urls : u \in inFlight' => task'[u] # "none"
    BY <1>b, <1>d DEF CrawlInv, Frontier
  <2> QED
    BY <1>1, <2>2, <2>3 DEF CrawlInv, Frontier
<1>4. Counters'
  BY <1>1 DEF CrawlInv, Counters, Completed, Failed, Queued
<1>5. Charges'
  <2>1. \A u \in Urls : task'[u] \in {"keep", "links"} => task[u] = task'[u]
    BY <1>d
  <2> QED
    BY <1>1, <2>1 DEF CrawlInv, Charges, ChargedIsKept
<1>6. Bounds'
  <2>1. PICK m \in Nat, n \in Nat, o \in Nat : m = Cardinality(inFlight) /\ n = Cardinality(pages)
                                               /\ o = Cardinality(claim.inFlight)
    <3>1. claim.inFlight \in SUBSET Urls /\ pages \in SUBSET Urls
      BY <1>c DEF CrawlInv, Types, ClaimInputs
    <3> QED
      BY <1>c, <3>1, SetSize
  <2>2. n <= claim.limit /\ claim.limit \in Nat
    BY <1>1, <1>c, <2>1, SubsetSize, SetSize DEF CrawlInv, Types, ClaimInputs, Claiming
  <2>3. /\ m <= o /\ claim.limit + o = MaxInFlight
        /\ finished + m <= PagesPerRun - 1 + o /\ finished \in Nat
    <3>1. claim.inFlight \in SUBSET Urls
      BY DEF CrawlInv, Types, ClaimInputs
    <3> QED
      BY <1>1, <2>1, <3>1, SubsetSize DEF CrawlInv, Types, Claiming
  <2>4. Cardinality(inFlight') \in Nat /\ Cardinality(inFlight') <= m + n
    <3>1. pages \in SUBSET Urls /\ inFlight' \in SUBSET Urls
      BY <1>b, <1>c
    <3> QED
      BY <1>b, <1>c, <2>1, <3>1, UnionSize, SetSize
  <2>5. /\ Cardinality(inFlight') <= MaxInFlight
        /\ finished + Cardinality(inFlight') <= PagesPerRun - 1 + MaxInFlight
    BY <2>1, <2>2, <2>3, <2>4, Sizes
  <2> QED
    BY <1>1, <1>a, <2>5 DEF CrawlInv, Bounds, Asks, Running, InFlightBounded
<1>7. Claiming'
  BY <1>1 DEF Claiming
<1>8. Once'
  <2>1. ~forgot => \A u \in pages : task[u] = "none"
    BY <1>1, <1>c DEF CrawlInv, Once
  <2>2. FetchedOnce'
    BY <1>a, <1>b, <2>1 DEF CrawlInv, Once, FetchedOnce
  <2>3. \A u \in Urls : Recorded(u)' => Recorded(u)
    BY <1>d DEF Recorded, Recording
  <2>4. \A u \in Urls : task'[u] \in {"slot", "scrape"} => reply'[u] = NoAnswer
    BY <1>d DEF CrawlInv, Once
  <2>5. ~forgot /\ ~failure /\ ~cutShort =>
          \A u \in Urls \ inFlight' : task'[u] # "none" => page[u] # "running"
    BY <1>b, <1>d DEF CrawlInv, Once
  <2> QED
    BY <1>1, <1>a, <2>2, <2>3, <2>4, <2>5 DEF CrawlInv, Once
<1>9. Closing'
  BY <1>1, <1>a DEF CrawlInv, Closing, ClosedForGood
<1> QED
  BY <1>2, <1>3, <1>4, <1>5, <1>6, <1>7, <1>8, <1>9 DEF CrawlInv

LEMMA StartPagesKeeps == ASSUME CrawlInv, StartPages PROVE CrawlInv'
<1>1. CASE cancelReq
  <2>1. /\ UNCHANGED <<rowVars, apiVars, late, history>> /\ Drain("cancelled") /\ pc = "claim"
        /\ cancelReq' = cancelReq /\ engine' = engine /\ perils' = perils
    BY <1>1 DEF StartPages, MainOnly, history
  <2>2. /\ cancelReq' \in BOOLEAN /\ engine' \in {"no", "asked", "delivered"}
        /\ perils' \in 0 .. MaxPerils
    BY <2>1 DEF CrawlInv, Types
  <2>3. "cancelled" \in Terminal
    BY DEF Terminal
  <2> QED
    BY <2>1, <2>2, <2>3, DrainKeeps
<1> QED
  BY <1>1, PagesBegin

(* A run that begins anew forgets a failure, and counts from nothing. *)
LEMMA NewRunKeeps ==
    ASSUME CrawlInv, MainOnly, pc = "settle", inFlight = {}, Goto("loop"),
           finished' = 0, failure' = FALSE, forgot' = (forgot \/ failure),
           UNCHANGED <<outcome, inFlight, task, reply, woken, stop>>,
           UNCHANGED <<cancelReq, cutShort, gaveUp, twice>>
    PROVE  CrawlInv'
<1>1. /\ pc' = "loop" /\ ret' = NoAnswer /\ asked' = asked /\ claim' = claim
      /\ status' = status /\ queue' = queue /\ page' = page /\ queued' = queued
      /\ completed' = completed /\ failed' = failed /\ hooks' = hooks /\ ledger' = ledger
      /\ stored' = stored /\ request' = request /\ telling' = telling /\ deleting' = deleting
      /\ freed' = freed /\ late' = late /\ outcome' = outcome
  BY DEF Goto, MainOnly, rowVars, apiVars
<1>a. /\ cutShort' = cutShort /\ gaveUp' = gaveUp /\ twice' = twice
      /\ inFlight' = inFlight /\ task' = task /\ reply' = reply /\ woken' = woken /\ stop' = stop
      /\ cancelReq' = cancelReq /\ engine' = engine /\ perils' = perils
  BY DEF MainOnly
<1>2. Types'
  <2>1. forgot' \in BOOLEAN /\ failure' \in BOOLEAN /\ finished' \in Nat
    BY DEF CrawlInv, Types
  <2> QED
    BY <1>1, <1>a, <2>1, AnswerTypes DEF CrawlInv, Types
<1>3. Frontier'
  BY <1>1, <1>a DEF CrawlInv, Frontier
<1>4. Counters'
  BY <1>1 DEF CrawlInv, Counters, Completed, Failed, Queued
<1>5. Charges'
  BY <1>1, <1>a DEF CrawlInv, Charges, ChargedIsKept
<1>6. Bounds'
  <2>1. finished' + Cardinality(inFlight') <= PagesPerRun - 1 + MaxInFlight
    BY <1>a, FS_EmptySet, Sizes
  <2> QED
    BY <1>1, <1>a, <2>1 DEF CrawlInv, Bounds, Asks, Running, InFlightBounded
<1>7. Claiming'
  BY <1>1 DEF Claiming
<1>8. Once'
  <2>1. \A u \in Urls : Recorded(u)' => Recorded(u)
    BY <1>a DEF Recorded
  <2>2. ~forgot' => ~forgot /\ ~failure
    OBVIOUS
  <2>3. FetchedOnce'
    BY <1>a, <2>2 DEF CrawlInv, Once, FetchedOnce
  <2>4. ~forgot' /\ ~cutShort => \A u \in Urls \ inFlight : task[u] # "none" => page[u] # "running"
    BY <2>2 DEF CrawlInv, Once
  <2>5. \A u \in Urls : task[u] \in {"slot", "scrape"} => reply[u] = NoAnswer
    BY DEF CrawlInv, Once
  <2> QED
    BY <1>1, <1>a, <2>1, <2>3, <2>4, <2>5 DEF CrawlInv, Once
<1>9. Closing'
  BY <1>1, <1>a DEF CrawlInv, Closing, ClosedForGood
<1> QED
  BY <1>2, <1>3, <1>4, <1>5, <1>6, <1>7, <1>8, <1>9 DEF CrawlInv

LEMMA SettleKeeps == ASSUME CrawlInv, Settle PROVE CrawlInv'
<1>1. pc = "settle" /\ MainOnly /\ UNCHANGED <<cancelReq, cutShort, gaveUp, twice>>
  BY DEF Settle
<1>2. CASE /\ inFlight # {} /\ Goto("wait") /\ woken' = FALSE
           /\ UNCHANGED <<outcome, inFlight, task, reply, finished, stop, failure, forgot>>
  <2>1. /\ UNCHANGED <<inFlight, task, reply, finished, failure, outcome>>
        /\ UNCHANGED <<cancelReq, history>>
        /\ woken' \in BOOLEAN /\ stop' \in {"no", "stopped", "full"}
    BY <1>1, <1>2 DEF history, CrawlInv, Types
  <2> QED
    BY <1>1, <1>2, <2>1, GotoKeeps
<1>3. ASSUME NEW to \in Terminal, Finish(to), UNCHANGED <<pageVars, forgot>>  PROVE CrawlInv'
  BY <1>1, <1>3, FinishKeeps DEF history
<1>4. \A to \in {"failed", "cancelled", "completed"} : to \in Terminal
  BY DEF Terminal
<1> QED
  BY <1>1, <1>2, <1>3, <1>4, NewRunKeeps DEF Settle

(* Its end: on the answer of a finish_crawl, or without one. *)
LEMMA EndKeeps ==
    ASSUME CrawlInv, UNCHANGED <<rowVars, apiVars, late, forgot, twice, outcome>>,
           UNCHANGED <<task, reply, finished, woken, stop, failure, cancelReq>>, Goto("done"),
           pc \notin {"none", "done"},
           inFlight' \in {inFlight, {}}, inFlight' # inFlight => cutShort',
           cutShort' \in BOOLEAN, gaveUp' \in BOOLEAN, cutShort \in BOOLEAN,
           ~gaveUp' /\ ~cutShort' => Closed,
           engine' \in {"no", "asked", "delivered"}, perils' \in 0 .. MaxPerils
    PROVE  CrawlInv'
<1>1. /\ pc' = "done" /\ ret' = NoAnswer /\ asked' = asked /\ claim' = claim
      /\ status' = status /\ queue' = queue /\ page' = page /\ queued' = queued
      /\ completed' = completed /\ failed' = failed /\ hooks' = hooks /\ ledger' = ledger
      /\ stored' = stored /\ request' = request /\ telling' = telling /\ deleting' = deleting
      /\ freed' = freed /\ late' = late /\ outcome' = outcome
  BY DEF Goto, rowVars, apiVars
<1>a. /\ forgot' = forgot /\ twice' = twice /\ finished' = finished
      /\ task' = task /\ reply' = reply /\ woken' = woken /\ stop' = stop
      /\ failure' = failure /\ cancelReq' = cancelReq
  OBVIOUS
<1>b. ~cutShort /\ inFlight' \subseteq inFlight
  BY DEF CrawlInv, Closing
<1>2. Types'
  BY <1>1, <1>a, AnswerTypes DEF CrawlInv, Types
<1>3. Frontier'
  BY <1>1, <1>a, <1>b DEF CrawlInv, Frontier
<1>4. Counters'
  BY <1>1 DEF CrawlInv, Counters, Completed, Failed, Queued
<1>5. Charges'
  BY <1>1, <1>a DEF CrawlInv, Charges, ChargedIsKept
<1>6. Bounds'
  <2>1. /\ Cardinality(inFlight') <= Cardinality(inFlight) /\ Cardinality(inFlight) \in Nat
        /\ Cardinality(inFlight') \in Nat /\ finished \in Nat
    BY <1>b, Counted, SubsetSize, SetSize DEF CrawlInv, Types
  <2>2. /\ Cardinality(inFlight') <= MaxInFlight
        /\ finished + Cardinality(inFlight') <= PagesPerRun - 1 + MaxInFlight
    BY <2>1, Sizes DEF CrawlInv, Bounds, InFlightBounded
  <2> QED
    BY <1>1, <1>a, <2>2 DEF CrawlInv, Bounds, Asks, Running, InFlightBounded
<1>7. Claiming'
  BY <1>1 DEF Claiming
<1>8. Once'
  <2>1. \A u \in Urls : Recorded(u)' => Recorded(u)
    BY <1>a DEF Recorded
  <2>2. ~cutShort' => inFlight' = inFlight
    OBVIOUS
  <2>3. ~forgot /\ ~failure /\ ~cutShort' =>
          \A u \in Urls \ inFlight' : task[u] # "none" => page[u] # "running"
    BY <1>b, <2>2 DEF CrawlInv, Once
  <2> QED
    BY <1>1, <1>a, <2>1, <2>3 DEF CrawlInv, Once, FetchedOnce
<1>9. Closing'
  BY <1>1 DEF Closing, ClosedForGood, Closed, LeftOpen
<1> QED
  BY <1>2, <1>3, <1>4, <1>5, <1>6, <1>7, <1>8, <1>9 DEF CrawlInv

LEMMA FinishedKeeps == ASSUME CrawlInv, Finished PROVE CrawlInv'
<1>1. /\ pc = "finish" /\ Goto("done") /\ UNCHANGED <<rowVars, apiVars, late, forgot, twice, outcome>>
      /\ UNCHANGED <<task, reply, finished, woken, stop, failure, cancelReq>>
      /\ inFlight' = inFlight /\ cutShort' = cutShort /\ gaveUp' = gaveUp
      /\ engine' = engine /\ perils' = perils
  BY DEF Finished, MainOnly, pageVars, history
<1>2. /\ cutShort' \in BOOLEAN /\ gaveUp' \in BOOLEAN /\ cutShort \in BOOLEAN
      /\ engine' \in {"no", "asked", "delivered"} /\ perils' \in 0 .. MaxPerils
  BY <1>1 DEF CrawlInv, Types
<1>3. Closed
  BY DEF Finished, CrawlInv, Closing
<1> QED
  BY <1>1, <1>2, <1>3, EndKeeps

LEMMA CallGivesUpKeeps == ASSUME CrawlInv, CallGivesUp PROVE CrawlInv'
<1>1. /\ pc \in {"started", "seed", "claim", "finish"} /\ perils' \in 0 .. MaxPerils
      /\ UNCHANGED <<rowVars, apiVars, late, cancelReq, engine, cutShort, forgot, twice>>
      /\ cancelReq' \in BOOLEAN /\ engine' \in {"no", "asked", "delivered"}
      /\ cutShort \in BOOLEAN
  BY Sizes DEF CallGivesUp, Peril, CrawlInv, Types
<1>2. CASE pc = "finish"
  <2>1. /\ Goto("done") /\ gaveUp' = TRUE /\ UNCHANGED <<outcome, pageVars>>
        /\ UNCHANGED <<task, reply, finished, woken, stop, failure>> /\ inFlight' = inFlight
    BY <1>2 DEF CallGivesUp, pageVars
  <2> QED
    BY <1>1, <1>2, <2>1, EndKeeps
<1>3. CASE pc # "finish"
  <2>1. Drain("failed") /\ UNCHANGED history /\ "failed" \in Terminal
    BY <1>1, <1>3 DEF CallGivesUp, Terminal, history
  <2> QED
    BY <1>1, <2>1, DrainKeeps
<1> QED
  BY <1>2, <1>3

(* The request, the delete and the engine, as long as they touch no row. *)
LEMMA OutsideKeeps ==
    ASSUME CrawlInv, UNCHANGED <<rowVars, mainVars, pageVars, history, freed>>,
           cancelReq' \in BOOLEAN, engine' \in {"no", "asked", "delivered"}, telling' \in BOOLEAN,
           perils' \in 0 .. MaxPerils, request' \in {request, "refused", "over"},
           deleting' = deleting
    PROVE  CrawlInv'
<1>1. /\ pc' = pc /\ ret' = ret /\ asked' = asked /\ claim' = claim /\ late' = late
      /\ status' = status /\ queue' = queue /\ page' = page /\ queued' = queued
      /\ completed' = completed /\ failed' = failed /\ hooks' = hooks /\ ledger' = ledger
      /\ stored' = stored /\ freed' = freed /\ outcome' = outcome
  BY DEF rowVars, mainVars
<1>a. /\ cutShort' = cutShort /\ gaveUp' = gaveUp /\ forgot' = forgot /\ twice' = twice
      /\ inFlight' = inFlight /\ task' = task /\ reply' = reply /\ finished' = finished
      /\ woken' = woken /\ stop' = stop /\ failure' = failure
  BY DEF pageVars, history
<1>2. Types'
  BY <1>1, <1>a DEF CrawlInv, Types
<1>3. Frontier'
  BY <1>1, <1>a DEF CrawlInv, Frontier
<1>4. Counters'
  BY <1>1 DEF CrawlInv, Counters, Completed, Failed, Queued
<1>5. Charges'
  BY <1>1, <1>a DEF CrawlInv, Charges, ChargedIsKept
<1>6. Bounds'
  BY <1>1, <1>a DEF CrawlInv, Bounds, Asks, Running, InFlightBounded
<1>7. Claiming'
  BY <1>1, <1>a DEF CrawlInv, Claiming
<1>8. Once'
  <2>1. \A u \in Urls : Recorded(u)' => Recorded(u)
    BY <1>a DEF Recorded
  <2> QED
    BY <1>1, <1>a, <2>1 DEF CrawlInv, Once, FetchedOnce
<1>9. Closing'
  BY <1>1, <1>a DEF CrawlInv, Closing, ClosedForGood, Closed, LeftOpen
<1> QED
  BY <1>2, <1>3, <1>4, <1>5, <1>6, <1>7, <1>8, <1>9 DEF CrawlInv

LEMMA DeliverCancelKeeps == ASSUME CrawlInv, DeliverCancel PROVE CrawlInv'
<1>1. /\ UNCHANGED <<rowVars, apiVars, late, gaveUp, forgot, twice, perils>>
      /\ engine' = "delivered" /\ perils' \in 0 .. MaxPerils
      /\ cutShort \in BOOLEAN /\ gaveUp' \in BOOLEAN
  BY DEF DeliverCancel, CrawlInv, Types
<1>2. CASE /\ pc \in {"wait", "started", "seed", "claim"} /\ cancelReq' = TRUE
           /\ Drain("cancelled") /\ UNCHANGED cutShort
  BY <1>1, <1>2, DrainKeeps DEF Terminal, history
<1>3. CASE /\ pc \in {"started", "seed", "claim", "finish"} /\ cancelReq' = TRUE
           /\ UNCHANGED <<pc, ret, claim, asked, outcome, pageVars, cutShort>>
  <2>1. /\ UNCHANGED <<rowVars, mainVars, pageVars, history, freed>>
        /\ telling' = telling /\ request' = request /\ deleting' = deleting
    BY <1>1, <1>3 DEF mainVars, history, apiVars
  <2>2. telling' \in BOOLEAN
    BY <2>1 DEF CrawlInv, Types
  <2> QED
    BY <1>1, <1>3, <2>1, <2>2, OutsideKeeps
<1>4. CASE /\ pc = "drain" /\ inFlight # {} /\ Goto("done")
           /\ cutShort' = TRUE /\ inFlight' = {}
           /\ UNCHANGED <<outcome, task, reply, finished, woken, stop, failure, cancelReq>>
  BY <1>1, <1>4, EndKeeps
<1> QED
  BY <1>2, <1>3, <1>4 DEF DeliverCancel

-----------------------------------------------------------------------------
(* The API *)

LEMMA TellEngineKeeps == ASSUME CrawlInv, TellEngine PROVE CrawlInv'
<1>1. /\ UNCHANGED <<rowVars, mainVars, pageVars, history, freed>> /\ telling' = FALSE
      /\ request' = request /\ deleting' = deleting /\ perils' = perils
      /\ cancelReq' = cancelReq /\ engine' \in {engine, "asked"}
  BY DEF TellEngine
<1>2. /\ cancelReq' \in BOOLEAN /\ engine' \in {"no", "asked", "delivered"}
      /\ perils' \in 0 .. MaxPerils
  BY <1>1 DEF CrawlInv, Types
<1> QED
  BY <1>1, <1>2, OutsideKeeps

(* A request that ends without a workflow. *)
LEMMA NotStartedKeeps == ASSUME CrawlInv, StartRefused \/ ApiDies PROVE CrawlInv'
<1>1. /\ UNCHANGED <<rowVars, mainVars, pageVars, history, freed>> /\ telling' = telling
      /\ request' \in {"refused", "over"} /\ deleting' = deleting
      /\ cancelReq' = cancelReq /\ engine' = engine
  BY DEF StartRefused, ApiDies
<1>2. /\ cancelReq' \in BOOLEAN /\ engine' \in {"no", "asked", "delivered"}
      /\ telling' \in BOOLEAN
  BY <1>1 DEF CrawlInv, Types
<1>3. perils' \in 0 .. MaxPerils
  BY Sizes DEF StartRefused, ApiDies, Peril, CrawlInv, Types
<1> QED
  BY <1>1, <1>2, <1>3, OutsideKeeps

-----------------------------------------------------------------------------
(* The page tasks *)

(* A page's task goes on: it has fetched before it keeps, and its record   *)
(* is made before it admits the links.                                     *)
LEMMA TaskKeeps ==
    ASSUME CrawlInv, NEW u \in Urls, NEW from, NEW to \in {"scrape", "keep", "fail", "links"},
           Step(u, from, to), "none" \notin from,
           UNCHANGED <<status, queue, page, queued, completed, failed, hooks, ledger>>,
           UNCHANGED <<apiVars, mainVars, inFlight, finished, woken, failure, cancelReq, engine>>,
           UNCHANGED <<history, perils>>, stop' \in {"no", "stopped", "full"},
           stored' \subseteq Urls, stored \subseteq stored', to = "keep" => u \in stored',
           to = "links" => task[u] = "keep" /\ page[u] # "running"
    PROVE  CrawlInv'
<1>1. /\ pc' = pc /\ ret' = ret /\ asked' = asked /\ claim' = claim /\ late' = late
      /\ status' = status /\ queue' = queue /\ page' = page /\ queued' = queued
      /\ completed' = completed /\ failed' = failed /\ hooks' = hooks /\ ledger' = ledger
      /\ freed' = freed /\ outcome' = outcome /\ request' = request
      /\ telling' = telling /\ deleting' = deleting
  BY DEF mainVars, apiVars
<1>a. /\ cutShort' = cutShort /\ gaveUp' = gaveUp /\ forgot' = forgot /\ twice' = twice
      /\ inFlight' = inFlight /\ finished' = finished /\ woken' = woken /\ failure' = failure
      /\ cancelReq' = cancelReq /\ engine' = engine /\ perils' = perils
  BY DEF history
<1>b. /\ u \in inFlight /\ task[u] \in from /\ task[u] # "none"
      /\ task' = [task EXCEPT ![u] = to] /\ reply' = [reply EXCEPT ![u] = NoAnswer]
  BY DEF Step
<1>c. /\ task' \in [Urls -> {"none", "slot", "scrape", "links"} \cup Recording]
      /\ reply' \in [Urls -> Answers]
      /\ task'[u] = to /\ reply'[u] = NoAnswer
      /\ \A v \in Urls : v # u => task'[v] = task[v] /\ reply'[v] = reply[v]
  BY <1>b, AnswerTypes DEF CrawlInv, Types, Recording
<1>2. Types'
  BY <1>1, <1>a, <1>c DEF CrawlInv, Types
<1>3. Frontier'
  <2>1. \A v \in Urls : /\ task'[v] # "none" => queue[v] \notin Unclaimed \/ status = "gone"
                        /\ v \in inFlight => task'[v] # "none"
    BY <1>b, <1>c DEF CrawlInv, Frontier
  <2> QED
    BY <1>1, <1>a, <2>1 DEF CrawlInv, Frontier
<1>4. Counters'
  BY <1>1 DEF CrawlInv, Counters, Completed, Failed, Queued
<1>5. Charges'
  <2>1. \A v \in Urls : task'[v] \in {"keep", "links"} /\ page[v] = "running" => v \in stored'
    BY <1>c DEF CrawlInv, Charges
  <2>2. ledger \ freed \subseteq stored'
    BY DEF CrawlInv, Charges, ChargedIsKept
  <2> QED
    BY <1>1, <2>1, <2>2 DEF CrawlInv, Charges, ChargedIsKept
<1>6. Bounds'
  BY <1>1, <1>a DEF CrawlInv, Bounds, Asks, Running, InFlightBounded
<1>7. Claiming'
  BY <1>1, <1>a DEF CrawlInv, Claiming
<1>8. Once'
  <2>1. \A v \in Urls : Recorded(v)' => page[v] # "running"
    <3> SUFFICES ASSUME NEW v \in Urls, Recorded(v)'  PROVE page[v] # "running"
      OBVIOUS
    <3>1. CASE v = u
      BY <1>c, <3>1 DEF Recorded
    <3>2. CASE v # u
      BY <1>c, <3>2 DEF CrawlInv, Once, Recorded
    <3> QED
      BY <3>1, <3>2
  <2>2. \A v \in Urls : task'[v] \in {"slot", "scrape"} => reply'[v] = NoAnswer
    BY <1>c DEF CrawlInv, Once
  <2>3. ~forgot /\ ~failure /\ ~cutShort =>
          \A v \in Urls \ inFlight : task'[v] # "none" => page[v] # "running"
    BY <1>b, <1>c DEF CrawlInv, Once
  <2>4. ~forgot /\ pc = "claim" =>
          /\ \A v \in Urls \ claim.inFlight : task'[v] # "none" => page[v] # "running"
          /\ \A v \in ret.pages : task'[v] = "none"
    <3> SUFFICES ASSUME ~forgot, pc = "claim"
                 PROVE  /\ \A v \in Urls \ claim.inFlight : task'[v] # "none" => page[v] # "running"
                        /\ \A v \in ret.pages : task'[v] = "none"
      OBVIOUS
    <3>1. u \in claim.inFlight /\ u \notin ret.pages /\ ret.pages \subseteq Urls
      BY <1>b DEF CrawlInv, Types, Answers, Claiming, Once
    <3> QED
      BY <1>c, <3>1 DEF CrawlInv, Once
  <2> QED
    BY <1>1, <1>a, <2>1, <2>2, <2>3, <2>4 DEF CrawlInv, Once, FetchedOnce
<1>9. Closing'
  BY <1>1, <1>a DEF CrawlInv, Closing, ClosedForGood, Closed, LeftOpen
<1> QED
  BY <1>2, <1>3, <1>4, <1>5, <1>6, <1>7, <1>8, <1>9 DEF CrawlInv

(* A page's task ends, its page recorded or the failure set. *)
LEMMA PageEndKeeps ==
    ASSUME CrawlInv, NEW u \in inFlight, EndPage(u),
           UNCHANGED <<rowVars, apiVars, mainVars, cancelReq, engine, history>>,
           stop' \in {"no", "stopped", "full"}, failure' \in {failure, TRUE},
           perils' \in 0 .. MaxPerils, page[u] # "running" \/ failure' = TRUE
    PROVE  CrawlInv'
<1>1. /\ pc' = pc /\ ret' = ret /\ asked' = asked /\ claim' = claim /\ late' = late
      /\ status' = status /\ queue' = queue /\ page' = page /\ queued' = queued
      /\ completed' = completed /\ failed' = failed /\ hooks' = hooks /\ ledger' = ledger
      /\ stored' = stored /\ freed' = freed /\ outcome' = outcome /\ request' = request
      /\ telling' = telling /\ deleting' = deleting
  BY DEF rowVars, mainVars, apiVars
<1>a. /\ cutShort' = cutShort /\ gaveUp' = gaveUp /\ forgot' = forgot /\ twice' = twice
      /\ cancelReq' = cancelReq /\ engine' = engine
      /\ inFlight' = inFlight \ {u} /\ finished' = finished + 1 /\ woken' = TRUE
      /\ task' = task /\ reply' = reply
  BY DEF history, EndPage
<1>b. inFlight \in SUBSET Urls /\ u \in Urls /\ finished \in Nat
  BY DEF CrawlInv, Types
<1>2. Types'
  <2>1. failure' \in BOOLEAN
    BY DEF CrawlInv, Types
  <2>2. woken' \in BOOLEAN
    BY <1>a
  <2>3. finished' \in Nat /\ inFlight' \subseteq Urls
    BY <1>a, <1>b
  <2> QED
    BY <1>1, <1>a, <2>1, <2>2, <2>3 DEF CrawlInv, Types
<1>3. Frontier'
  BY <1>1, <1>a DEF CrawlInv, Frontier
<1>4. Counters'
  BY <1>1 DEF CrawlInv, Counters, Completed, Failed, Queued
<1>5. Charges'
  BY <1>1, <1>a DEF CrawlInv, Charges, ChargedIsKept
<1>c. /\ Cardinality(inFlight) \in Nat /\ Cardinality(inFlight') = Cardinality(inFlight) - 1
      /\ finished' + Cardinality(inFlight') = finished + Cardinality(inFlight)
  <2>1. Cardinality(inFlight) \in Nat /\ Cardinality(inFlight') = Cardinality(inFlight) - 1
    BY <1>a, <1>b, SetSize, RemoveSize
  <2> QED
    BY <1>a, <1>b, <2>1
<1>6. Bounds'
  <2>1. /\ Cardinality(inFlight') <= MaxInFlight
        /\ finished' + Cardinality(inFlight') <= PagesPerRun - 1 + MaxInFlight
    BY <1>c, Sizes DEF CrawlInv, Bounds, InFlightBounded
  <2> QED
    BY <1>1, <2>1 DEF CrawlInv, Bounds, Asks, Running, InFlightBounded
<1>7. Claiming'
  BY <1>1, <1>a, <1>c DEF CrawlInv, Claiming
<1>8. Once'
  <2>1. \A v \in Urls : Recorded(v)' => Recorded(v)
    BY <1>a DEF Recorded
  <2>2. ~forgot /\ ~failure' /\ ~cutShort =>
          \A v \in Urls \ inFlight' : task[v] # "none" => page[v] # "running"
    BY <1>a DEF CrawlInv, Once
  <2> QED
    BY <1>1, <1>a, <2>1, <2>2 DEF CrawlInv, Once, FetchedOnce
<1>9. Closing'
  BY <1>1, <1>a DEF CrawlInv, Closing, ClosedForGood, Closed, LeftOpen
<1> QED
  BY <1>2, <1>3, <1>4, <1>5, <1>6, <1>7, <1>8, <1>9 DEF CrawlInv

LEMMA FetchKeeps ==
    ASSUME CrawlInv, NEW u \in Urls, SlotGranted(u) \/ Scraped(u) \/ ScrapeFails(u)
    PROVE  CrawlInv'
<1>1. /\ UNCHANGED <<status, queue, page, queued, completed, failed, hooks, ledger>>
      /\ UNCHANGED <<apiVars, mainVars, inFlight, finished, woken, failure, cancelReq, engine>>
      /\ UNCHANGED <<history, perils>> /\ stop' = stop /\ stored' \in {stored, stored \cup {u}}
  BY DEF SlotGranted, Scraped, ScrapeFails, PageOnly, rowVars
<1>2. stop' \in {"no", "stopped", "full"} /\ stored' \subseteq Urls /\ stored \subseteq stored'
  BY <1>1 DEF CrawlInv, Types
<1>3. CASE SlotGranted(u)
  BY <1>1, <1>2, <1>3, TaskKeeps DEF SlotGranted
<1>4. CASE Scraped(u)
  BY <1>1, <1>2, <1>4, TaskKeeps DEF Scraped
<1>5. CASE ScrapeFails(u)
  BY <1>1, <1>2, <1>5, TaskKeeps DEF ScrapeFails
<1> QED
  BY <1>3, <1>4, <1>5

LEMMA PageRecordedKeeps == ASSUME CrawlInv, NEW u \in Urls, PageRecorded(u) PROVE CrawlInv'
<1>1. /\ u \in inFlight /\ task[u] \in Recording /\ reply[u] # NoAnswer
      /\ UNCHANGED <<rowVars, apiVars, mainVars, cancelReq, engine, history>>
      /\ failure' = failure /\ perils' = perils
      /\ stop' \in {"no", "stopped", "full"} /\ perils' \in 0 .. MaxPerils
  BY DEF PageRecorded, PageOnly, StopFor, CrawlInv, Types
<1>2. page[u] # "running"
  BY <1>1 DEF CrawlInv, Once, Recorded
<1>3. CASE EndPage(u)
  BY <1>1, <1>2, <1>3, PageEndKeeps
<1>4. CASE /\ task[u] = "keep" /\ Step(u, {"keep"}, "links")
           /\ UNCHANGED <<inFlight, finished, woken>>
  <2>1. /\ UNCHANGED <<status, queue, page, queued, completed, failed, hooks, ledger>>
        /\ UNCHANGED <<apiVars, mainVars, inFlight, finished, woken, failure, cancelReq, engine>>
        /\ UNCHANGED <<history, perils>> /\ stored' = stored
    BY <1>1, <1>4 DEF rowVars
  <2>2. stored' \subseteq Urls
    BY <2>1 DEF CrawlInv, Types
  <2> QED
    BY <1>1, <1>2, <1>4, <2>1, <2>2, TaskKeeps
<1> QED
  BY <1>3, <1>4 DEF PageRecorded

LEMMA LinksAdmittedKeeps == ASSUME CrawlInv, NEW u \in Urls, LinksAdmitted(u) PROVE CrawlInv'
<1>1. /\ u \in inFlight /\ task[u] = "links" /\ EndPage(u)
      /\ UNCHANGED <<rowVars, apiVars, mainVars, cancelReq, engine, history>>
      /\ failure' = failure /\ perils' = perils
      /\ stop' \in {"no", "stopped", "full"} /\ perils' \in 0 .. MaxPerils
  BY DEF LinksAdmitted, PageOnly, CrawlInv, Types
<1>2. page[u] # "running"
  BY <1>1 DEF CrawlInv, Once, Recorded
<1> QED
  BY <1>1, <1>2, PageEndKeeps

LEMMA PageGivesUpKeeps == ASSUME CrawlInv, NEW u \in Urls, PageGivesUp(u) PROVE CrawlInv'
<1>1. /\ u \in inFlight /\ EndPage(u) /\ failure' = TRUE /\ stop' = stop
      /\ UNCHANGED <<rowVars, apiVars, mainVars, cancelReq, engine, history>>
  BY DEF PageGivesUp, PageOnly, AwaitsPage
<1>2. stop' \in {"no", "stopped", "full"} /\ perils' \in 0 .. MaxPerils
  BY <1>1, Sizes DEF PageGivesUp, Peril, CrawlInv, Types
<1> QED
  BY <1>1, <1>2, PageEndKeeps

-----------------------------------------------------------------------------
(* The activities *)

LEMMA CrawlStartedKeeps == ASSUME CrawlInv, CrawlStarted PROVE CrawlInv'
<1>1. /\ pc' = pc /\ asked' = asked /\ claim' = claim /\ late' = late
      /\ queue' = queue /\ page' = page /\ queued' = queued
      /\ completed' = completed /\ failed' = failed /\ hooks' = hooks /\ ledger' = ledger
      /\ stored' = stored /\ freed' = freed /\ outcome' = outcome /\ request' = request
      /\ telling' = telling /\ deleting' = deleting
      /\ status' = IF status = "queued" THEN "running" ELSE status
  BY DEF CrawlStarted, apiVars
<1>a. /\ cutShort' = cutShort /\ gaveUp' = gaveUp /\ forgot' = forgot /\ twice' = twice
      /\ inFlight' = inFlight /\ task' = task /\ reply' = reply /\ finished' = finished
      /\ woken' = woken /\ stop' = stop /\ failure' = failure
      /\ cancelReq' = cancelReq /\ engine' = engine
  BY DEF CrawlStarted, pageVars, history
<1>b. /\ status \in Statuses /\ status' \in Statuses /\ (status' = "gone" <=> status = "gone")
      /\ (status' \in Open <=> status \in Open) /\ Hear("started", Said(status'))
      /\ asked \subseteq {"started", "seed", "claim", "finish"} /\ (status' = "none" <=> status = "none")
  BY <1>1 DEF CrawlStarted, CrawlInv, Types, Statuses, Open, Terminal
<1>c. /\ ret' \in Answers /\ perils' \in 0 .. MaxPerils
      /\ ret' = ret \/ (pc = "started" /\ ret = NoAnswer)
  BY <1>b, AnswerTypes, Heard DEF CrawlInv
<1>2. Types'
  BY <1>1, <1>a, <1>b, <1>c DEF CrawlInv, Types
<1>3. Frontier'
  BY <1>1, <1>a, <1>b DEF CrawlInv, Frontier
<1>4. Counters'
  BY <1>1 DEF CrawlInv, Counters, Completed, Failed, Queued
<1>5. Charges'
  BY <1>1, <1>a DEF CrawlInv, Charges, ChargedIsKept
<1>6. Bounds'
  BY <1>1, <1>a DEF CrawlInv, Bounds, Asks, Running, InFlightBounded
<1>7. Claiming'
  BY <1>1, <1>a, <1>b, <1>c DEF CrawlInv, Claiming
<1>8. Once'
  <2>1. \A u \in Urls : Recorded(u)' => Recorded(u)
    BY <1>a DEF Recorded
  <2> QED
    BY <1>1, <1>a, <1>c, <2>1 DEF CrawlInv, Once, FetchedOnce
<1>9. Closing'
  BY <1>1, <1>a, <1>b, <1>c DEF CrawlInv, Closing, ClosedForGood, Closed, LeftOpen
<1> QED
  BY <1>2, <1>3, <1>4, <1>5, <1>6, <1>7, <1>8, <1>9 DEF CrawlInv

(* An admission gives a row to URLs that had none, while there is room. *)
LEMMA AdmitsRows ==
    ASSUME CrawlInv, NEW found \in SUBSET Urls, NEW taken \in SUBSET found,
           NEW refused \in SUBSET found, Admits(found, taken, refused)
    PROVE  /\ queue' \in [Urls -> {"unseen", "pending", "dispatched", "completed", "failed",
                                   "skipped", "dropped"}]
           /\ \A u \in Urls : \/ queue'[u] = queue[u]
                              \/ queue[u] = "unseen" /\ queue'[u] \in {"pending", "dropped"}
           /\ queued' = Cardinality(Queued)' /\ queued' <= MaxPages
<1> DEFINE fresh == {u \in found : queue[u] = "unseen"}
<1>1. /\ queue' = [u \in Urls |-> IF u \in taken THEN "pending"
                                  ELSE IF u \in refused THEN "dropped" ELSE queue[u]]
      /\ queued' = queued + Cardinality(taken)
      /\ Cardinality(taken) = SmallerOf(Room, Cardinality(fresh \ refused))
      /\ taken \subseteq fresh \ refused /\ refused \subseteq fresh
  BY DEF Admits, Refuses
<1>2. /\ queue \in [Urls -> {"unseen", "pending", "dispatched", "completed", "failed", "skipped",
                             "dropped"}]
      /\ taken \in SUBSET Urls /\ refused \in SUBSET Urls /\ fresh \in SUBSET Urls
      /\ (fresh \ refused) \in SUBSET Urls
      /\ \A u \in fresh : queue[u] = "unseen"
  BY DEF CrawlInv, Types
<1>3. /\ Cardinality(taken) \in Nat /\ Cardinality(fresh \ refused) \in Nat /\ queued \in Nat
      /\ queued = Cardinality(Queued) /\ Queued \in SUBSET Urls /\ MaxPages - queued \in Nat
  BY <1>2, SetSize, Counted, Sizes DEF CrawlInv, Counters
<1> HIDE DEF fresh
<1>4. Cardinality(taken) <= MaxPages - queued
  BY <1>1, <1>3, Smaller DEF Room
<1>5. Queued' = Queued \cup taken /\ Queued \cap taken = {}
  BY <1>1, <1>2 DEF Queued
<1>6. Cardinality(Queued)' = Cardinality(Queued) + Cardinality(taken)
  BY <1>2, <1>3, <1>5, UnionSize
<1>7. queued' = Cardinality(Queued)' /\ queued' <= MaxPages
  BY <1>1, <1>3, <1>4, <1>6, Sizes
<1> QED
  BY <1>1, <1>2, <1>7

LEMMA AdmissionKeeps ==
    ASSUME CrawlInv,
           queue' \in [Urls -> {"unseen", "pending", "dispatched", "completed", "failed",
                                "skipped", "dropped"}],
           \A u \in Urls : \/ queue'[u] = queue[u]
                           \/ /\ queue[u] = "unseen" /\ queue'[u] \in {"pending", "dropped"}
                              /\ status = "running",
           queued' = Cardinality(Queued)', queued' <= MaxPages,
           UNCHANGED <<status, page, completed, failed, hooks, ledger, stored, apiVars, pc, claim,
                       late, asked, outcome, cancelReq, engine, history>>,
           UNCHANGED <<inFlight, task, finished, woken, stop, failure>>,
           ret' \in Answers, perils' \in 0 .. MaxPerils, ret' = ret \/ pc = "seed",
           reply' \in [Urls -> Answers],
           \A u \in Urls : reply'[u] = reply[u] \/ task[u] = "links"
    PROVE  CrawlInv'
<1>1. /\ pc' = pc /\ asked' = asked /\ claim' = claim /\ late' = late
      /\ status' = status /\ page' = page
      /\ completed' = completed /\ failed' = failed /\ hooks' = hooks /\ ledger' = ledger
      /\ stored' = stored /\ freed' = freed /\ outcome' = outcome /\ request' = request
      /\ telling' = telling /\ deleting' = deleting
  BY DEF apiVars
<1>a. /\ cutShort' = cutShort /\ gaveUp' = gaveUp /\ forgot' = forgot /\ twice' = twice
      /\ inFlight' = inFlight /\ task' = task /\ finished' = finished
      /\ woken' = woken /\ stop' = stop /\ failure' = failure
      /\ cancelReq' = cancelReq /\ engine' = engine
  BY DEF history
<1>2. Types'
  BY <1>1, <1>a DEF CrawlInv, Types
<1>3. Frontier'
  <2>1. \A u \in Urls :
          /\ queue'[u] \in Unclaimed => page[u] = "none"
          /\ queue'[u] = "dispatched" <=> page[u] = "running"
          /\ task[u] # "none" => queue'[u] \notin Unclaimed \/ status = "gone"
          /\ status = "gone" => queue'[u] = "unseen" /\ page[u] = "none"
    BY DEF CrawlInv, Frontier, Unclaimed
  <2> QED
    BY <1>1, <1>a, <2>1 DEF CrawlInv, Frontier
<1>4. Counters'
  BY <1>1 DEF CrawlInv, Counters, Completed, Failed
<1>5. Charges'
  BY <1>1, <1>a DEF CrawlInv, Charges, ChargedIsKept
<1>6. Bounds'
  BY <1>1, <1>a DEF CrawlInv, Bounds, Asks, Running, InFlightBounded
<1>7. Claiming'
  <2>1. pc = "claim" => /\ ret' = ret /\ ret.pages \subseteq Urls
                        /\ \A u \in ret.pages : queue'[u] \notin Unclaimed \/ status = "gone"
    BY DEF CrawlInv, Types, Answers, Claiming, Unclaimed
  <2> QED
    BY <1>1, <1>a, <2>1 DEF CrawlInv, Claiming
<1>8. Once'
  <2>1. \A u \in Urls : Recorded(u)' => Recorded(u)
    BY <1>a DEF Recorded
  <2>2. \A u \in Urls : task[u] \in {"slot", "scrape"} => reply'[u] = NoAnswer
    BY DEF CrawlInv, Once
  <2> QED
    BY <1>1, <1>a, <2>1, <2>2 DEF CrawlInv, Once, FetchedOnce
<1>9. Closing'
  <2>1. Closed => Closed'
    BY <1>1 DEF Closed, LeftOpen, Open
  <2>2. ClosedForGood'
    BY <1>1, <1>a, <2>1 DEF CrawlInv, Closing, ClosedForGood, Closed
  <2> QED
    BY <1>1, <1>a, <2>1, <2>2 DEF CrawlInv, Closing
<1> QED
  BY <1>2, <1>3, <1>4, <1>5, <1>6, <1>7, <1>8, <1>9 DEF CrawlInv

LEMMA AdmitSeedKeeps == ASSUME CrawlInv, AdmitSeed PROVE CrawlInv'
<1>1. /\ UNCHANGED <<status, page, completed, failed, hooks, ledger, stored, apiVars, pc, claim,
                     late, asked, outcome, cancelReq, engine, history>>
      /\ UNCHANGED <<inFlight, task, finished, woken, stop, failure>> /\ reply' = reply
  BY DEF AdmitSeed, pageVars
<1>2. reply' \in [Urls -> Answers] /\ \A u \in Urls : reply'[u] = reply[u] \/ task[u] = "links"
  BY <1>1 DEF CrawlInv, Types
<1>3. CASE ~Admitting
  <2>1. queue' = queue /\ queued' = queued /\ Hear("seed", Said(status))
    BY <1>3 DEF AdmitSeed
  <2>2. Said(status) \in Answers
    BY AnswerTypes DEF CrawlInv, Types
  <2>3. ret' \in Answers /\ perils' \in 0 .. MaxPerils /\ (ret' = ret \/ pc = "seed")
    BY <2>1, <2>2, Heard DEF CrawlInv
  <2>4. /\ queue' \in [Urls -> {"unseen", "pending", "dispatched", "completed", "failed",
                                "skipped", "dropped"}]
        /\ queued' = Cardinality(Queued)' /\ queued' <= MaxPages
        /\ \A u \in Urls : queue'[u] = queue[u]
    BY <2>1 DEF CrawlInv, Types, Counters, Queued
  <2> QED
    BY <1>1, <1>2, <2>3, <2>4, AdmissionKeeps
<1>4. CASE Admitting
  <2>1. PICK taken \in SUBSET {Seed}, refused \in SUBSET {Seed} :
          /\ Admits({Seed}, taken, refused)
          /\ Hear("seed", [Said("running") EXCEPT !.refused = taken = {} /\ refused # {}])
    BY <1>4 DEF AdmitSeed
  <2>2. [Said("running") EXCEPT !.refused = taken = {} /\ refused # {}] \in Answers
    <3>1. PICK r \in BOOLEAN : r = (taken = {} /\ refused # {})
      OBVIOUS
    <3>2. [Said("running") EXCEPT !.refused = r] \in Answers
      BY DEF Said, Answers, Statuses, Open
    <3> QED
      BY <3>1, <3>2
  <2>3. ret' \in Answers /\ perils' \in 0 .. MaxPerils /\ (ret' = ret \/ pc = "seed")
    BY <2>1, <2>2, Heard DEF CrawlInv
  <2>4. {Seed} \in SUBSET Urls /\ status = "running"
    BY <1>4, SeedAssumption DEF Admitting
  <2>5. /\ queue' \in [Urls -> {"unseen", "pending", "dispatched", "completed", "failed",
                                "skipped", "dropped"}]
        /\ queued' = Cardinality(Queued)' /\ queued' <= MaxPages
        /\ \A u \in Urls : \/ queue'[u] = queue[u]
                           \/ /\ queue[u] = "unseen" /\ queue'[u] \in {"pending", "dropped"}
                              /\ status = "running"
    BY <2>1, <2>4, AdmitsRows
  <2> QED
    BY <1>1, <1>2, <2>3, <2>5, AdmissionKeeps
<1> QED
  BY <1>3, <1>4

LEMMA AdmitLinksKeeps == ASSUME CrawlInv, NEW n \in Urls, AdmitLinks(n) PROVE CrawlInv'
<1>1. /\ UNCHANGED <<status, page, completed, failed, hooks, ledger, stored, apiVars, pc, claim,
                     late, asked, outcome, cancelReq, engine, history>>
      /\ UNCHANGED <<inFlight, task, finished, woken, stop, failure>>
      /\ ret' = ret /\ perils' = perils /\ task[n] = "links"
      /\ HearPage(n, {"links"}, Said(status))
  BY DEF AdmitLinks, mainVars
<1>2. /\ reply' \in [Urls -> Answers]
      /\ \A u \in Urls : reply'[u] = reply[u] \/ task[u] = "links"
  <2>1. Said(status) \in Answers
    BY AnswerTypes DEF CrawlInv, Types
  <2> QED
    BY <1>1, <2>1, HeardPage DEF CrawlInv
<1>3. ret' \in Answers /\ perils' \in 0 .. MaxPerils
  BY <1>1 DEF CrawlInv, Types
<1>4. /\ queue' \in [Urls -> {"unseen", "pending", "dispatched", "completed", "failed",
                              "skipped", "dropped"}]
      /\ queued' = Cardinality(Queued)' /\ queued' <= MaxPages
      /\ \A u \in Urls : \/ queue'[u] = queue[u]
                         \/ /\ queue[u] = "unseen" /\ queue'[u] \in {"pending", "dropped"}
                            /\ status = "running"
  <2>1. CASE ~Admitting
    <3>1. queue' = queue /\ queued' = queued
      BY <2>1 DEF AdmitLinks
    <3> QED
      BY <3>1 DEF CrawlInv, Types, Counters, Queued
  <2>2. CASE Admitting
    <3>1. ExtractLinks(n) \in SUBSET Urls /\ status = "running"
      BY <2>2, LinksAssumption DEF ExtractLinks, Admitting
    <3> QED
      BY <2>2, <3>1, AdmitsRows DEF AdmitLinks
  <2> QED
    BY <2>1, <2>2
<1> QED
  BY <1>1, <1>2, <1>3, <1>4, AdmissionKeeps

(* A claim's pages are at most its limit, and what it opens fits in flight *)
(* with what is claimed already: handed back, or in flight as it was told. *)
LEMMA ClaimSizes ==
    ASSUME CrawlInv, NEW in \in ClaimInputs, Asks(in), NEW old \in SUBSET HandedBack(in),
           NEW new \in SUBSET Pending, Claims(in, old, new)
    PROVE  /\ Cardinality(old \cup new) <= in.limit
           /\ Cardinality(Running \cup new) <= MaxInFlight
           /\ Cardinality(ledger) + Cardinality(Running \cup new) < Limit + MaxInFlight
           /\ new # {} => status = "running"
<1>1. /\ in.limit \in Nat /\ in.inFlight \in SUBSET Urls /\ old \in SUBSET Urls
      /\ new \in SUBSET Urls /\ HandedBack(in) \in SUBSET Urls /\ Pending \in SUBSET Urls
      /\ Running \in SUBSET Urls /\ (Running \cup new) \in SUBSET Urls
      /\ (old \cup new) \in SUBSET Urls /\ ledger \in SUBSET Urls
  BY Counted DEF HandedBack, Pending, ClaimInputs, CrawlInv
<1>2. PICK o \in Nat, n \in Nat, h \in Nat, p \in Nat, r \in Nat, i \in Nat, l \in Nat :
        /\ o = Cardinality(old) /\ n = Cardinality(new) /\ h = Cardinality(HandedBack(in))
        /\ p = Cardinality(Pending) /\ r = Cardinality(Running) /\ i = Cardinality(in.inFlight)
        /\ l = Cardinality(ledger)
  BY <1>1, SetSize
<1>3. /\ Cardinality(old \cup new) \in Nat /\ Cardinality(old \cup new) <= o + n
      /\ Cardinality(Running \cup new) \in Nat /\ Cardinality(Running \cup new) <= r + n
  BY <1>1, <1>2, SetSize, UnionSize
<1>4. r <= h + i
  <2>1. Running \subseteq HandedBack(in) \cup in.inFlight
    BY DEF Running, HandedBack, CrawlInv, Frontier
  <2>2. /\ (HandedBack(in) \cup in.inFlight) \in SUBSET Urls
        /\ Cardinality(HandedBack(in) \cup in.inFlight) \in Nat
        /\ Cardinality(HandedBack(in) \cup in.inFlight) <= h + i
    BY <1>1, <1>2, SetSize, UnionSize
  <2>3. r <= Cardinality(HandedBack(in) \cup in.inFlight)
    BY <1>2, <2>1, <2>2, SubsetSize
  <2> QED
    BY <2>2, <2>3
<1>5. in.limit + i <= MaxInFlight /\ r <= MaxInFlight /\ l + r < Limit + MaxInFlight
  BY <1>2 DEF Asks, CrawlInv, Bounds
<1>6. CASE status = "running" /\ ~Full(ledger)
  <2>1. o = SmallerOf(in.limit, h) /\ n = SmallerOf(in.limit - o, p) /\ l < Limit
    BY <1>2, <1>6, Sizes DEF Claims, NewPages, Full
  <2>2. o <= in.limit /\ (o = in.limit \/ o = h)
    BY <1>1, <1>2, <2>1 DEF SmallerOf
  <2>3. in.limit - o \in Nat
    BY <1>1, <2>2
  <2>4. n <= in.limit - o
    BY <2>1, <2>3, Smaller
  <2>5. r + n <= MaxInFlight
    BY <1>1, <1>4, <1>5, <2>2, <2>4, Sizes
  <2> QED
    BY <1>1, <1>2, <1>3, <1>5, <1>6, <2>1, <2>3, <2>4, <2>5, Sizes
<1>7. CASE ~(status = "running" /\ ~Full(ledger))
  <2>1. old = {} /\ new = {}
    BY <1>7 DEF Claims
  <2>2. Cardinality(old \cup new) = 0 /\ Running \cup new = Running
    BY <2>1, FS_EmptySet
  <2> QED
    BY <1>1, <1>2, <1>5, <2>1, <2>2
<1> QED
  BY <1>6, <1>7

LEMMA ClaimKeeps ==
    ASSUME CrawlInv, NEW in \in ClaimInputs, Asks(in), NEW old \in SUBSET HandedBack(in),
           NEW new \in SUBSET Pending, Claims(in, old, new),
           UNCHANGED <<status, queued, completed, failed, hooks, ledger, stored, apiVars, pc,
                       claim, asked, outcome, pageVars, cancelReq, engine, history>>,
           late' \in {late, NoClaim}, ret' \in Answers, perils' \in 0 .. MaxPerils,
           ret' = ret \/ (pc = "claim" /\ in = claim /\ ret'.pages = old \cup new)
    PROVE  CrawlInv'
<1>1. /\ pc' = pc /\ asked' = asked /\ claim' = claim /\ status' = status
      /\ queued' = queued /\ completed' = completed /\ failed' = failed /\ hooks' = hooks
      /\ ledger' = ledger /\ stored' = stored /\ freed' = freed /\ outcome' = outcome
      /\ request' = request /\ telling' = telling /\ deleting' = deleting
  BY DEF apiVars
<1>a. /\ cutShort' = cutShort /\ gaveUp' = gaveUp /\ forgot' = forgot /\ twice' = twice
      /\ inFlight' = inFlight /\ task' = task /\ reply' = reply /\ finished' = finished
      /\ woken' = woken /\ stop' = stop /\ failure' = failure
      /\ cancelReq' = cancelReq /\ engine' = engine
  BY DEF pageVars, history
<1>b. /\ queue' = [u \in Urls |-> IF u \in new THEN "dispatched" ELSE queue[u]]
      /\ page' = [u \in Urls |-> IF u \in new THEN "running" ELSE page[u]]
      /\ new \subseteq Urls /\ old \subseteq Urls
  BY DEF Claims, Pending, HandedBack
<1>c. /\ \A u \in new : queue'[u] = "dispatched" /\ page'[u] = "running"
      /\ \A u \in Urls : u \notin new => queue'[u] = queue[u] /\ page'[u] = page[u]
  BY <1>b
<1>d. \A u \in new : queue[u] = "pending" /\ page[u] = "none" /\ task[u] = "none" /\ status = "running"
  BY ClaimSizes DEF Pending, CrawlInv, Frontier, Unclaimed
<1>e. \A u \in old : queue[u] = "dispatched" /\ page[u] = "running" /\ u \notin in.inFlight
  BY <1>b DEF HandedBack, CrawlInv, Frontier
<1>2. Types'
  <2>1. /\ queue' \in [Urls -> {"unseen", "pending", "dispatched", "completed", "failed",
                                "skipped", "dropped"}]
        /\ page' \in [Urls -> {"none", "running", "completed", "failed", "cancelled"}]
    BY <1>b DEF CrawlInv, Types
  <2>2. late' \in ClaimInputs
    BY AnswerTypes DEF CrawlInv, Types
  <2> QED
    BY <1>1, <1>a, <2>1, <2>2 DEF CrawlInv, Types
<1>3. Frontier'
  <2>1. \A u \in Urls :
          /\ queue'[u] \in Unclaimed => page'[u] = "none"
          /\ queue'[u] = "dispatched" <=> page'[u] = "running"
          /\ task[u] # "none" => queue'[u] \notin Unclaimed \/ status = "gone"
          /\ status = "gone" => queue'[u] = "unseen" /\ page'[u] = "none"
    BY <1>c, <1>d DEF CrawlInv, Frontier, Unclaimed
  <2> QED
    BY <1>1, <1>a, <2>1 DEF CrawlInv, Frontier
<1>4. Counters'
  <2>1. Completed' = Completed /\ Failed' = Failed
    BY <1>b, <1>c, <1>d DEF Completed, Failed
  <2>2. Queued' = Queued
    BY <1>b, <1>c, <1>d DEF Queued
  <2> QED
    BY <1>1, <2>1, <2>2 DEF CrawlInv, Counters
<1>5. Charges'
  <2>1. \A u \in Urls : page'[u] = "completed" <=> page[u] = "completed"
    BY <1>c, <1>d
  <2>2. \A u \in Urls : task[u] \in {"keep", "links"} /\ page'[u] = "running" => u \in stored
    BY <1>c, <1>d DEF CrawlInv, Charges
  <2> QED
    BY <1>1, <1>a, <2>1, <2>2 DEF CrawlInv, Charges, ChargedIsKept
<1>6. Bounds'
  <2>1. Running' = Running \cup new
    BY <1>b, <1>c DEF Running
  <2>2. Asks(late')
    BY AnswerTypes DEF CrawlInv, Bounds
  <2>3. /\ Cardinality(Running)' <= MaxInFlight
        /\ Cardinality(ledger) + Cardinality(Running)' < Limit + MaxInFlight
    BY <2>1, ClaimSizes
  <2> QED
    BY <1>1, <1>a, <2>2, <2>3 DEF CrawlInv, Bounds, Asks, InFlightBounded
<1>7. Claiming'
  <2> SUFFICES ASSUME pc = "claim"
               PROVE  /\ Cardinality(ret'.pages) <= claim.limit
                      /\ \A u \in ret'.pages : queue'[u] \notin Unclaimed \/ status = "gone"
    BY <1>1, <1>a DEF CrawlInv, Claiming
  <2>1. CASE ret' = ret
    <3>1. ret.pages \subseteq Urls
      BY DEF CrawlInv, Types, Answers
    <3> QED
      BY <1>c, <2>1, <3>1 DEF CrawlInv, Claiming, Unclaimed
  <2>2. CASE in = claim /\ ret'.pages = old \cup new
    <3>1. Cardinality(old \cup new) <= in.limit
      BY ClaimSizes
    <3>2. \A u \in old \cup new : queue'[u] = "dispatched"
      BY <1>b, <1>c, <1>e
    <3> QED
      BY <2>2, <3>1, <3>2 DEF Unclaimed
  <2> QED
    BY <2>1, <2>2
<1>8. Once'
  <2>1. \A u \in Urls : Recorded(u)' => page'[u] # "running"
    BY <1>a, <1>c, <1>d DEF CrawlInv, Once, Recorded, Recording
  <2>2. ~forgot /\ ~failure /\ ~cutShort =>
          \A u \in Urls \ inFlight : task[u] # "none" => page'[u] # "running"
    BY <1>c, <1>d DEF CrawlInv, Once
  <2>3. ~forgot /\ pc = "claim" =>
          \A u \in Urls \ claim.inFlight : task[u] # "none" => page'[u] # "running"
    BY <1>c, <1>d DEF CrawlInv, Once
  <2>4. ~forgot /\ pc = "claim" => \A u \in ret'.pages : task[u] = "none"
    BY <1>b, <1>d, <1>e DEF CrawlInv, Once
  <2> QED
    BY <1>1, <1>a, <2>1, <2>2, <2>3, <2>4 DEF CrawlInv, Once, FetchedOnce
<1>9. Closing'
  <2>1. Closed => Closed'
    BY <1>1, <1>c, <1>d DEF Closed, LeftOpen, Open
  <2>2. ClosedForGood'
    BY <1>1, <1>a, <2>1 DEF CrawlInv, Closing, ClosedForGood, Closed
  <2> QED
    BY <1>1, <1>a, <2>1, <2>2 DEF CrawlInv, Closing
<1> QED
  BY <1>2, <1>3, <1>4, <1>5, <1>6, <1>7, <1>8, <1>9 DEF CrawlInv

LEMMA ClaimCrawlPagesKeeps == ASSUME CrawlInv, ClaimCrawlPages PROVE CrawlInv'
<1>1. PICK old \in SUBSET HandedBack(claim), new \in SUBSET Pending :
        Claims(claim, old, new) /\ Hear("claim", ClaimAnswer(old, new))
  BY DEF ClaimCrawlPages
<1>2. /\ pc = "claim" /\ late' = late
      /\ UNCHANGED <<status, queued, completed, failed, hooks, ledger, stored, apiVars, pc,
                     claim, asked, outcome, pageVars, cancelReq, engine, history>>
  BY DEF ClaimCrawlPages
<1>3. claim \in ClaimInputs /\ Asks(claim)
  BY DEF CrawlInv, Types, Bounds
<1>4. ClaimAnswer(old, new) \in Answers /\ ClaimAnswer(old, new).pages = old \cup new
  <2>1. PICK f \in BOOLEAN : f = (status = "running" /\ Full(ledger))
    OBVIOUS
  <2>2. ClaimAnswer(old, new) = [Said(status) EXCEPT !.full = f, !.pages = old \cup new]
    BY <2>1 DEF ClaimAnswer
  <2>3. (old \cup new) \in SUBSET Urls /\ status \in Statuses
    BY DEF HandedBack, Pending, CrawlInv, Types
  <2> QED
    BY <2>2, <2>3 DEF Said, Answers
<1>5. /\ ret' \in Answers /\ perils' \in 0 .. MaxPerils
      /\ ret' = ret \/ (pc = "claim" /\ ret'.pages = old \cup new)
  BY <1>1, <1>4, Heard DEF CrawlInv
<1> QED
  BY <1>1, <1>2, <1>3, <1>5, ClaimKeeps

LEMMA LateClaimKeeps == ASSUME CrawlInv, LateClaim PROVE CrawlInv'
<1>1. PICK old \in SUBSET HandedBack(late), new \in SUBSET Pending : Claims(late, old, new)
  BY DEF LateClaim
<1>2. /\ late' = NoClaim /\ ret' = ret /\ perils' = perils
      /\ UNCHANGED <<status, queued, completed, failed, hooks, ledger, stored, apiVars, pc,
                     claim, asked, outcome, pageVars, cancelReq, engine, history>>
  BY DEF LateClaim
<1>3. /\ late \in ClaimInputs /\ Asks(late) /\ ret' \in Answers /\ perils' \in 0 .. MaxPerils
  BY <1>2 DEF CrawlInv, Types, Bounds
<1> QED
  BY <1>1, <1>2, <1>3, ClaimKeeps

LEMMA ClaimTimesOutKeeps == ASSUME CrawlInv, ClaimTimesOut PROVE CrawlInv'
<1>1. /\ pc' = pc /\ ret' = ret /\ asked' = asked /\ claim' = claim /\ late' = claim
      /\ status' = status /\ queue' = queue /\ page' = page /\ queued' = queued
      /\ completed' = completed /\ failed' = failed /\ hooks' = hooks /\ ledger' = ledger
      /\ stored' = stored /\ freed' = freed /\ outcome' = outcome /\ request' = request
      /\ telling' = telling /\ deleting' = deleting
  BY DEF ClaimTimesOut, rowVars, apiVars
<1>a. /\ cutShort' = cutShort /\ gaveUp' = gaveUp /\ forgot' = forgot /\ twice' = twice
      /\ inFlight' = inFlight /\ task' = task /\ reply' = reply /\ finished' = finished
      /\ woken' = woken /\ stop' = stop /\ failure' = failure
      /\ cancelReq' = cancelReq /\ engine' = engine
  BY DEF ClaimTimesOut, pageVars, history
<1>b. perils' \in 0 .. MaxPerils
  BY Sizes DEF ClaimTimesOut, Peril, CrawlInv, Types
<1>2. Types'
  BY <1>1, <1>a, <1>b DEF CrawlInv, Types
<1>3. Frontier'
  BY <1>1, <1>a DEF CrawlInv, Frontier
<1>4. Counters'
  BY <1>1 DEF CrawlInv, Counters, Completed, Failed, Queued
<1>5. Charges'
  BY <1>1, <1>a DEF CrawlInv, Charges, ChargedIsKept
<1>6. Bounds'
  BY <1>1, <1>a DEF CrawlInv, Bounds, Asks, Running, InFlightBounded
<1>7. Claiming'
  BY <1>1, <1>a DEF CrawlInv, Claiming
<1>8. Once'
  <2>1. \A u \in Urls : Recorded(u)' => Recorded(u)
    BY <1>a DEF Recorded
  <2> QED
    BY <1>1, <1>a, <2>1 DEF CrawlInv, Once, FetchedOnce
<1>9. Closing'
  BY <1>1, <1>a DEF CrawlInv, Closing, ClosedForGood, Closed, LeftOpen
<1> QED
  BY <1>2, <1>3, <1>4, <1>5, <1>6, <1>7, <1>8, <1>9 DEF CrawlInv

(* The record of a running page closes it: completed and charged only when *)
(* its task fetched it, else its objects are discarded.                    *)
LEMMA RecordCloses ==
    ASSUME CrawlInv, NEW n \in Urls, NEW p \in Terminal, NEW q \in {"skipped", "completed", "failed"},
           page[n] = "running", SetPage(n, p, q), Recount,
           p # "completed" => Discard(n) /\ ledger' = ledger,
           p = "completed" => /\ task[n] \in {"keep", "links"}
                              /\ ledger' = ledger \cup {n} /\ stored' = stored,
           NEW a \in Answers, HearPage(n, Recording, a),
           UNCHANGED <<status, queued, hooks, apiVars, mainVars, inFlight, task, finished, woken,
                       stop, failure, cancelReq, engine, history, perils>>
    PROVE  CrawlInv'
<1>1. /\ pc' = pc /\ ret' = ret /\ asked' = asked /\ claim' = claim /\ late' = late
      /\ status' = status /\ queued' = queued /\ hooks' = hooks
      /\ freed' = freed /\ outcome' = outcome /\ request' = request
      /\ telling' = telling /\ deleting' = deleting
  BY DEF mainVars, apiVars
<1>a. /\ cutShort' = cutShort /\ gaveUp' = gaveUp /\ forgot' = forgot /\ twice' = twice
      /\ inFlight' = inFlight /\ task' = task /\ finished' = finished
      /\ woken' = woken /\ stop' = stop /\ failure' = failure
      /\ cancelReq' = cancelReq /\ engine' = engine /\ perils' = perils
  BY DEF history
<1>b. /\ page' = [page EXCEPT ![n] = p] /\ queue' = [queue EXCEPT ![n] = q]
      /\ p \in {"completed", "failed", "cancelled"} /\ queue[n] = "dispatched"
      /\ page \in [Urls -> {"none", "running", "completed", "failed", "cancelled"}]
      /\ queue \in [Urls -> {"unseen", "pending", "dispatched", "completed", "failed",
                             "skipped", "dropped"}]
  BY DEF SetPage, Terminal, CrawlInv, Types, Frontier
<1>c. /\ page'[n] = p /\ queue'[n] = q
      /\ \A v \in Urls : v # n => page'[v] = page[v] /\ queue'[v] = queue[v]
  BY <1>b
<1>d. /\ reply' \in [Urls -> Answers]
      /\ \A v \in Urls : reply'[v] = reply[v] \/ (v = n /\ task[n] \in Recording)
  BY HeardPage DEF CrawlInv
<1>e. /\ stored' \in SUBSET stored /\ ledger' \in SUBSET Urls /\ ledger \subseteq ledger'
      /\ \A v \in stored : v # n \/ v \in ledger => v \in stored'
  BY DEF Discard, CrawlInv, Types
<1>2. Types'
  <2>1. /\ page' \in [Urls -> {"none", "running", "completed", "failed", "cancelled"}]
        /\ queue' \in [Urls -> {"unseen", "pending", "dispatched", "completed", "failed",
                                "skipped", "dropped"}]
    BY <1>b
  <2>2. stored' \subseteq Urls
    BY <1>e DEF CrawlInv, Types
  <2> QED
    BY <1>1, <1>a, <1>d, <1>e, <2>1, <2>2 DEF CrawlInv, Types
<1>3. Frontier'
  <2>1. \A v \in Urls :
          /\ queue'[v] \in Unclaimed => page'[v] = "none"
          /\ queue'[v] = "dispatched" <=> page'[v] = "running"
          /\ task[v] # "none" => queue'[v] \notin Unclaimed \/ status = "gone"
          /\ status = "gone" => queue'[v] = "unseen" /\ page'[v] = "none"
    BY <1>b, <1>c DEF CrawlInv, Frontier, Unclaimed
  <2> QED
    BY <1>1, <1>a, <2>1 DEF CrawlInv, Frontier
<1>4. Counters'
  <2>1. Queued' = Queued
    BY <1>b, <1>c DEF Queued
  <2>2. completed' = Cardinality(Completed)' /\ failed' = Cardinality(Failed)'
    BY DEF Recount, Completed, Failed
  <2> QED
    BY <1>1, <2>1, <2>2 DEF CrawlInv, Counters
<1>f. n \notin ledger /\ n \notin freed
  BY DEF CrawlInv, Charges, ChargedIsKept
<1>5. Charges'
  <2>1. \A v \in Urls : page'[v] = "completed" <=> v \in ledger' \cup freed
    <3> SUFFICES ASSUME NEW v \in Urls  PROVE page'[v] = "completed" <=> v \in ledger' \cup freed
      OBVIOUS
    <3>1. CASE v = n
      BY <1>c, <1>f, <3>1
    <3>2. CASE v # n
      <4>1. v \in ledger' <=> v \in ledger
        BY <3>2
      <4> QED
        BY <1>c, <3>2, <4>1 DEF CrawlInv, Charges, ChargedIsKept
    <3> QED
      BY <3>1, <3>2
  <2>2. ledger' \ freed \subseteq stored'
    <3>1. CASE p = "completed"
      <4>1. n \in stored
        BY <3>1 DEF CrawlInv, Charges
      <4> QED
        BY <3>1, <4>1 DEF CrawlInv, Charges, ChargedIsKept
    <3>2. CASE p # "completed"
      BY <1>e, <3>2 DEF CrawlInv, Charges, ChargedIsKept
    <3> QED
      BY <3>1, <3>2
  <2>3. \A v \in Urls : task[v] \in {"keep", "links"} /\ page'[v] = "running" => v \in stored'
    BY <1>b, <1>c, <1>e DEF CrawlInv, Charges
  <2> QED
    BY <1>1, <1>a, <2>1, <2>2, <2>3 DEF CrawlInv, Charges, ChargedIsKept
<1>6. Bounds'
  <2>1. Running' = Running \ {n} /\ n \in Running
    BY <1>b, <1>c DEF Running
  <2>2. Cardinality(Running)' = Cardinality(Running) - 1 /\ Cardinality(Running) \in Nat
    BY <2>1, Counted, RemoveSize DEF CrawlInv
  <2>3. Cardinality(ledger') \in Nat /\ Cardinality(ledger') <= Cardinality(ledger) + 1
    <3>1. ledger \in SUBSET Urls /\ Cardinality(ledger) \in Nat
      BY Counted DEF CrawlInv
    <3>2. ledger' = ledger \/ ledger' = ledger \cup {n}
      OBVIOUS
    <3> QED
      BY <1>f, <3>1, <3>2, AddSize
  <2>4. /\ Cardinality(Running)' <= MaxInFlight
        /\ Cardinality(ledger') + Cardinality(Running)' < Limit + MaxInFlight
    BY <2>2, <2>3, Counted, Sizes DEF CrawlInv, Bounds
  <2> QED
    BY <1>1, <1>a, <2>4 DEF CrawlInv, Bounds, Asks, InFlightBounded
<1>7. Claiming'
  <2>1. pc = "claim" => \A v \in ret.pages : queue'[v] \notin Unclaimed \/ status = "gone"
    BY <1>c DEF CrawlInv, Types, Answers, Claiming, Unclaimed
  <2> QED
    BY <1>1, <1>a, <2>1 DEF CrawlInv, Claiming
<1>8. Once'
  <2>1. \A v \in Urls : Recorded(v)' => page'[v] # "running"
    <3> SUFFICES ASSUME NEW v \in Urls, Recorded(v)', v # n  PROVE page'[v] # "running"
      BY <1>b, <1>c
    <3>1. Recorded(v)
      BY <1>a, <1>d DEF Recorded
    <3> QED
      BY <1>c, <3>1 DEF CrawlInv, Once
  <2>2. \A v \in Urls : task[v] \in {"slot", "scrape"} => reply'[v] = NoAnswer
    BY <1>d DEF CrawlInv, Once, Recording
  <2>3. \A v \in Urls : page'[v] = "running" => page[v] = "running"
    BY <1>c
  <2> QED
    BY <1>1, <1>a, <2>1, <2>2, <2>3 DEF CrawlInv, Once, FetchedOnce
<1>9. Closing'
  <2>1. Closed => Closed'
    BY <1>1, <1>b, <1>c DEF Closed, LeftOpen
  <2>2. ClosedForGood'
    BY <1>1, <1>a, <2>1 DEF CrawlInv, Closing, ClosedForGood, Closed
  <2> QED
    BY <1>1, <1>a, <2>1, <2>2 DEF CrawlInv, Closing
<1> QED
  BY <1>2, <1>3, <1>4, <1>5, <1>6, <1>7, <1>8, <1>9 DEF CrawlInv

(* A record that comes again, or for a page that has no row, closes none;  *)
(* it may discard objects no page is charged for.                          *)
LEMMA RecordLeaves ==
    ASSUME CrawlInv, NEW n \in Urls, page[n] # "running",
           UNCHANGED <<queue, page, completed, failed, ledger>>, Discard(n) \/ stored' = stored,
           NEW a \in Answers, HearPage(n, Recording, a),
           UNCHANGED <<status, queued, hooks, apiVars, mainVars, inFlight, task, finished, woken,
                       stop, failure, cancelReq, engine, history, perils>>
    PROVE  CrawlInv'
<1>1. /\ pc' = pc /\ ret' = ret /\ asked' = asked /\ claim' = claim /\ late' = late
      /\ status' = status /\ queue' = queue /\ page' = page /\ queued' = queued
      /\ completed' = completed /\ failed' = failed /\ hooks' = hooks /\ ledger' = ledger
      /\ freed' = freed /\ outcome' = outcome /\ request' = request
      /\ telling' = telling /\ deleting' = deleting
  BY DEF mainVars, apiVars
<1>a. /\ cutShort' = cutShort /\ gaveUp' = gaveUp /\ forgot' = forgot /\ twice' = twice
      /\ inFlight' = inFlight /\ task' = task /\ finished' = finished
      /\ woken' = woken /\ stop' = stop /\ failure' = failure
      /\ cancelReq' = cancelReq /\ engine' = engine /\ perils' = perils
  BY DEF history
<1>d. /\ reply' \in [Urls -> Answers]
      /\ \A v \in Urls : reply'[v] = reply[v] \/ (v = n /\ task[n] \in Recording)
  BY HeardPage DEF CrawlInv
<1>e. /\ stored' \subseteq Urls
      /\ \A v \in stored : v # n \/ v \in ledger => v \in stored'
  BY DEF Discard, CrawlInv, Types
<1>2. Types'
  BY <1>1, <1>a, <1>d, <1>e DEF CrawlInv, Types
<1>3. Frontier'
  BY <1>1, <1>a DEF CrawlInv, Frontier
<1>4. Counters'
  BY <1>1 DEF CrawlInv, Counters, Completed, Failed, Queued
<1>5. Charges'
  <2>1. ledger \ freed \subseteq stored'
    BY <1>e DEF CrawlInv, Charges, ChargedIsKept
  <2>2. \A v \in Urls : task[v] \in {"keep", "links"} /\ page[v] = "running" => v \in stored'
    BY <1>e DEF CrawlInv, Charges
  <2> QED
    BY <1>1, <1>a, <2>1, <2>2 DEF CrawlInv, Charges, ChargedIsKept
<1>6. Bounds'
  BY <1>1, <1>a DEF CrawlInv, Bounds, Asks, Running, InFlightBounded
<1>7. Claiming'
  BY <1>1, <1>a DEF CrawlInv, Claiming
<1>8. Once'
  <2>1. \A v \in Urls : Recorded(v)' => page[v] # "running"
    BY <1>a, <1>d DEF CrawlInv, Once, Recorded
  <2>2. \A v \in Urls : task[v] \in {"slot", "scrape"} => reply'[v] = NoAnswer
    BY <1>d DEF CrawlInv, Once, Recording
  <2> QED
    BY <1>1, <1>a, <2>1, <2>2 DEF CrawlInv, Once, FetchedOnce
<1>9. Closing'
  BY <1>1, <1>a DEF CrawlInv, Closing, ClosedForGood, Closed, LeftOpen
<1> QED
  BY <1>2, <1>3, <1>4, <1>5, <1>6, <1>7, <1>8, <1>9 DEF CrawlInv

LEMMA RecordCrawlPageKeeps == ASSUME CrawlInv, NEW n \in Urls, RecordCrawlPage(n) PROVE CrawlInv'
<1>1. UNCHANGED <<status, queued, hooks, apiVars, mainVars, inFlight, task, finished, woken,
                  stop, failure, cancelReq, engine, history, perils>>
  BY DEF RecordCrawlPage
<1>2. PICK a \in Answers : HearPage(n, Recording, a)
  <2>1. Full(ledger') \in BOOLEAN
    BY SMT DEF Full
  <2>2. \A f \in BOOLEAN : [Said(status) EXCEPT !.full = f] \in Answers
    BY DEF Said, Answers, CrawlInv, Types
  <2> QED
    BY <2>1, <2>2 DEF RecordCrawlPage
<1>3. page[n] \in {"none", "running"} \/ Settled(n)
  BY DEF Settled, Terminal, CrawlInv, Types
<1>4. CASE /\ page[n] = "none" \/ Settled(n)
           /\ Discard(n) \/ stored' = stored
           /\ UNCHANGED <<queue, page, completed, failed, ledger>>
  <2>1. page[n] # "running"
    BY <1>4 DEF Settled, Terminal
  <2> QED
    BY <1>1, <1>2, <1>4, <2>1, RecordLeaves
<1>5. ASSUME page[n] # "none", ~Settled(n)  PROVE page[n] = "running"
  BY <1>3, <1>5
<1>6. CASE /\ page[n] # "none" /\ ~Settled(n) /\ Discard(n)
           /\ SetPage(n, "cancelled", "skipped") /\ Recount /\ UNCHANGED ledger
  BY <1>1, <1>2, <1>5, <1>6, RecordCloses DEF Terminal
<1>7. CASE /\ page[n] # "none" /\ ~Settled(n) /\ Verdict(n) = "keep"
           /\ ledger' = ledger \cup {n}
           /\ SetPage(n, "completed", "completed") /\ Recount /\ UNCHANGED stored
  <2>1. task[n] \in {"keep", "links"}
    BY <1>7 DEF Verdict
  <2> QED
    BY <1>1, <1>2, <1>5, <1>7, <2>1, RecordCloses DEF Terminal
<1>8. CASE /\ page[n] # "none" /\ ~Settled(n) /\ Discard(n)
           /\ SetPage(n, "failed", "failed") /\ Recount /\ UNCHANGED ledger
  BY <1>1, <1>2, <1>5, <1>8, RecordCloses DEF Terminal
<1> QED
  BY <1>4, <1>6, <1>7, <1>8 DEF RecordCrawlPage

(* finish_crawl leaves nothing open, and no page it closes was charged. *)
LEMMA FinishCrawlKeeps == ASSUME CrawlInv, FinishCrawl PROVE CrawlInv'
<1>1. /\ pc' = pc /\ asked' = asked /\ claim' = claim /\ late' = late
      /\ queued' = queued /\ ledger' = ledger /\ stored' = stored /\ freed' = freed
      /\ outcome' = outcome /\ request' = request /\ telling' = telling /\ deleting' = deleting
  BY DEF FinishCrawl, apiVars
<1>a. /\ cutShort' = cutShort /\ gaveUp' = gaveUp /\ forgot' = forgot /\ twice' = twice
      /\ inFlight' = inFlight /\ task' = task /\ reply' = reply /\ finished' = finished
      /\ woken' = woken /\ stop' = stop /\ failure' = failure
      /\ cancelReq' = cancelReq /\ engine' = engine
  BY DEF FinishCrawl, pageVars, history
<1>b. /\ status \in Statuses /\ outcome \in Terminal
      /\ page \in [Urls -> {"none", "running", "completed", "failed", "cancelled"}]
      /\ queue \in [Urls -> {"unseen", "pending", "dispatched", "completed", "failed",
                             "skipped", "dropped"}]
  BY DEF CrawlInv, Types
<1>c. /\ status' \in Statuses /\ (status' = "gone" <=> status = "gone") /\ status' \notin Open
      /\ (status = "none" => status' = "none")
      /\ hooks' \subseteq {"crawl.completed", "crawl.failed"}
  <2>1. CASE status = "gone"
    BY <1>b, <2>1 DEF FinishCrawl, Open, CrawlInv, Types
  <2>2. CASE status # "gone"
    <3>1. status' = IF status \in Open THEN outcome ELSE status
      BY <2>2 DEF FinishCrawl
    <3>2. /\ status' \in Statuses /\ status' # "gone" /\ status' \notin Open
          /\ (status = "none" => status' = "none")
          /\ (status \in Open => status' \in Terminal)
      BY <1>b, <2>2, <3>1 DEF Statuses, Open, Terminal
    <3>3. hooks' \subseteq {"crawl.completed", "crawl.failed"}
      <4>1. status \in Open /\ status' # "cancelled" => status' \in {"completed", "failed"}
        BY <3>2 DEF Terminal
      <4>2. EventOf["completed"] = "crawl.completed" /\ EventOf["failed"] = "crawl.failed"
        BY DEF EventOf
      <4>3. hooks \subseteq {"crawl.completed", "crawl.failed"}
        BY DEF CrawlInv, Types
      <4>4. hooks' = hooks \/ \E s \in {"completed", "failed"} : hooks' = hooks \cup {EventOf[s]}
        BY <2>2, <4>1 DEF FinishCrawl
      <4> QED
        BY <4>2, <4>3, <4>4
    <3> QED
      BY <2>2, <3>2, <3>3
  <2> QED
    BY <2>1, <2>2
<1>d. /\ page' \in [Urls -> {"none", "running", "completed", "failed", "cancelled"}]
      /\ queue' \in [Urls -> {"unseen", "pending", "dispatched", "completed", "failed",
                              "skipped", "dropped"}]
      /\ \A u \in Urls :
           /\ \/ page'[u] = page[u] /\ page[u] # "running"
              \/ page[u] = "running" /\ page'[u] \in {"failed", "cancelled"}
           /\ \/ queue'[u] = queue[u] /\ queue[u] \notin {"pending", "dispatched"}
              \/ queue[u] \in {"pending", "dispatched"} /\ queue'[u] = "skipped"
      /\ status = "gone" => page' = page /\ queue' = queue
  <2>1. CASE status = "gone"
    BY <1>b, <2>1 DEF FinishCrawl, CrawlInv, Frontier
  <2>2. CASE status # "gone"
    BY <1>b, <2>2 DEF FinishCrawl
  <2> QED
    BY <2>1, <2>2
<1>e. /\ ret' \in Answers /\ perils' \in 0 .. MaxPerils
      /\ ret' = ret \/ pc = "finish"
  <2>1. Hear("finish", Said(status')) /\ Said(status') \in Answers
    BY <1>c, AnswerTypes DEF FinishCrawl
  <2> QED
    BY <2>1, Heard DEF CrawlInv
<1>2. Types'
  BY <1>1, <1>a, <1>c, <1>d, <1>e DEF CrawlInv, Types
<1>3. Frontier'
  <2>1. \A u \in Urls :
          /\ queue'[u] \in Unclaimed => page'[u] = "none"
          /\ queue'[u] = "dispatched" <=> page'[u] = "running"
          /\ task[u] # "none" => queue'[u] \notin Unclaimed \/ status = "gone"
          /\ status = "gone" => queue'[u] = "unseen" /\ page'[u] = "none"
    BY <1>d DEF CrawlInv, Frontier, Unclaimed
  <2> QED
    BY <1>1, <1>a, <1>c, <2>1 DEF CrawlInv, Frontier
<1>4. Counters'
  <2>1. Queued' = Queued
    BY <1>d DEF Queued
  <2>2. completed' = Cardinality(Completed)' /\ failed' = Cardinality(Failed)'
    <3>1. CASE status = "gone"
      <4>1. completed' = completed /\ failed' = failed /\ Completed' = Completed /\ Failed' = Failed
        BY <1>d, <3>1 DEF FinishCrawl, Completed, Failed
      <4> QED
        BY <4>1 DEF CrawlInv, Counters
    <3>2. CASE status # "gone"
      BY <3>2 DEF FinishCrawl, Recount, Completed, Failed
    <3> QED
      BY <3>1, <3>2
  <2> QED
    BY <1>1, <2>1, <2>2 DEF CrawlInv, Counters
<1>5. Charges'
  <2>1. \A u \in Urls : /\ page'[u] = "completed" <=> page[u] = "completed"
                        /\ page'[u] # "running"
    BY <1>d
  <2> QED
    BY <1>1, <1>a, <2>1 DEF CrawlInv, Charges, ChargedIsKept
<1>6. Bounds'
  <2>1. Running' = {}
    BY <1>d DEF Running
  <2>2. Cardinality(Running)' = 0
    BY <2>1, FS_EmptySet
  <2>3. /\ Cardinality(Running)' <= MaxInFlight
        /\ Cardinality(ledger) + Cardinality(Running)' < Limit + MaxInFlight
    BY <2>2, Counted, Sizes DEF CrawlInv, Bounds
  <2> QED
    BY <1>1, <1>a, <2>3 DEF CrawlInv, Bounds, Asks, InFlightBounded
<1>7. Claiming'
  <2>1. pc = "claim" => ret' = ret /\ ret.pages \subseteq Urls
    BY <1>e DEF CrawlInv, Types, Answers
  <2>2. pc = "claim" => \A u \in ret'.pages : queue'[u] \notin Unclaimed \/ status' = "gone"
    BY <1>c, <1>d, <2>1 DEF CrawlInv, Claiming, Unclaimed
  <2> QED
    BY <1>1, <1>a, <2>1, <2>2 DEF CrawlInv, Claiming
<1>8. Once'
  <2>1. \A u \in Urls : page'[u] # "running"
    BY <1>d
  <2> QED
    BY <1>1, <1>a, <1>e, <2>1 DEF CrawlInv, Once, FetchedOnce
<1>9. Closing'
  <2>1. Closed'
    BY <1>c, <1>d DEF Closed, LeftOpen
  <2> QED
    BY <1>1, <1>a, <2>1 DEF CrawlInv, Closing, ClosedForGood, Closed
<1> QED
  BY <1>2, <1>3, <1>4, <1>5, <1>6, <1>7, <1>8, <1>9 DEF CrawlInv

-----------------------------------------------------------------------------
(* The API, where it touches the rows or starts the workflow *)

LEMMA CreateCrawlKeeps == ASSUME CrawlInv, CreateCrawl PROVE CrawlInv'
<1>1. /\ pc' = pc /\ ret' = ret /\ asked' = asked /\ claim' = claim /\ late' = late
      /\ outcome' = outcome
      /\ queue' = queue /\ page' = page /\ queued' = queued
      /\ completed' = completed /\ failed' = failed /\ hooks' = hooks /\ ledger' = ledger
      /\ stored' = stored /\ freed' = freed /\ telling' = telling /\ deleting' = deleting
      /\ request = "idle" /\ request' = "committed" /\ status' = "queued"
  BY DEF CreateCrawl, mainVars
<1>a. /\ cutShort' = cutShort /\ gaveUp' = gaveUp /\ forgot' = forgot /\ twice' = twice
      /\ inFlight' = inFlight /\ task' = task /\ reply' = reply /\ finished' = finished
      /\ woken' = woken /\ stop' = stop /\ failure' = failure /\ cancelReq' = cancelReq /\ engine' = engine
      /\ perils' = perils
  BY DEF CreateCrawl, pageVars, history
<1>b. status = "none" /\ pc = "none" /\ ~cutShort
  BY <1>1 DEF CrawlInv, Frontier, Closing
<1>2. Types'
  BY <1>1, <1>a DEF CrawlInv, Types, Statuses, Open
<1>3. Frontier'
  BY <1>1, <1>a, <1>b DEF CrawlInv, Frontier
<1>4. Counters'
  BY <1>1 DEF CrawlInv, Counters, Completed, Failed, Queued
<1>5. Charges'
  BY <1>1, <1>a DEF CrawlInv, Charges, ChargedIsKept
<1>6. Bounds'
  BY <1>1, <1>a DEF CrawlInv, Bounds, Asks, Running, InFlightBounded
<1>7. Claiming'
  BY <1>1, <1>b DEF Claiming
<1>8. Once'
  <2>1. \A u \in Urls : Recorded(u)' => Recorded(u)
    BY <1>a DEF Recorded
  <2> QED
    BY <1>1, <1>a, <2>1 DEF CrawlInv, Once, FetchedOnce
<1>9. Closing'
  BY <1>1, <1>a, <1>b DEF Closing, ClosedForGood
<1> QED
  BY <1>2, <1>3, <1>4, <1>5, <1>6, <1>7, <1>8, <1>9 DEF CrawlInv

(* The engine has it, whether or not the request heard so. *)
LEMMA StartKeeps == ASSUME CrawlInv, StartWorkflow \/ StartAmbiguous PROVE CrawlInv'
<1>1. /\ pc' = "started" /\ ret' = NoAnswer /\ asked' = asked \cup {"started"}
      /\ claim' = claim /\ late' = late /\ outcome' = outcome
      /\ status' = status /\ queue' = queue /\ page' = page /\ queued' = queued
      /\ completed' = completed /\ failed' = failed /\ hooks' = hooks /\ ledger' = ledger
      /\ stored' = stored /\ freed' = freed /\ telling' = telling /\ deleting' = deleting
      /\ request = "committed" /\ request' \in {"over", "refused"}
  BY DEF StartWorkflow, StartAmbiguous, Call, rowVars
<1>a. /\ cutShort' = cutShort /\ gaveUp' = gaveUp /\ forgot' = forgot /\ twice' = twice
      /\ inFlight' = inFlight /\ task' = task /\ reply' = reply /\ finished' = finished
      /\ woken' = woken /\ stop' = stop /\ failure' = failure /\ cancelReq' = cancelReq /\ engine' = engine
  BY DEF StartWorkflow, StartAmbiguous, pageVars, history
<1>b. pc = "none" /\ ~cutShort /\ perils' \in 0 .. MaxPerils
  BY <1>1, Sizes DEF StartWorkflow, StartAmbiguous, Peril, CrawlInv, Types, Frontier, Closing
<1>2. Types'
  BY <1>1, <1>a, <1>b, AnswerTypes DEF CrawlInv, Types
<1>3. Frontier'
  BY <1>1, <1>a DEF CrawlInv, Frontier
<1>4. Counters'
  BY <1>1 DEF CrawlInv, Counters, Completed, Failed, Queued
<1>5. Charges'
  BY <1>1, <1>a DEF CrawlInv, Charges, ChargedIsKept
<1>6. Bounds'
  BY <1>1, <1>a DEF CrawlInv, Bounds, Asks, Running, InFlightBounded
<1>7. Claiming'
  BY <1>1 DEF Claiming
<1>8. Once'
  <2>1. \A u \in Urls : Recorded(u)' => Recorded(u)
    BY <1>a DEF Recorded
  <2> QED
    BY <1>1, <1>a, <2>1 DEF CrawlInv, Once, FetchedOnce
<1>9. Closing'
  BY <1>1, <1>a, <1>b DEF Closing, ClosedForGood
<1> QED
  BY <1>2, <1>3, <1>4, <1>5, <1>6, <1>7, <1>8, <1>9 DEF CrawlInv

LEMMA FailUnstartedKeeps == ASSUME CrawlInv, FailUnstartedCrawl PROVE CrawlInv'
<1>1. /\ pc' = pc /\ ret' = ret /\ asked' = asked /\ claim' = claim /\ late' = late
      /\ outcome' = outcome
      /\ queue' = queue /\ page' = page /\ queued' = queued
      /\ completed' = completed /\ failed' = failed /\ ledger' = ledger
      /\ stored' = stored /\ freed' = freed /\ telling' = telling /\ deleting' = deleting
      /\ request = "refused" /\ request' = "over"
  BY DEF FailUnstartedCrawl, mainVars
<1>a. /\ cutShort' = cutShort /\ gaveUp' = gaveUp /\ forgot' = forgot /\ twice' = twice
      /\ inFlight' = inFlight /\ task' = task /\ reply' = reply /\ finished' = finished
      /\ woken' = woken /\ stop' = stop /\ failure' = failure /\ cancelReq' = cancelReq /\ engine' = engine
      /\ perils' = perils
  BY DEF FailUnstartedCrawl, pageVars, history
<1>b. /\ status' \in {status, "failed"} /\ (status' = "gone" <=> status = "gone")
      /\ (status \notin Open => status' \notin Open)
      /\ hooks' \subseteq {"crawl.completed", "crawl.failed"}
  BY DEF FailUnstartedCrawl, Open, CrawlInv, Types
<1>2. Types'
  <2>1. status' \in Statuses
    BY <1>b DEF CrawlInv, Types, Statuses, Terminal
  <2> QED
    BY <1>1, <1>a, <1>b, <2>1 DEF CrawlInv, Types
<1>3. Frontier'
  BY <1>1, <1>a, <1>b DEF CrawlInv, Frontier
<1>4. Counters'
  BY <1>1 DEF CrawlInv, Counters, Completed, Failed, Queued
<1>5. Charges'
  BY <1>1, <1>a DEF CrawlInv, Charges, ChargedIsKept
<1>6. Bounds'
  BY <1>1, <1>a DEF CrawlInv, Bounds, Asks, Running, InFlightBounded
<1>7. Claiming'
  BY <1>1, <1>a, <1>b DEF CrawlInv, Claiming
<1>8. Once'
  <2>1. \A u \in Urls : Recorded(u)' => Recorded(u)
    BY <1>a DEF Recorded
  <2> QED
    BY <1>1, <1>a, <2>1 DEF CrawlInv, Once, FetchedOnce
<1>9. Closing'
  BY <1>1, <1>a, <1>b DEF CrawlInv, Closing, ClosedForGood, Closed, LeftOpen
<1> QED
  BY <1>2, <1>3, <1>4, <1>5, <1>6, <1>7, <1>8, <1>9 DEF CrawlInv

(* A cancel finds the crawl open, so its workflow has not closed it. *)
LEMMA CancelCrawlKeeps == ASSUME CrawlInv, CancelCrawl PROVE CrawlInv'
<1>1. /\ pc' = pc /\ ret' = ret /\ asked' = asked /\ claim' = claim /\ late' = late
      /\ outcome' = outcome
      /\ page' = page /\ queued' = queued /\ hooks' = hooks
      /\ completed' = completed /\ failed' = failed /\ ledger' = ledger
      /\ stored' = stored /\ freed' = freed /\ telling' = TRUE /\ deleting' = deleting
      /\ request' = request /\ status \in Open /\ status' = "cancelled"
  BY DEF CancelCrawl, mainVars
<1>a. /\ cutShort' = cutShort /\ gaveUp' = gaveUp /\ forgot' = forgot /\ twice' = twice
      /\ inFlight' = inFlight /\ task' = task /\ reply' = reply /\ finished' = finished
      /\ woken' = woken /\ stop' = stop /\ failure' = failure /\ cancelReq' = cancelReq /\ engine' = engine
      /\ perils' = perils
  BY DEF CancelCrawl, pageVars, history
<1>b. /\ queue' \in [Urls -> {"unseen", "pending", "dispatched", "completed", "failed",
                              "skipped", "dropped"}]
      /\ \A u \in Urls : \/ queue'[u] = queue[u] /\ queue[u] # "pending"
                         \/ queue[u] = "pending" /\ queue'[u] = "skipped"
  BY DEF CancelCrawl, CrawlInv, Types
<1>c. status \notin {"none", "gone"} /\ request # "idle"
  BY <1>1 DEF Open, CrawlInv, Frontier
<1>2. Types'
  <2>1. status' \in Statuses /\ telling' \in BOOLEAN
    BY <1>1 DEF Statuses, Terminal
  <2> QED
    BY <1>1, <1>a, <1>b, <2>1 DEF CrawlInv, Types
<1>3. Frontier'
  <2>1. \A u \in Urls :
          /\ queue'[u] \in Unclaimed => page[u] = "none"
          /\ queue'[u] = "dispatched" <=> page[u] = "running"
          /\ task[u] # "none" => queue'[u] \notin Unclaimed
    BY <1>b, <1>c DEF CrawlInv, Frontier, Unclaimed
  <2> QED
    BY <1>1, <1>a, <1>c, <2>1 DEF CrawlInv, Frontier
<1>4. Counters'
  <2>1. Queued' = Queued
    BY <1>b DEF Queued
  <2> QED
    BY <1>1, <2>1 DEF CrawlInv, Counters, Completed, Failed
<1>5. Charges'
  BY <1>1, <1>a DEF CrawlInv, Charges, ChargedIsKept
<1>6. Bounds'
  BY <1>1, <1>a DEF CrawlInv, Bounds, Asks, Running, InFlightBounded
<1>7. Claiming'
  <2>1. pc = "claim" => \A u \in ret.pages : queue'[u] \notin Unclaimed
    BY <1>b, <1>c DEF CrawlInv, Types, Answers, Claiming, Unclaimed
  <2> QED
    BY <1>1, <1>a, <2>1 DEF CrawlInv, Claiming
<1>8. Once'
  <2>1. \A u \in Urls : Recorded(u)' => Recorded(u)
    BY <1>a DEF Recorded
  <2> QED
    BY <1>1, <1>a, <2>1 DEF CrawlInv, Once, FetchedOnce
<1>9. Closing'
  <2>1. ~Closed
    BY <1>1 DEF Closed
  <2> QED
    BY <1>1, <1>a, <2>1 DEF CrawlInv, Closing, ClosedForGood, Closed
<1> QED
  BY <1>2, <1>3, <1>4, <1>5, <1>6, <1>7, <1>8, <1>9 DEF CrawlInv

(* What a delete frees it remembers until the rows are gone. *)
LEMMA BeginDeleteKeeps == ASSUME CrawlInv, BeginDelete PROVE CrawlInv'
<1>1. /\ pc' = pc /\ ret' = ret /\ asked' = asked /\ claim' = claim /\ late' = late
      /\ outcome' = outcome
      /\ status' = status /\ queue' = queue /\ page' = page /\ queued' = queued
      /\ completed' = completed /\ failed' = failed /\ hooks' = hooks /\ ledger' = ledger
      /\ telling' = telling /\ request' = request
      /\ status # "none" /\ deleting = "no" /\ deleting' \in {"purge", "refuse"}
  BY DEF BeginDelete, mainVars
<1>a. /\ cutShort' = cutShort /\ gaveUp' = gaveUp /\ forgot' = forgot /\ twice' = twice
      /\ inFlight' = inFlight /\ task' = task /\ reply' = reply /\ finished' = finished
      /\ woken' = woken /\ stop' = stop /\ failure' = failure /\ cancelReq' = cancelReq
  BY DEF BeginDelete, pageVars, history
<1>b. PICK kept \in SUBSET (ledger \ freed) :
        freed' = ledger \ kept /\ stored' = stored \ (ledger \ kept)
  BY DEF BeginDelete
<1>c. engine' \in {"no", "asked", "delivered"} /\ perils' \in 0 .. MaxPerils
  BY Sizes DEF BeginDelete, Peril, CrawlInv, Types
<1>d. freed = {} /\ request # "idle"
  BY <1>1 DEF CrawlInv, Charges, Frontier
<1>2. Types'
  <2>1. freed' \subseteq Urls /\ stored' \subseteq Urls
    BY <1>b DEF CrawlInv, Types
  <2> QED
    BY <1>1, <1>a, <1>c, <2>1 DEF CrawlInv, Types
<1>3. Frontier'
  BY <1>1, <1>a, <1>d DEF CrawlInv, Frontier
<1>4. Counters'
  BY <1>1 DEF CrawlInv, Counters, Completed, Failed, Queued
<1>5. Charges'
  <2>1. ledger \cup freed' = ledger \cup freed
    BY <1>b, <1>d
  <2>2. ledger \ freed' \subseteq stored'
    BY <1>b DEF CrawlInv, Charges, ChargedIsKept
  <2>3. \A u \in Urls : task[u] \in {"keep", "links"} /\ page[u] = "running" => u \in stored'
    BY <1>b DEF CrawlInv, Charges, ChargedIsKept
  <2>4. \A u \in Urls : page[u] = "completed" <=> u \in ledger \cup freed'
    BY <2>1 DEF CrawlInv, Charges, ChargedIsKept
  <2> QED
    BY <1>1, <1>a, <2>2, <2>3, <2>4 DEF CrawlInv, Charges, ChargedIsKept
<1>6. Bounds'
  BY <1>1, <1>a DEF CrawlInv, Bounds, Asks, Running, InFlightBounded
<1>7. Claiming'
  BY <1>1, <1>a DEF CrawlInv, Claiming
<1>8. Once'
  <2>1. \A u \in Urls : Recorded(u)' => Recorded(u)
    BY <1>a DEF Recorded
  <2> QED
    BY <1>1, <1>a, <2>1 DEF CrawlInv, Once, FetchedOnce
<1>9. Closing'
  BY <1>1, <1>a DEF CrawlInv, Closing, ClosedForGood, Closed, LeftOpen
<1> QED
  BY <1>2, <1>3, <1>4, <1>5, <1>6, <1>7, <1>8, <1>9 DEF CrawlInv

LEMMA CommitDeleteKeeps == ASSUME CrawlInv, CommitDelete PROVE CrawlInv'
<1>1. /\ pc' = pc /\ ret' = ret /\ asked' = asked /\ claim' = claim /\ late' = late
      /\ outcome' = outcome
      /\ status' = "gone" /\ queue' = [u \in Urls |-> "unseen"] /\ page' = [u \in Urls |-> "none"]
      /\ queued' = 0 /\ completed' = 0 /\ failed' = 0 /\ hooks' = {} /\ ledger' = {}
      /\ freed' = {} /\ stored' = stored /\ telling' = telling /\ request' = request
      /\ deleting = "purge" /\ deleting' = "over"
  BY DEF CommitDelete, mainVars
<1>a. /\ cutShort' = cutShort /\ gaveUp' = gaveUp /\ forgot' = forgot /\ twice' = twice
      /\ inFlight' = inFlight /\ task' = task /\ reply' = reply /\ finished' = finished
      /\ woken' = woken /\ stop' = stop /\ failure' = failure /\ cancelReq' = cancelReq /\ engine' = engine
      /\ perils' = perils
  BY DEF CommitDelete, pageVars, history
<1>b. Completed' = {} /\ Failed' = {} /\ Queued' = {} /\ Running' = {}
  BY <1>1 DEF Completed, Failed, Queued, Running
<1>2. Types'
  <2>1. status' \in Statuses
    BY <1>1 DEF Statuses
  <2> QED
    BY <1>1, <1>a, <2>1 DEF CrawlInv, Types
<1>3. Frontier'
  <2>1. request # "idle"
    BY <1>1 DEF CrawlInv, Frontier
  <2> QED
    BY <1>1, <1>a, <2>1 DEF CrawlInv, Frontier, Unclaimed
<1>4. Counters'
  BY <1>1, <1>b, FS_EmptySet, Sizes DEF Counters
<1>5. Charges'
  BY <1>1 DEF Charges, ChargedIsKept
<1>6. Bounds'
  <2>1. /\ Cardinality(Running)' <= MaxInFlight
        /\ Cardinality(ledger') + Cardinality(Running)' < Limit + MaxInFlight
    BY <1>1, <1>b, FS_EmptySet, Sizes
  <2> QED
    BY <1>1, <1>a, <2>1 DEF CrawlInv, Bounds, Asks, InFlightBounded
<1>7. Claiming'
  BY <1>1, <1>a DEF CrawlInv, Claiming
<1>8. Once'
  <2>1. \A u \in Urls : Recorded(u)' => Recorded(u)
    BY <1>a DEF Recorded
  <2> QED
    BY <1>1, <1>a, <2>1 DEF CrawlInv, Once, FetchedOnce
<1>9. Closing'
  <2>1. Closed'
    BY <1>1 DEF Closed, LeftOpen, Open
  <2> QED
    BY <1>1, <1>a, <2>1 DEF CrawlInv, Closing, ClosedForGood, Closed
<1> QED
  BY <1>2, <1>3, <1>4, <1>5, <1>6, <1>7, <1>8, <1>9 DEF CrawlInv

LEMMA RefuseDeleteKeeps == ASSUME CrawlInv, RefuseDelete PROVE CrawlInv'
<1>1. /\ pc' = pc /\ ret' = ret /\ asked' = asked /\ claim' = claim /\ late' = late
      /\ outcome' = outcome
      /\ status' = status /\ queue' = queue /\ page' = page /\ queued' = queued
      /\ completed' = completed /\ failed' = failed /\ hooks' = hooks
      /\ ledger' = ledger \ freed /\ freed' = freed /\ stored' = stored
      /\ telling' = telling /\ request' = request
      /\ deleting = "refuse" /\ deleting' = "over"
  BY DEF RefuseDelete, mainVars
<1>a. /\ cutShort' = cutShort /\ gaveUp' = gaveUp /\ forgot' = forgot /\ twice' = twice
      /\ inFlight' = inFlight /\ task' = task /\ reply' = reply /\ finished' = finished
      /\ woken' = woken /\ stop' = stop /\ failure' = failure /\ cancelReq' = cancelReq /\ engine' = engine
      /\ perils' = perils
  BY DEF RefuseDelete, pageVars, history
<1>2. Types'
  BY <1>1, <1>a DEF CrawlInv, Types
<1>3. Frontier'
  <2>1. request # "idle"
    BY <1>1 DEF CrawlInv, Frontier
  <2> QED
    BY <1>1, <1>a, <2>1 DEF CrawlInv, Frontier
<1>4. Counters'
  BY <1>1 DEF CrawlInv, Counters, Completed, Failed, Queued
<1>5. Charges'
  BY <1>1, <1>a DEF CrawlInv, Charges, ChargedIsKept
<1>6. Bounds'
  <2>1. /\ Cardinality(ledger') <= Cardinality(ledger) /\ Cardinality(ledger') \in Nat
        /\ Cardinality(ledger) \in Nat /\ Cardinality(Running) \in Nat
    BY <1>1, Counted, SubsetSize, SetSize DEF CrawlInv
  <2>2. Cardinality(ledger') + Cardinality(Running) < Limit + MaxInFlight
    BY <2>1, Sizes DEF CrawlInv, Bounds
  <2> QED
    BY <1>1, <1>a, <2>2 DEF CrawlInv, Bounds, Asks, Running, InFlightBounded
<1>7. Claiming'
  BY <1>1, <1>a DEF CrawlInv, Claiming
<1>8. Once'
  <2>1. \A u \in Urls : Recorded(u)' => Recorded(u)
    BY <1>a DEF Recorded
  <2> QED
    BY <1>1, <1>a, <2>1 DEF CrawlInv, Once, FetchedOnce
<1>9. Closing'
  BY <1>1, <1>a DEF CrawlInv, Closing, ClosedForGood, Closed, LeftOpen
<1> QED
  BY <1>2, <1>3, <1>4, <1>5, <1>6, <1>7, <1>8, <1>9 DEF CrawlInv

-----------------------------------------------------------------------------
(* Every step *)

LEMMA MainStepKeeps == ASSUME CrawlInv, Main PROVE CrawlInv'
  BY DrainedKeeps, StartedKeeps, SeedAdmittedKeeps, LoopKeeps, StartPagesKeeps, SettleKeeps,
     WakeKeeps, FinishedKeeps DEF Main

LEMMA WorkersKeep == ASSUME CrawlInv, Workers PROVE CrawlInv'
  BY CrawlStartedKeeps, AdmitSeedKeeps, ClaimCrawlPagesKeeps, FinishCrawlKeeps DEF Workers

LEMMA ApiKeeps ==
    ASSUME CrawlInv,
           \/ CreateCrawl \/ Request \/ StartRefused \/ StartAmbiguous \/ ApiDies
           \/ CancelCrawl \/ TellEngine \/ BeginDelete \/ CommitDelete \/ RefuseDelete
    PROVE  CrawlInv'
  BY CreateCrawlKeeps, StartKeeps, FailUnstartedKeeps, NotStartedKeeps, CancelCrawlKeeps,
     TellEngineKeeps, BeginDeleteKeeps, CommitDeleteKeeps, RefuseDeleteKeeps DEF Request

LEMMA PageStepKeeps ==
    ASSUME CrawlInv, NEW u \in Urls, AdmitLinks(u) \/ RecordCrawlPage(u) \/ Pages(u) \/ PageGivesUp(u)
    PROVE  CrawlInv'
  BY AdmitLinksKeeps, RecordCrawlPageKeeps, FetchKeeps, PageRecordedKeeps, LinksAdmittedKeeps,
     PageGivesUpKeeps DEF Pages

LEMMA StutterKeeps == ASSUME CrawlInv, UNCHANGED vars PROVE CrawlInv'
<1>1. /\ UNCHANGED <<rowVars, mainVars, pageVars, history, freed>>
      /\ cancelReq' = cancelReq /\ engine' = engine /\ telling' = telling /\ perils' = perils
      /\ request' = request /\ deleting' = deleting
  BY DEF vars, apiVars, mainVars
<1>2. /\ cancelReq' \in BOOLEAN /\ engine' \in {"no", "asked", "delivered"}
      /\ telling' \in BOOLEAN /\ perils' \in 0 .. MaxPerils
  BY <1>1 DEF CrawlInv, Types
<1> QED
  BY <1>1, <1>2, OutsideKeeps

LEMMA StepsKeep == ASSUME CrawlInv, [Next]_vars PROVE CrawlInv'
<1>1. CASE \/ CreateCrawl \/ Request \/ StartRefused \/ StartAmbiguous \/ ApiDies
           \/ CancelCrawl \/ TellEngine \/ BeginDelete \/ CommitDelete \/ RefuseDelete
  BY <1>1, ApiKeeps
<1>2. CASE Workers \/ ClaimTimesOut \/ LateClaim
  BY <1>2, WorkersKeep, ClaimTimesOutKeeps, LateClaimKeeps
<1>3. CASE Main \/ CallGivesUp \/ DeliverCancel
  BY <1>3, MainStepKeeps, CallGivesUpKeeps, DeliverCancelKeeps
<1>4. CASE \E u \in Urls : AdmitLinks(u) \/ RecordCrawlPage(u) \/ Pages(u) \/ PageGivesUp(u)
  BY <1>4, PageStepKeeps
<1>5. CASE UNCHANGED vars
  BY <1>5, StutterKeeps
<1> QED
  BY <1>1, <1>2, <1>3, <1>4, <1>5 DEF Next

(* Whatever is retried, lost, late, cancelled or deleted, the frontier, its *)
(* pages, the claims and the workflow's tasks fit each other: the activities *)
(* of activities/crawls.py and the fields of CrawlWorkflow keep it.         *)
THEOREM CrawlInvHolds == Spec => []CrawlInv
<1>1. Init => CrawlInv
  BY StartsRight
<1>2. CrawlInv /\ [Next]_vars => CrawlInv'
  BY StepsKeep
<1> QED
  BY <1>1, <1>2, PTL DEF Spec

LEMMA CountsAreBounded == ASSUME CrawlInv PROVE CountersMatch
<1>1. /\ queued \in 0 .. MaxPages /\ completed \in Nat /\ failed \in Nat
      /\ finished \in 0 .. PagesPerRun - 1 + MaxInFlight
  <2>1. /\ Cardinality(Completed) \in Nat /\ Cardinality(Failed) \in Nat
        /\ Cardinality(Queued) \in Nat /\ Cardinality(inFlight) \in Nat
        /\ finished \in Nat
    BY Counted DEF CrawlInv, Types
  <2> QED
    BY <2>1, Sizes DEF CrawlInv, Counters, Bounds
<1>2. TypeOK
  BY <1>1 DEF CrawlInv, Types, TypeOK
<1> QED
  BY <1>2 DEF CrawlInv, Counters, CountersMatch, Completed, Failed, Queued

(* The counters GET /crawls/{id} shows, and the one admit_urls holds against *)
(* max_pages, are what the rows of crawl_pages and crawl_queue count.        *)
THEOREM CountersHold == Spec => []CountersMatch
  BY CrawlInvHolds, CountsAreBounded, PTL

(* storage_objects has a row for exactly the pages recorded completed, and  *)
(* each has its objects: discard_unrecorded never takes those of a page the *)
(* ledger charges, however its record is repeated or the crawl closed.      *)
THEOREM ChargesHold == Spec => []ChargedIsKept
<1>1. CrawlInv => ChargedIsKept
  BY DEF CrawlInv, Charges
<1> QED
  BY <1>1, CrawlInvHolds, PTL

(* A page is fetched by one task, crawl_max_in_flight is kept to, and the    *)
(* owner passes the storage limit by less than the pages in flight, over     *)
(* every loss, retry and late answer of claim_crawl_pages.                   *)
THEOREM FetchesHold == Spec => []FetchesBounded
<1>1. CrawlInv => FetchesBounded
  <2> SUFFICES ASSUME CrawlInv PROVE FetchesBounded
    OBVIOUS
  <2>1. Cardinality(ledger) < Limit + MaxInFlight
    BY Counted, Sizes DEF CrawlInv, Bounds
  <2> QED
    BY <2>1 DEF CrawlInv, Bounds, Once, FetchesBounded
<1> QED
  BY <1>1, CrawlInvHolds, PTL

(* Once CrawlWorkflow has returned from a finish_crawl that answered, the    *)
(* crawl is closed and nothing reopens a page or its place in the frontier:  *)
(* no late claim, repeated record, admission or failed start.                *)
THEOREM ClosedHolds == Spec => []ClosedForGood
<1>1. CrawlInv => ClosedForGood
  BY DEF CrawlInv, Closing
<1> QED
  BY <1>1, CrawlInvHolds, PTL
=============================================================================
