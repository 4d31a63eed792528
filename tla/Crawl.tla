-------------------------------- MODULE Crawl --------------------------------
(***************************************************************************)
(* The crawl lane: one crawl from POST /crawls to its outcome.             *)
(*                                                                         *)
(* The frontier is in Postgres; every activity locks the crawl's row, so   *)
(* each is one atomic step here.  The workflow (CrawlWorkflow) is one main *)
(* coroutine, which claims pages and starts a task for each, and those     *)
(* tasks, which wait for their host, fetch, record the page and admit its  *)
(* links.  All of them share the workflow's fields and run one at a time,  *)
(* between awaits; the activities they await run in other processes.       *)
(*                                                                         *)
(* Abstracted: a page and its objects are named by the page's URL (the     *)
(* frontier has one row per URL); the order in which the frontier is       *)
(* claimed; which refusal a URL met; a page's sitemap entries arrive with  *)
(* its links.                                                              *)
(***************************************************************************)
EXTENDS Naturals, FiniteSets

CONSTANTS
    Urls, Seed,
    Links,        \* what each page links to (its sitemaps' entries among them)
    MaxPages,     \* crawls.max_pages
    MaxInFlight,  \* settings.crawl_max_in_flight
    PagesPerRun,  \* settings.crawl_pages_per_run
    Limit,        \* the owner's storage limit, in pages
    Perils,       \* which of PerilKinds the environment may do
    MaxPerils     \* how many budgeted perils a behaviour may have (a bound)

(* "rerun": an attempt runs although its call was answered or given up;    *)
(* "delete": a permanent delete.  The others are budgeted by MaxPerils.    *)
PerilKinds == {"rerun", "delete", "refuse", "ambiguous", "api_crash", "outage",
               "unheard", "late_claim", "minio"}

ASSUME SeedAssumption == Seed \in Urls /\ IsFiniteSet(Urls)
ASSUME LinksAssumption == Links \in [Urls -> SUBSET Urls]
ASSUME BoundsAssumption ==
    /\ MaxPages \in Nat \ {0} /\ MaxInFlight \in Nat \ {0} /\ PagesPerRun \in Nat \ {0}
    /\ Limit \in Nat /\ MaxPerils \in Nat /\ Perils \subseteq PerilKinds

VARIABLES
    status,     \* crawls.status; "none" before the insert, "gone" after the delete
    queue,      \* crawl_queue.status by URL; "unseen": no row
    page,       \* crawl_pages.status by URL; "none": no row
    queued, completed, failed,   \* the crawl's three counters
    hooks,      \* the crawl's webhook_deliveries rows, by event
    ledger,     \* pages with a storage_objects row
    stored,     \* pages with objects in MinIO
    request,    \* the POST /crawls request
    telling,    \* an API request has yet to pass its cancel to the engine
    deleting,   \* the DELETE ?permanent=true request
    freed,      \* pages whose objects a permanent delete removed
    pc, ret,    \* what the main coroutine awaits, and its answer
    claim,      \* the input of its last claim
    late,       \* the input of a claim attempt the engine timed out and that runs on
    asked,      \* the main coroutine's database calls made so far
    outcome,    \* the input of its finish_crawl call
    inFlight,   \* self._in_flight
    task,       \* the last step of each page's task
    reply,      \* the answer to it, once there is one
    finished,   \* self._finished
    woken,      \* a page ended since the main coroutine went to wait
    stop,       \* self._stop
    failure,    \* self._failure is set
    cancelReq,  \* self._cancel_requested
    engine,     \* the engine's cancellation of the workflow
    cutShort,   \* history: it landed while the main coroutine drained a failure
    gaveUp,     \* history: finish_crawl exhausted its retries
    forgot,     \* history: a failure was dropped by continue-as-new
    twice,      \* history: pages fetched by two tasks
    perils      \* how many budgeted perils have happened

rowVars == <<status, queue, page, queued, completed, failed, hooks, ledger, stored>>
apiVars == <<request, telling, deleting, freed>>
mainVars == <<pc, ret, claim, late, asked, outcome>>
pageVars == <<inFlight, task, reply, finished, woken, stop, failure>>
history == <<cutShort, gaveUp, forgot, twice>>
vars == <<rowVars, apiVars, mainVars, pageVars, cancelReq, engine, history, perils>>

Open == {"queued", "running"}
Terminal == {"completed", "failed", "cancelled"}
Statuses == Open \cup Terminal \cup {"none", "gone"}
ClaimInputs == [limit : 0 .. MaxInFlight, inFlight : SUBSET Urls]
NoClaim == [limit |-> 0, inFlight |-> {}]

(* An activity's answer; each activity fills in what its caller reads.     *)
Said(s) == [state |-> s, full |-> FALSE, pages |-> {}, refused |-> FALSE]
NoAnswer == Said("no answer")

Init ==
    /\ status = "none" /\ hooks = {} /\ ledger = {} /\ stored = {}
    /\ queue = [u \in Urls |-> "unseen"] /\ page = [u \in Urls |-> "none"]
    /\ queued = 0 /\ completed = 0 /\ failed = 0
    /\ request = "idle" /\ telling = FALSE /\ deleting = "no" /\ freed = {}
    /\ pc = "none" /\ ret = NoAnswer /\ claim = NoClaim /\ late = NoClaim
    /\ asked = {} /\ outcome = "cancelled"
    /\ inFlight = {} /\ task = [u \in Urls |-> "none"]
    /\ reply = [u \in Urls |-> NoAnswer]
    /\ finished = 0 /\ woken = FALSE /\ stop = "no" /\ failure = FALSE
    /\ cancelReq = FALSE /\ engine = "no"
    /\ cutShort = FALSE /\ gaveUp = FALSE /\ forgot = FALSE /\ twice = {}
    /\ perils = 0

Peril(k) ==
    /\ k \in Perils
    /\ perils < MaxPerils
    /\ perils' = perils + 1

SmallerOf(m, n) == IF m < n THEN m ELSE n

-----------------------------------------------------------------------------
(* The API: create_crawl, its failed start, cancel_crawl, permanent delete. *)

(* Committed before anything is dispatched; admission refuses an owner at  *)
(* the storage limit.                                                      *)
CreateCrawl ==
    /\ request = "idle" /\ 0 < Limit
    /\ request' = "committed"
    /\ status' = "queued"
    /\ UNCHANGED <<queue, page, queued, completed, failed, hooks, ledger, stored, telling,
                   deleting, freed, mainVars, pageVars, cancelReq, engine, history, perils>>

Call(c) ==
    /\ pc' = c
    /\ ret' = NoAnswer
    /\ asked' = asked \cup {c}

StartWorkflow ==
    /\ request = "committed"
    /\ request' = "over"
    /\ Call("started")
    /\ UNCHANGED <<rowVars, telling, deleting, freed, claim, late, outcome, pageVars,
                   cancelReq, engine, history, perils>>

StartRefused ==
    /\ request = "committed"
    /\ Peril("refuse")
    /\ request' = "refused"
    /\ UNCHANGED <<rowVars, telling, deleting, freed, mainVars, pageVars, cancelReq, engine,
                   history>>

(* The engine started the workflow but the client saw an error. *)
StartAmbiguous ==
    /\ request = "committed"
    /\ Peril("ambiguous")
    /\ request' = "refused"
    /\ Call("started")
    /\ UNCHANGED <<rowVars, telling, deleting, freed, claim, late, outcome, pageVars,
                   cancelReq, engine, history>>

(* fail_unstarted_crawl: an UPDATE by primary key that does not look at    *)
(* the status; on a deleted row it raises and the request ends.            *)
FailUnstartedCrawl ==
    /\ request = "refused"
    /\ request' = "over"
    /\ IF status = "gone" THEN UNCHANGED <<status, hooks>>
       ELSE status' = "failed" /\ hooks' = hooks \cup {"crawl.failed"}
    /\ UNCHANGED <<queue, page, queued, completed, failed, ledger, stored, telling, deleting,
                   freed, mainVars, pageVars, cancelReq, engine, history, perils>>

ApiDies ==
    /\ request \in {"committed", "refused"}
    /\ Peril("api_crash")
    /\ request' = "over"
    /\ UNCHANGED <<rowVars, telling, deleting, freed, mainVars, pageVars, cancelReq, engine,
                   history>>

(* cancel_crawl: the crawl and what is left of its frontier; a page in     *)
(* flight is left to the workflow, which is told next, best effort.        *)
CancelCrawl ==
    /\ status \in Open
    /\ status' = "cancelled"
    /\ queue' = [u \in Urls |-> IF queue[u] = "pending" THEN "skipped" ELSE queue[u]]
    /\ telling' = TRUE
    /\ UNCHANGED <<page, queued, completed, failed, hooks, ledger, stored, request, deleting,
                   freed, mainVars, pageVars, cancelReq, engine, history, perils>>

TellEngine ==
    /\ telling
    /\ telling' = FALSE
    /\ engine' = IF engine = "no" /\ pc \notin {"none", "done"} THEN "asked" ELSE engine
    /\ UNCHANGED <<rowVars, request, deleting, freed, mainVars, pageVars, cancelReq, history,
                   perils>>

(* Permanent delete, first half: an active crawl's workflow is cancelled,  *)
(* and the objects of the ledger's rows are removed (kept: could not be).  *)
BeginDelete ==
    /\ "delete" \in Perils
    /\ status \notin {"none", "gone"}
    /\ deleting = "no" /\ ~telling
    /\ engine' \in IF status \in Open /\ engine = "no" /\ pc \notin {"none", "done"}
                     THEN {"no", "asked"} ELSE {engine}
    /\ \E kept \in SUBSET (ledger \ freed) :
         /\ IF kept = {} THEN UNCHANGED perils ELSE Peril("minio")
         /\ deleting' = IF kept = {} THEN "purge" ELSE "refuse"
         /\ freed' = ledger \ kept
         /\ stored' = stored \ (ledger \ kept)
    /\ UNCHANGED <<status, queue, page, queued, completed, failed, hooks, ledger, request,
                   telling, mainVars, pageVars, cancelReq, history>>

(* Second half: the crawl goes, and the cascade takes all its rows. *)
CommitDelete ==
    /\ deleting = "purge"
    /\ deleting' = "over"
    /\ status' = "gone"
    /\ queue' = [u \in Urls |-> "unseen"] /\ page' = [u \in Urls |-> "none"]
    /\ queued' = 0 /\ completed' = 0 /\ failed' = 0
    /\ hooks' = {} /\ ledger' = {} /\ freed' = {}
    /\ UNCHANGED <<stored, request, telling, mainVars, pageVars, cancelReq, engine, history,
                   perils>>

(* Second half when an object stayed: what was freed stays freed, 503. *)
RefuseDelete ==
    /\ deleting = "refuse"
    /\ deleting' = "over"
    /\ ledger' = ledger \ freed
    /\ UNCHANGED <<status, queue, page, queued, completed, failed, hooks, stored, request,
                   telling, freed, mainVars, pageVars, cancelReq, engine, history, perils>>

-----------------------------------------------------------------------------
(* The activities: activities/crawls.py, each a transaction that locks the *)
(* crawl's row first.                                                      *)

Attempt(c) ==
    /\ c \in asked
    /\ (pc = c /\ ret = NoAnswer) \/ "rerun" \in Perils

(* The engine takes the answer if the call is still awaited; it may be     *)
(* lost on the way, and then the call is attempted again.                  *)
Hear(c, a) ==
    \/ /\ ret' = IF pc = c /\ ret = NoAnswer THEN a ELSE ret
       /\ UNCHANGED perils
    \/ /\ pc = c /\ ret = NoAnswer
       /\ Peril("unheard")
       /\ UNCHANGED ret

AwaitsPage(u, steps) == u \in inFlight /\ task[u] \in steps /\ reply[u] = NoAnswer

HearPage(u, steps, a) ==
    reply' = IF AwaitsPage(u, steps) THEN [reply EXCEPT ![u] = a] ELSE reply

CrawlStarted ==
    /\ Attempt("started")
    /\ status' = IF status = "queued" THEN "running" ELSE status
    /\ Hear("started", Said(status'))
    /\ UNCHANGED <<queue, page, queued, completed, failed, hooks, ledger, stored, apiVars, pc,
                   claim, late, asked, outcome, pageVars, cancelReq, engine, history>>

(* Mutant of Admitting: a closed crawl admits URLs too. *)
AdmittingAny == status \notin {"none", "gone"}

Admitting == status = "running"

Room == MaxPages - queued

(* _Gate.reason, what it may refuse of the URLs put to it: a URL out of    *)
(* the crawl's scope, filtered by its paths, or on a host that is private  *)
(* or does not resolve.  It answers by the URL's look-up of the moment, so *)
(* any of them may be refused; its drop is counted and keeps it out.       *)
Refuses(fresh, refused) == refused \subseteq fresh

(* admit_urls on a running crawl: of the URLs found that have no row yet,  *)
(* the refused get a dropped row, and as many of the rest as there is room *)
(* for join the frontier.  A full frontier vets nothing.                   *)
Admits(found, taken, refused) ==
    LET fresh == {u \in found : queue[u] = "unseen"} IN
    /\ IF Room > 0 THEN Refuses(fresh, refused) ELSE refused = {}
    /\ taken \subseteq fresh \ refused
    /\ Cardinality(taken) = SmallerOf(Room, Cardinality(fresh \ refused))
    /\ queue' = [u \in Urls |-> IF u \in taken THEN "pending"
                                ELSE IF u \in refused THEN "dropped" ELSE queue[u]]
    /\ queued' = queued + Cardinality(taken)

AdmitSeed ==
    /\ Attempt("seed")
    /\ IF ~Admitting
         THEN /\ UNCHANGED <<queue, queued>>
              /\ Hear("seed", Said(status))
         ELSE \E taken, refused \in SUBSET {Seed} :
                /\ Admits({Seed}, taken, refused)
                /\ Hear("seed", [Said("running") EXCEPT
                                   !.refused = taken = {} /\ refused # {}])
    /\ UNCHANGED <<status, page, completed, failed, hooks, ledger, stored, apiVars, pc, claim,
                   late, asked, outcome, pageVars, cancelReq, engine, history>>

(* What the extraction of a fetched page hands on: its links and, for a     *)
(* seed, the sitemap's entries, duplicates dropped.                         *)
ExtractLinks(u) == Links[u]

AdmitLinks(u) ==
    /\ task[u] = "links"
    /\ AwaitsPage(u, {"links"}) \/ "rerun" \in Perils
    /\ IF ~Admitting
         THEN UNCHANGED <<queue, queued>>
         ELSE \E taken, refused \in SUBSET ExtractLinks(u) :
                Admits(ExtractLinks(u), taken, refused)
    /\ HearPage(u, {"links"}, Said(status))
    /\ UNCHANGED <<status, page, completed, failed, hooks, ledger, stored, apiVars, mainVars,
                   inFlight, task, finished, woken, stop, failure, cancelReq, engine, history,
                   perils>>

(* storage_usage: used >= limit. *)
Full(charged) == Cardinality(charged) >= Limit

(* Mutant of HandedBack: a page in flight is handed back too. *)
HandedBackAny(in) == {u \in Urls : queue[u] = "dispatched"}

(* Claimed earlier and not being fetched: a claim whose answer was lost. *)
HandedBack(in) == {u \in Urls : queue[u] = "dispatched"} \ in.inFlight

NewPages(in, old) == in.limit - Cardinality(old)

Pending == {u \in Urls : queue[u] = "pending"}

(* One attempt at claim_crawl_pages with the input in: what was claimed    *)
(* and never fetched (old) first, then the frontier's next pages (new).    *)
Claims(in, old, new) ==
    /\ IF status = "running" /\ ~Full(ledger)
         THEN /\ Cardinality(old) = SmallerOf(in.limit, Cardinality(HandedBack(in)))
              /\ Cardinality(new) = SmallerOf(NewPages(in, old), Cardinality(Pending))
         ELSE old = {} /\ new = {}
    /\ queue' = [u \in Urls |-> IF u \in new THEN "dispatched" ELSE queue[u]]
    /\ page' = [u \in Urls |-> IF u \in new THEN "running" ELSE page[u]]

ClaimAnswer(old, new) ==
    [Said(status) EXCEPT !.full = status = "running" /\ Full(ledger), !.pages = old \cup new]

ClaimCrawlPages ==
    /\ pc = "claim" /\ ret = NoAnswer
    /\ \E old \in SUBSET HandedBack(claim), new \in SUBSET Pending :
         /\ Claims(claim, old, new)
         /\ Hear("claim", ClaimAnswer(old, new))
    /\ UNCHANGED <<status, queued, completed, failed, hooks, ledger, stored, apiVars, pc,
                   claim, late, asked, outcome, pageVars, cancelReq, engine, history>>

(* An attempt at a claim is timed out and runs on beside the next one... *)
ClaimTimesOut ==
    /\ pc = "claim" /\ ret = NoAnswer
    /\ late = NoClaim
    /\ Peril("late_claim")
    /\ late' = claim
    /\ UNCHANGED <<rowVars, apiVars, pc, ret, claim, asked, outcome, pageVars, cancelReq,
                   engine, history>>

(* ...and commits, its answer refused. *)
LateClaim ==
    /\ late # NoClaim
    /\ late' = NoClaim
    /\ \E old \in SUBSET HandedBack(late), new \in SUBSET Pending : Claims(late, old, new)
    /\ UNCHANGED <<status, queued, completed, failed, hooks, ledger, stored, apiVars, pc, ret,
                   claim, asked, outcome, pageVars, cancelReq, engine, history, perils>>

(* Mutant of Recount: the pages are counted before they are flushed. *)
RecountUnflushed ==
    /\ completed' = Cardinality({u \in Urls : page[u] = "completed"})
    /\ failed' = Cardinality({u \in Urls : page[u] = "failed"})

(* crawl_progress.recount: the counters are read off the flushed pages. *)
Recount ==
    /\ completed' = Cardinality({u \in Urls : page'[u] = "completed"})
    /\ failed' = Cardinality({u \in Urls : page'[u] = "failed"})

Recording == {"keep", "fail", "drop"}

(* Which status the page's record_crawl_page call carries; it was made     *)
(* before the page's links were admitted.                                  *)
Verdict(u) == IF task[u] = "links" THEN "keep" ELSE task[u]

(* Mutant of Settled: a page recorded before the crawl stopped is dropped. *)
SettledWhileRunning(u) == page[u] \in Terminal /\ status = "running"

(* A page already recorded is left as it is. *)
Settled(u) == page[u] \in Terminal

SetPage(u, p, q) ==
    /\ page' = [page EXCEPT ![u] = p]
    /\ queue' = [queue EXCEPT ![u] = q]

(* discard_unrecorded, then the page's outcome in a word. *)
Discard(u) == stored' = stored \ ({u} \ ledger)

RecordCrawlPage(u) ==
    /\ Verdict(u) \in Recording
    /\ AwaitsPage(u, Recording) \/ "rerun" \in Perils
    /\ \/ /\ page[u] = "none"
          /\ Discard(u)
          /\ UNCHANGED <<queue, page, completed, failed, ledger>>
       \/ /\ Settled(u)
          /\ UNCHANGED <<queue, page, completed, failed, ledger, stored>>
       \/ /\ page[u] # "none" /\ ~Settled(u)
          /\ status # "running" \/ Verdict(u) = "drop"
          /\ Discard(u)
          /\ SetPage(u, "cancelled", "skipped") /\ Recount
          /\ UNCHANGED ledger
       \/ /\ page[u] # "none" /\ ~Settled(u)
          /\ status = "running" /\ Verdict(u) = "keep"
          /\ ledger' = ledger \cup {u}
          /\ SetPage(u, "completed", "completed") /\ Recount
          /\ UNCHANGED stored
       \/ /\ page[u] # "none" /\ ~Settled(u)
          /\ status = "running" /\ Verdict(u) = "fail"
          /\ Discard(u)
          /\ SetPage(u, "failed", "failed") /\ Recount
          /\ UNCHANGED ledger
    /\ HearPage(u, Recording, [Said(status) EXCEPT !.full = Full(ledger')])
    /\ UNCHANGED <<status, queued, hooks, apiVars, mainVars, inFlight, task, finished, woken,
                   stop, failure, cancelReq, engine, history, perils>>

EventOf == [completed |-> "crawl.completed", failed |-> "crawl.failed"]

(* finish_crawl: an open crawl takes the workflow's outcome, and its       *)
(* webhook row; what is left of the pages and the frontier is closed.      *)
FinishCrawl ==
    /\ Attempt("finish")
    /\ IF status = "gone" THEN UNCHANGED <<status, queue, page, completed, failed, hooks>>
       ELSE /\ status' = IF status \in Open THEN outcome ELSE status
            /\ page' = [u \in Urls |->
                          IF page[u] # "running" THEN page[u]
                          ELSE IF status' = "cancelled" THEN "cancelled" ELSE "failed"]
            /\ queue' = [u \in Urls |->
                           IF queue[u] \in {"pending", "dispatched"} THEN "skipped" ELSE queue[u]]
            /\ Recount
            /\ hooks' = hooks \cup (IF status \in Open /\ status' # "cancelled"
                                      THEN {EventOf[status']} ELSE {})
    /\ Hear("finish", Said(status'))
    /\ UNCHANGED <<queued, ledger, stored, apiVars, pc, claim, late, asked, outcome, pageVars,
                   cancelReq, engine, history>>

-----------------------------------------------------------------------------
(* The workflow.  "loop" and "settle" are points of the main coroutine     *)
(* between two awaits: nothing else of the workflow runs there.            *)

Yielded == pc \notin {"none", "loop", "settle", "done"}

(* What the main coroutine leaves alone when it only moves on. *)
MainOnly == UNCHANGED <<rowVars, apiVars, late, engine, perils>>

Goto(p) == pc' = p /\ ret' = NoAnswer /\ UNCHANGED <<claim, asked>>

Finish(to) ==
    /\ Call("finish")
    /\ outcome' = to
    /\ UNCHANGED claim

(* _drain: the waits for a host end, and their pages are recorded          *)
(* cancelled; a page past its wait runs on.                                *)
Drain(to) ==
    /\ Goto("drain")
    /\ outcome' = to
    /\ task' = [u \in Urls |-> IF u \in inFlight /\ task[u] = "slot" THEN "drop" ELSE task[u]]
    /\ UNCHANGED <<inFlight, reply, finished, woken, stop, failure>>

Drained ==
    /\ pc = "drain" /\ inFlight = {}
    /\ Finish(outcome)
    /\ UNCHANGED <<pageVars, cancelReq, history>>
    /\ MainOnly

Started ==
    /\ pc = "started" /\ ret # NoAnswer
    /\ IF ret.state = "running"
         THEN Call("seed") /\ UNCHANGED <<claim, outcome>>
         ELSE Finish("cancelled")
    /\ UNCHANGED <<pageVars, cancelReq, history>>
    /\ MainOnly

SeedAdmitted ==
    /\ pc = "seed" /\ ret # NoAnswer
    /\ IF ret.refused THEN Finish("failed") ELSE Goto("loop") /\ UNCHANGED outcome
    /\ stop' = IF ret.state = "running" THEN stop ELSE "stopped"
    /\ UNCHANGED <<inFlight, task, reply, finished, woken, failure, cancelReq, history>>
    /\ MainOnly

RunFull == finished >= PagesPerRun

(* The top of the loop: a cancel or a failure ends it; else claim while    *)
(* pages may start.                                                        *)
Loop ==
    /\ pc = "loop"
    /\ \/ cancelReq /\ Drain("cancelled")
       \/ ~cancelReq /\ failure /\ Drain("failed")
       \/ /\ ~cancelReq /\ ~failure
          /\ IF stop = "no" /\ ~RunFull /\ Cardinality(inFlight) < MaxInFlight
               THEN /\ Call("claim")
                    /\ claim' = [limit |-> MaxInFlight - Cardinality(inFlight),
                                 inFlight |-> inFlight]
               ELSE Goto("settle")
          /\ UNCHANGED <<outcome, pageVars>>
    /\ UNCHANGED <<cancelReq, history>>
    /\ MainOnly

(* The claim's answer: a task for each page not in flight already. *)
StartPages ==
    /\ pc = "claim" /\ ret # NoAnswer
    /\ LET pages == ret.pages \ inFlight IN
       IF cancelReq THEN Drain("cancelled") /\ UNCHANGED twice
       ELSE /\ Goto("settle")
            /\ stop' = IF ret.state # "running" THEN "stopped" ELSE IF ret.full THEN "full" ELSE stop
            /\ inFlight' = inFlight \cup pages
            /\ twice' = twice \cup {u \in pages : task[u] # "none"}
            /\ task' = [u \in Urls |-> IF u \in pages THEN "slot" ELSE task[u]]
            /\ reply' = [u \in Urls |-> IF u \in pages THEN NoAnswer ELSE reply[u]]
            /\ UNCHANGED <<outcome, finished, woken, failure>>
    /\ UNCHANGED <<cancelReq, cutShort, gaveUp, forgot>>
    /\ MainOnly

(* Nothing in flight: continue as new when this run is full, else the end. *)
(* The new run starts with fresh fields, a failure not yet raised among    *)
(* what is lost.                                                           *)
Settle ==
    /\ pc = "settle"
    /\ \/ /\ inFlight # {}
          /\ Goto("wait") /\ woken' = FALSE
          /\ UNCHANGED <<outcome, inFlight, task, reply, finished, stop, failure, forgot>>
       \/ /\ inFlight = {} /\ stop = "no" /\ RunFull
          /\ Goto("loop")
          /\ finished' = 0 /\ failure' = FALSE /\ forgot' = (forgot \/ failure)
          /\ UNCHANGED <<outcome, inFlight, task, reply, woken, stop>>
       \/ /\ inFlight = {} /\ ~(stop = "no" /\ RunFull)
          /\ Finish(IF failure THEN "failed" ELSE IF stop = "stopped" THEN "cancelled"
                    ELSE "completed")
          /\ UNCHANGED <<pageVars, forgot>>
    /\ UNCHANGED <<cancelReq, cutShort, gaveUp, twice>>
    /\ MainOnly

Wake ==
    /\ pc = "wait" /\ woken
    /\ Goto("loop")
    /\ UNCHANGED <<outcome, pageVars, cancelReq, history>>
    /\ MainOnly

Finished ==
    /\ pc = "finish" /\ ret # NoAnswer
    /\ Goto("done")
    /\ UNCHANGED <<outcome, pageVars, cancelReq, history>>
    /\ MainOnly

(* A database call of the main coroutine exhausts its retries: the crawl   *)
(* is failed; nothing is left to do when finish_crawl is what failed.      *)
CallGivesUp ==
    /\ pc \in {"started", "seed", "claim", "finish"} /\ ret = NoAnswer
    /\ Peril("outage")
    /\ IF pc = "finish" THEN Goto("done") /\ gaveUp' = TRUE /\ UNCHANGED <<outcome, pageVars>>
       ELSE Drain("failed") /\ UNCHANGED gaveUp
    /\ UNCHANGED <<rowVars, apiVars, late, cancelReq, engine, cutShort, forgot, twice>>

(* The engine's cancel reaches the main coroutine where it awaits.  A      *)
(* database call is awaited to its end, unless the cancel arrives together *)
(* with the answer.  While it drains a failure, nothing catches the cancel *)
(* and the workflow ends there.                                            *)
DeliverCancel ==
    /\ engine = "asked" /\ Yielded
    /\ engine' = "delivered"
    /\ \/ /\ pc = "wait" \/ (pc \in {"started", "seed", "claim"} /\ ret # NoAnswer)
          /\ cancelReq' = TRUE
          /\ Drain("cancelled")
          /\ UNCHANGED cutShort
       \/ /\ pc \in {"started", "seed", "claim", "finish"}
          /\ cancelReq' = TRUE
          /\ UNCHANGED <<pc, ret, claim, asked, outcome, pageVars, cutShort>>
       \/ /\ pc = "drain" /\ inFlight # {}
          /\ Goto("done")
          /\ cutShort' = TRUE /\ inFlight' = {}
          /\ UNCHANGED <<outcome, task, reply, finished, woken, stop, failure, cancelReq>>
    /\ UNCHANGED <<rowVars, apiVars, late, gaveUp, forgot, twice, perils>>

-----------------------------------------------------------------------------
(* The page tasks. *)

PageOnly == UNCHANGED <<rowVars, apiVars, mainVars, cancelReq, engine, history>>

Step(u, from, to) ==
    /\ Yielded /\ u \in inFlight /\ task[u] \in from
    /\ task' = [task EXCEPT ![u] = to]
    /\ reply' = [reply EXCEPT ![u] = NoAnswer]

(* The host's slot is granted, or its wait is capped or fails: the page is *)
(* fetched either way.                                                     *)
SlotGranted(u) ==
    /\ Step(u, {"slot"}, "scrape")
    /\ UNCHANGED <<inFlight, finished, woken, stop, failure, perils>>
    /\ PageOnly

Scraped(u) ==
    /\ Step(u, {"scrape"}, "keep")
    /\ stored' = stored \cup {u}
    /\ UNCHANGED <<status, queue, page, queued, completed, failed, hooks, ledger, apiVars,
                   mainVars, inFlight, finished, woken, stop, failure, cancelReq, engine,
                   history, perils>>

ScrapeFails(u) ==
    /\ Step(u, {"scrape"}, "fail")
    /\ UNCHANGED <<inFlight, finished, woken, stop, failure, perils>>
    /\ PageOnly

(* Mutant of EndPage: the main coroutine is not woken. *)
EndPageSilently(u) ==
    /\ inFlight' = inFlight \ {u}
    /\ finished' = finished + 1
    /\ UNCHANGED <<task, reply, woken>>

EndPage(u) ==
    /\ inFlight' = inFlight \ {u}
    /\ finished' = finished + 1
    /\ woken' = TRUE
    /\ UNCHANGED <<task, reply>>

StopFor(a) == IF a.state # "running" THEN "stopped"
              ELSE IF a.full /\ stop = "no" THEN "full" ELSE stop

(* The page is recorded: its links are admitted next, unless the crawl     *)
(* stopped, was cancelled, or they could not be extracted.                 *)
PageRecorded(u) ==
    /\ Yielded /\ u \in inFlight /\ task[u] \in Recording /\ reply[u] # NoAnswer
    /\ stop' = StopFor(reply[u])
    /\ \/ /\ task[u] = "keep" /\ reply[u].state = "running" /\ ~cancelReq /\ ExtractLinks(u) # {}
          /\ Step(u, {"keep"}, "links")
          /\ UNCHANGED <<inFlight, finished, woken>>
       \/ EndPage(u)
    /\ UNCHANGED <<failure, perils>>
    /\ PageOnly

LinksAdmitted(u) ==
    /\ Yielded /\ u \in inFlight /\ task[u] = "links" /\ reply[u] # NoAnswer
    /\ stop' = IF reply[u].state # "running" THEN "stopped" ELSE stop
    /\ EndPage(u)
    /\ UNCHANGED <<failure, perils>>
    /\ PageOnly

(* A database call of the page exhausts its retries. *)
PageGivesUp(u) ==
    /\ Yielded /\ AwaitsPage(u, Recording \cup {"links"})
    /\ Peril("outage")
    /\ failure' = TRUE
    /\ EndPage(u)
    /\ UNCHANGED stop
    /\ PageOnly

-----------------------------------------------------------------------------
Main == Drained \/ Started \/ SeedAdmitted \/ Loop \/ StartPages \/ Settle \/ Wake \/ Finished
Pages(u) == SlotGranted(u) \/ Scraped(u) \/ ScrapeFails(u) \/ PageRecorded(u) \/ LinksAdmitted(u)
Workers == CrawlStarted \/ AdmitSeed \/ ClaimCrawlPages \/ FinishCrawl
Request == StartWorkflow \/ FailUnstartedCrawl

Next ==
    \/ CreateCrawl \/ Request \/ StartRefused \/ StartAmbiguous \/ ApiDies
    \/ CancelCrawl \/ TellEngine \/ BeginDelete \/ CommitDelete \/ RefuseDelete
    \/ Workers \/ ClaimTimesOut \/ LateClaim \/ Main \/ CallGivesUp \/ DeliverCancel
    \/ \E u \in Urls : AdmitLinks(u) \/ RecordCrawlPage(u) \/ Pages(u) \/ PageGivesUp(u)

(* A call is answered, a page is brought a step on; an attempt that is      *)
(* repeated is neither.                                                     *)
Answer == (CrawlStarted \/ AdmitSeed \/ ClaimCrawlPages \/ FinishCrawl) /\ ret' # ret
PageGoesOn(u) ==
    /\ AdmitLinks(u) \/ RecordCrawlPage(u) \/ Pages(u)
    /\ <<u \in inFlight, task[u], reply[u]>>' # <<u \in inFlight, task[u], reply[u]>>

(* The engine goes on as long as any of the crawl's work can: a call is    *)
(* attempted until it is answered or given up, a host is waited for at     *)
(* most HOST_WAIT_CAP; and the API handles its request.  Nothing makes it  *)
(* tell the engine of a cancel.                                            *)
Fairness ==
    /\ WF_vars(Request)
    /\ WF_vars(Main \/ DeliverCancel \/ Answer \/ \E u \in Urls : PageGoesOn(u))

Spec == Init /\ [][Next]_vars

FairSpec == Spec /\ Fairness

-----------------------------------------------------------------------------
(* Properties *)

TypeOK ==
    /\ status \in Statuses
    /\ queue \in [Urls -> {"unseen", "pending", "dispatched", "completed", "failed", "skipped",
                           "dropped"}]
    /\ page \in [Urls -> {"none", "running", "completed", "failed", "cancelled"}]
    /\ queued \in 0 .. MaxPages /\ completed \in Nat /\ failed \in Nat
    /\ hooks \subseteq {"crawl.completed", "crawl.failed"}
    /\ ledger \subseteq Urls /\ stored \subseteq Urls /\ freed \subseteq Urls
    /\ request \in {"idle", "committed", "refused", "over"} /\ telling \in BOOLEAN
    /\ deleting \in {"no", "purge", "refuse", "over"}
    /\ pc \in {"none", "started", "seed", "loop", "claim", "settle", "wait", "drain", "finish",
               "done"}
    /\ claim \in ClaimInputs /\ late \in ClaimInputs
    /\ asked \subseteq {"started", "seed", "claim", "finish"} /\ outcome \in Terminal
    /\ inFlight \subseteq Urls
    /\ task \in [Urls -> {"none", "slot", "scrape", "links"} \cup Recording]
    /\ finished \in 0 .. PagesPerRun - 1 + MaxInFlight /\ woken \in BOOLEAN /\ stop \in {"no", "stopped", "full"}
    /\ failure \in BOOLEAN /\ cancelReq \in BOOLEAN /\ engine \in {"no", "asked", "delivered"}
    /\ perils \in 0 .. MaxPerils

Alive == status \notin {"none", "gone"}

(* The crawl's counters are what its pages and its frontier say, whatever  *)
(* is retried: the client is shown the counters, and max_pages is held     *)
(* against one of them.                                                    *)
CountersMatch ==
    /\ TypeOK
    /\ completed = Cardinality({u \in Urls : page[u] = "completed"})
    /\ failed = Cardinality({u \in Urls : page[u] = "failed"})
    /\ queued = Cardinality({u \in Urls : queue[u] \notin {"unseen", "dropped"}})

(* The owner is charged for exactly the completed pages, and every page    *)
(* charged has its objects, until a permanent delete frees them: neither a *)
(* stop, nor a retried record, nor the end of the crawl charges a page     *)
(* that is not kept or drops one that is charged.                          *)
ChargedIsKept ==
    /\ \A u \in Urls : page[u] = "completed" <=> u \in ledger \cup freed
    /\ ledger \ freed \subseteq stored

(* A page handed back by a claim is one nobody fetched, except that a run  *)
(* that continues as new over a failure hands the failed record's page     *)
(* back; and the places a claim fills are free when its pages start.       *)
FetchedOnce == ~forgot => twice = {}
InFlightBounded == Cardinality(inFlight) <= MaxInFlight

(* However claims are lost, repeated or late, a page is fetched by one     *)
(* task, no more are in flight than the setting allows, and past the       *)
(* storage limit go only the pages in flight when the owner reached it.    *)
FetchesBounded ==
    /\ FetchedOnce
    /\ InFlightBounded
    /\ Cardinality(ledger) < Limit + MaxInFlight

LeftOpen == \E u \in Urls : page[u] = "running" \/ queue[u] \in {"pending", "dispatched"}

(* Once the workflow has closed its crawl nothing in it is open, and no    *)
(* late claim, record or admission opens anything again.                   *)
ClosedForGood == pc = "done" /\ ~gaveUp /\ ~cutShort => status \notin Open /\ ~LeftOpen

(* A crawl whose request lived is closed in the end, with nothing left     *)
(* open, unless finish_crawl exhausts its retries or a cancel cuts the     *)
(* draining of a failure short.                                            *)
CrawlEnds ==
    (status = "queued" /\ request = "committed") ~>
        \/ status \notin Open /\ ~LeftOpen
        \/ gaveUp \/ cutShort
        \/ request = "over" /\ pc = "none"

=============================================================================
