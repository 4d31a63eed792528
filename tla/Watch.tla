--------------------------------- MODULE Watch ---------------------------------
(***************************************************************************)
(* Live status: rows whose commits notify a channel, the API process's one *)
(* listening connection, the queues of the WebSockets that subscribed, and *)
(* the clients that connect again until they are told an end.              *)
(*                                                                         *)
(* The job, batch and crawl sockets read the row and then subscribe; the   *)
(* pipeline's subscribes first.  A job's socket subscribes to the job, all *)
(* of whose runs notify it.  One user, one process.                        *)
(***************************************************************************)
EXTENDS Naturals, Sequences, FiniteSets

CONSTANTS
    Runs,      \* what has a status: job runs, batches, crawls, pipeline runs
    JobRuns,   \* those that are runs of one job
    Watchers,  \* clients
    RunOf,     \* the run each client asks for; one of JobRuns stands for the job
    Silent,    \* transitions that notify nobody, [run, from, to]
    Early,     \* clients whose socket reads the row before it subscribes
    Last,      \* the status that ends a run; 1 is what it is made with
    Limit,     \* ws_max_connections_per_user
    QueueMax,  \* the subscriber queue's maxsize (scaled)
    MaxLosses  \* connections lost in a behaviour (a bound)

ASSUME WatchAssumption ==
    /\ IsFiniteSet(Watchers)
    /\ JobRuns \subseteq Runs /\ RunOf \in [Watchers -> Runs]
    /\ {Last, Limit, QueueMax, MaxLosses} \subseteq Nat /\ Last > 1
    /\ {w \in Watchers : RunOf[w] \in JobRuns} \subseteq Early
    /\ Silent \subseteq [run : Runs \ JobRuns, from : 1..(Last - 1), to : 1..Last]
    /\ \A t \in Silent : t.from < t.to

VARIABLES
    statuses, \* each run's, 0 before it is made
    latest,   \* the job's latest run
    quiet,    \* history: runs whose last transition notified nobody
    wire,     \* notifications on their way to the listening connection
    conn,     \* that connection: up, half-open or lost
    pc,       \* where each client's socket is
    told,     \* the run and status its socket last told it
    queue,    \* its subscription's queue
    ghosts,   \* subscriptions whose client is gone, unnoticed
    count,    \* _user_connection_counts
    deaf,     \* history: subscriptions that lost a notification
    losses    \* how many connections have been lost

runVars == <<statuses, latest, quiet>>
notifierVars == <<wire, conn>>
watchVars == <<runVars, notifierVars, pc, told, queue, ghosts, count, deaf, losses>>

Asked == {RunOf[w] : w \in Watchers}

Untold(w) == [run |-> RunOf[w], status |-> 0]

WatchInit ==
    /\ statuses = [r \in Runs |-> IF r \in Asked THEN 1 ELSE 0]
    /\ latest \in Asked /\ (JobRuns # {} => latest \in JobRuns)
    /\ wire = <<>> /\ conn = "up"
    /\ pc = [w \in Watchers |-> "connecting"]
    /\ told = [w \in Watchers |-> Untold(w)]
    /\ queue = [w \in Watchers |-> <<>>]
    /\ ghosts = 0 /\ count = 0 /\ deaf = {} /\ quiet = {} /\ losses = 0

Subscribed == {w \in Watchers : pc[w] \in {"subscribed", "open"}}

(* A run's notifications reach who subscribed to it, or to its job. *)
Hears(w, r) == RunOf[w] = r \/ {RunOf[w], r} \subseteq JobRuns

(* The run whose row a socket reads. *)
Row(w) == IF RunOf[w] \in JobRuns THEN latest ELSE RunOf[w]

-----------------------------------------------------------------------------
(* The rows *)

Make(r) ==
    /\ statuses[r] = 0
    /\ statuses' = [statuses EXCEPT ![r] = 1]
    /\ latest' = IF r \in JobRuns THEN r ELSE latest
    /\ UNCHANGED <<quiet, notifierVars, pc, told, queue, ghosts, count, deaf, losses>>

(* A mirror notifies in its own transaction; no one listening, no replay. *)
Advance(r) ==
    /\ statuses[r] \in 1..(Last - 1)
    /\ statuses' = [statuses EXCEPT ![r] = @ + 1]
    /\ wire' = IF conn = "up" THEN Append(wire, [run |-> r, status |-> statuses'[r]]) ELSE wire
    /\ quiet' = quiet \ {r}
    /\ UNCHANGED <<latest, conn, pc, told, queue, ghosts, count, deaf, losses>>

(* A request that moves the row itself and notifies nobody: a pipeline's run *)
(* whose start failed, or was not answered, ends in whatever state it was by *)
(* then; a batch that was started is said to run.                            *)
AdvanceSilently(r) ==
    /\ \E t \in Silent :
        /\ t.run = r /\ statuses[r] = t.from
        /\ statuses' = [statuses EXCEPT ![r] = t.to]
    /\ quiet' = quiet \cup {r}
    /\ UNCHANGED <<latest, notifierVars, pc, told, queue, ghosts, count, deaf, losses>>

-----------------------------------------------------------------------------
(* JobNotifier *)

(* _deliver: a full queue drops the update. *)
Deliver ==
    /\ wire # <<>> /\ conn = "up" /\ wire' = Tail(wire)
    /\ LET m == Head(wire)
           full == {w \in Subscribed : Hears(w, m.run) /\ Len(queue[w]) >= QueueMax}
       IN /\ queue' = [w \in Watchers |-> IF w \in Subscribed \ full /\ Hears(w, m.run)
                                          THEN Append(queue[w], m) ELSE queue[w]]
          /\ deaf' = deaf \cup full
    /\ UNCHANGED <<runVars, conn, pc, told, ghosts, count, losses>>

(* The connection is closed, or nothing more comes over it. *)
LoseConnection ==
    /\ conn = "up" /\ losses < MaxLosses /\ losses' = losses + 1
    /\ conn' \in {"half", "lost"} /\ wire' = <<>>
    /\ deaf' = deaf \cup Subscribed
    /\ UNCHANGED <<runVars, pc, told, queue, ghosts, count>>

HealthCheck ==
    /\ conn = "half" /\ conn' = "lost"
    /\ UNCHANGED <<runVars, wire, pc, told, queue, ghosts, count, deaf, losses>>

Reconnect ==
    /\ conn = "lost" /\ conn' = "up"
    /\ UNCHANGED <<runVars, wire, pc, told, queue, ghosts, count, deaf, losses>>

-----------------------------------------------------------------------------
(* The sockets *)

Tells(w, m) == told' = [told EXCEPT ![w] = m]
RowOf(w) == [run |-> Row(w), status |-> statuses[Row(w)]]

ReadsRow(w) ==
    /\ w \in Early /\ pc[w] = "connecting"
    /\ Tells(w, RowOf(w))
    /\ pc' = [pc EXCEPT ![w] = IF statuses[Row(w)] = Last THEN "told" ELSE "read"]
    /\ UNCHANGED <<runVars, notifierVars, queue, ghosts, count, deaf, losses>>

(* _subscribe; over the limit the socket closes with 4029 and is retried. *)
Subscribe(w, at) ==
    /\ IF count >= Limit
       THEN /\ pc' = [pc EXCEPT ![w] = "connecting"] /\ Tells(w, Untold(w))
            /\ UNCHANGED <<queue, count, deaf>>
       ELSE /\ pc' = [pc EXCEPT ![w] = at]
            /\ queue' = [queue EXCEPT ![w] = <<>>]
            /\ count' = count + 1
            /\ deaf' = IF conn = "up" THEN deaf ELSE deaf \cup {w}
            /\ UNCHANGED told
    /\ UNCHANGED <<runVars, notifierVars, ghosts, losses>>

SubscribesAfter(w) == w \in Early /\ pc[w] = "read" /\ Subscribe(w, "open")

(* Mutant of SubscribesFirst: the row is read, and sent, before. *)
SubscribesLate(w) ==
    /\ w \notin Early
    /\ \/ pc[w] = "connecting" /\ Tells(w, RowOf(w)) /\ pc' = [pc EXCEPT ![w] = "read"]
          /\ UNCHANGED <<runVars, notifierVars, queue, ghosts, count, deaf, losses>>
       \/ pc[w] = "read" /\ Subscribe(w, "open")

SubscribesFirst(w) ==
    w \notin Early /\ pc[w] = "connecting" /\ Subscribe(w, "subscribed")

(* The subscription ends, as every way out of its context does. *)
Unsubscribe(w, at) ==
    /\ pc' = [pc EXCEPT ![w] = at]
    /\ queue' = [queue EXCEPT ![w] = <<>>]
    /\ deaf' = deaf \ {w}
    /\ count' = count - 1

(* An update in between is queued, not lost. *)
Rereads(w) ==
    /\ pc[w] = "subscribed"
    /\ Tells(w, RowOf(w))
    /\ IF statuses[Row(w)] = Last THEN Unsubscribe(w, "told")
       ELSE pc' = [pc EXCEPT ![w] = "open"] /\ UNCHANGED <<queue, count, deaf>>
    /\ UNCHANGED <<runVars, notifierVars, ghosts, losses>>

Forwards(w) ==
    /\ pc[w] = "open" /\ queue[w] # <<>>
    /\ Tells(w, Head(queue[w]))
    /\ IF Head(queue[w]).status = Last THEN Unsubscribe(w, "told")
       ELSE queue' = [queue EXCEPT ![w] = Tail(@)] /\ UNCHANGED <<pc, count, deaf>>
    /\ UNCHANGED <<runVars, notifierVars, ghosts, losses>>

(* Mutant of TimesOut: a quiet socket is kept. *)
TimesOutNever(w) == FALSE /\ UNCHANGED watchVars

(* Nothing for 300 s: the socket closes and the client connects again. *)
TimesOut(w) ==
    /\ pc[w] = "open" /\ queue[w] = <<>>
    /\ Unsubscribe(w, "connecting") /\ Tells(w, Untold(w))
    /\ UNCHANGED <<runVars, notifierVars, ghosts, losses>>

(* The client's side breaks; the socket does not know before it sends. *)
ClientDrops(w) ==
    /\ pc[w] = "open" /\ losses < MaxLosses /\ losses' = losses + 1
    /\ pc' = [pc EXCEPT ![w] = "connecting"]
    /\ queue' = [queue EXCEPT ![w] = <<>>]
    /\ ghosts' = ghosts + 1 /\ deaf' = deaf \ {w} /\ Tells(w, Untold(w))
    /\ UNCHANGED <<runVars, notifierVars, count>>

(* Mutant of GhostEnds: only a socket that closes itself leaves the count. *)
GhostKept ==
    /\ ghosts > 0 /\ ghosts' = ghosts - 1
    /\ UNCHANGED <<runVars, notifierVars, pc, told, queue, count, deaf, losses>>

GhostEnds ==
    /\ ghosts > 0 /\ ghosts' = ghosts - 1 /\ count' = count - 1
    /\ UNCHANGED <<runVars, notifierVars, pc, told, queue, deaf, losses>>

SocketSteps(w) ==
    \/ ReadsRow(w) \/ SubscribesAfter(w) \/ SubscribesFirst(w) \/ Rereads(w)
    \/ Forwards(w) \/ TimesOut(w)

WatchNext ==
    \/ \E r \in Runs : Make(r) \/ Advance(r) \/ AdvanceSilently(r)
    \/ Deliver \/ LoseConnection \/ HealthCheck \/ Reconnect \/ GhostEnds
    \/ \E w \in Watchers : SocketSteps(w) \/ ClientDrops(w)

(* Nothing is asked of the rows, nor of the notifier. *)
WatchSpec ==
    /\ WatchInit /\ [][WatchNext]_watchVars
    /\ WF_watchVars(GhostEnds) /\ \A w \in Watchers : WF_watchVars(SocketSteps(w))

-----------------------------------------------------------------------------
(* Properties *)

WatchTypeOK ==
    /\ statuses \in [Runs -> 0..Last] /\ conn \in {"up", "half", "lost"}
    /\ pc \in [Watchers -> {"connecting", "read", "subscribed", "open", "told"}]
    /\ \A w \in Watchers : Len(queue[w]) <= QueueMax

(* The user's connections are counted as they are, whichever way a socket  *)
(* ends, a client that vanished included, and never pass the limit         *)
(* (core/job_notifier.py _subscribe).                                      *)
CountIsExact ==
    /\ WatchTypeOK
    /\ count = Cardinality(Subscribed) + ghosts
    /\ count <= Limit

(* A socket that subscribes before it reads misses nothing that was        *)
(* notified and the connection heard: what its run has come to is told,    *)
(* queued or on the wire, and an end it is told is its run's.  Of a failed *)
(* start it hears nothing: that is in the row alone, and comes with the    *)
(* next socket (routers/pipelines.py create_run, run_status_stream).       *)
NothingMissed ==
    \A w \in Watchers \ Early :
        LET now == [run |-> RunOf[w], status |-> statuses[RunOf[w]]]
            coming == queue[w] \o wire
        IN /\ pc[w] = "open" /\ w \notin deaf /\ RunOf[w] \notin quiet =>
                told[w] = now \/ \E i \in 1..Len(coming) : coming[i] = now
           /\ pc[w] = "told" => statuses[RunOf[w]] = Last

Ended(w) == statuses[Row(w)] = Last

(* A client that keeps its page open is told an end, whatever was lost on  *)
(* the way: a socket that hears nothing times out, and the next one reads  *)
(* the row (job_notifier.py, the watch routes, useLiveSocket.ts).          *)
EndsAreTold == \A w \in Watchers : Ended(w) ~> (pc[w] = "told" \/ ~Ended(w))
=============================================================================
