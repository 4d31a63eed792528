------------------------------ MODULE Storage ------------------------------
(***************************************************************************)
(* What one user holds: the objects in the bucket, the ledger's rows, the   *)
(* counter user_quotas.storage_bytes_used, and the transactions of several  *)
(* processes that move them: the charges of all lanes, the releases of a    *)
(* permanent delete, of the nightly cleanup and of the deletion of the      *)
(* user, and the reconciliation script (core/ledger.py, core/quota.py,      *)
(* scripts/cleanup_old_runs.py, scripts/reconcile_storage_ledger.py).       *)
(* The bucket changes at once; rows and counter when a transaction commits. *)
(***************************************************************************)
EXTENDS Integers, FiniteSets, Functions, TLC

CONSTANTS Objects, Parents, Passes,
    ParentOf,        \* the row whose work stored an object: a run, a page or a pipeline block
    Lane,            \* of a parent: "run", "page" or "block"
    Size,            \* bytes of an object
    OldObjects,      \* results there from the start
    Expired,         \* runs past their retention
    MaxFailures,     \* bound: failed removals and stats, lost transactions, repeated uploads
    MaxReconciles    \* bound: runs of the reconciliation script

Nobody == "nobody"

ASSUME StorageAssumption ==
    /\ IsFiniteSet(Objects) /\ OldObjects \subseteq Objects /\ Nobody \notin Objects \cup Passes
    /\ ParentOf \in [Objects -> Parents] /\ Lane \in [Parents -> {"run", "page", "block"}]
    /\ Size \in [Objects -> Nat \ {0}] /\ MaxFailures \in Nat /\ MaxReconciles \in Nat
    /\ \A o \in OldObjects : Lane[ParentOf[o]] = "run"
    /\ Expired \subseteq {r \in Parents : Lane[r] = "run"}

VARIABLES
    bucket,      \* objects in MinIO
    ledger,      \* storage_objects: recorded bytes, by object
    counter,     \* user_quotas.storage_bytes_used
    legacy,      \* results of runs older than the ledger, charged on the run's stamp
    parents,     \* rows of job_runs, crawl_pages, pipeline_run_blocks that exist
    stored,      \* objects a worker has stored
    holder,      \* whose transaction has the user_quotas row locked
    pass,        \* a release pass: its transaction's state
    recon,       \* the reconciliation script's
    failures, reconciles,
    unread,      \* history: rows that came while a pass that had not read them was open
    owed,        \* history: bytes the counter holds for no row
    tangled      \* history: two transactions that move the counter overlapped,
                 \* or one pass released an object both by its row and by its run

storageVars == <<bucket, ledger, counter, legacy, parents, stored, holder, pass, recon,
                 failures, reconciles, unread, owed, tangled>>
rows == <<ledger, counter, legacy, parents>>
history == <<unread, owed, tangled>>

(* The sum of f, counted byte by byte.                                      *)
BytesOf(f) == UNION {{o} \X (1..f[o]) : o \in DOMAIN f}
Bytes(f) == Cardinality(BytesOf(f))
Nothing == [o \in {} |-> 0]
With(f, o, n) == [x \in DOMAIN f \cup {o} |-> IF x = o THEN n ELSE f[x]]
Without(f, S) == Restrict(f, DOMAIN f \ S)

Unused == [op |-> "unused", scope |-> {}, work |-> Nothing, at |-> Nobody, statted |-> {},
           freed |-> 0, unowed |-> 0, gone |-> {}, failed |-> {}, again |-> {}]
Open(p) == pass[p].op \notin {"unused", "done"}
Off == [pc |-> "off", listing |-> {}, fixed |-> {}, dropped |-> {}, again |-> {}, total |-> 0, used |-> 0,
        alone |-> FALSE, failed |-> FALSE]
Busy == recon.pc # "off"

(* A legacy object is charged and has no row; the row of another old one    *)
(* holds 0 bytes, from a time when a failed stat was recorded as the size.  *)
StorageInit ==
    /\ bucket = OldObjects /\ parents = Parents /\ stored = {}
    /\ legacy \in SUBSET OldObjects
    /\ ledger = [o \in OldObjects \ legacy |-> 0]
    /\ owed = Bytes([o \in legacy |-> Size[o]]) /\ counter = owed
    /\ holder = Nobody /\ pass = [p \in Passes |-> Unused] /\ recon = Off
    /\ failures = 0 /\ reconciles = 0 /\ unread = {} /\ tangled = FALSE

Failure == failures < MaxFailures /\ failures' = failures + 1
Beside == recon' = [recon EXCEPT !.alone = FALSE]

----------------------------------------------------------------------------
(* Workers store; an activity of their lane charges.                        *)

(* The key is the artifact's own, so a retried or abandoned attempt stores   *)
(* the object again, whatever has become of it, its row or its parent.       *)
Store(o) ==
    /\ o \notin OldObjects
    /\ (o \in stored /\ Failure) \/ (o \notin stored /\ UNCHANGED failures)
    /\ stored' = stored \cup {o} /\ bucket' = bucket \cup {o}
    /\ pass' = [p \in Passes |->
           IF o \in pass[p].gone \cup {pass[p].at} THEN [pass[p] EXCEPT !.again = @ \cup {o}]
           ELSE pass[p]]
    /\ recon' = [recon EXCEPT !.alone = FALSE, !.again = @ \cup ({o} \cap recon.dropped)]
    /\ UNCHANGED <<rows, holder, reconciles, history>>

(* A bug: the increment does not look whether the row is new.               *)
ChargedAnyway(o) ==
    /\ o \in stored /\ ParentOf[o] \in parents
    /\ holder = Nobody /\ o \notin recon.fixed /\ counter < 9
    /\ ledger' = With(ledger, o, Size[o])
    /\ counter' = counter + Size[o]
    /\ Beside
    /\ UNCHANGED <<bucket, legacy, parents, stored, holder, pass, failures, reconciles, history>>

(* record_object: one insert and its increment, once per object; it waits   *)
(* for a transaction that has the counter, or this key's row, locked.       *)
Charge(o) ==
    /\ o \in stored \ DOMAIN ledger /\ ParentOf[o] \in parents
    /\ holder = Nobody /\ o \notin recon.fixed
    /\ ledger' = With(ledger, o, Size[o])
    /\ counter' = counter + Size[o]
    /\ tangled' = (tangled \/ Busy)
    /\ unread' = IF \E p \in Passes : Open(p) /\ ParentOf[o] \in pass[p].scope
                 THEN unread \cup {o} ELSE unread
    /\ owed' = IF tangled' THEN 0 ELSE owed
    /\ Beside
    /\ UNCHANGED <<bucket, legacy, parents, stored, holder, pass, failures, reconciles>>

(* The charge is retried: the row is there, and nothing moves.              *)
ChargeAgain(o) ==
    /\ o \in stored \cap DOMAIN ledger /\ ParentOf[o] \in parents
    /\ UNCHANGED storageVars

(* The job and crawl lanes drop what they stored for a row that is gone; a  *)
(* pipeline block's charge only fails.                                      *)
Discard(o) ==
    /\ o \in stored /\ o \in bucket /\ ParentOf[o] \notin parents
    /\ Lane[ParentOf[o]] # "block" /\ o \notin DOMAIN ledger
    /\ bucket' = bucket \ {o}
    /\ Beside
    /\ UNCHANGED <<rows, stored, holder, pass, failures, reconciles, history>>

----------------------------------------------------------------------------
(* Release passes: read the rows, remove each object, decrement, delete.    *)

Scope(op) ==
    CASE op = "job" -> {r \in parents : Lane[r] = "run"}
      [] op = "crawl" -> {r \in parents : Lane[r] = "page"}
      [] op = "cleanup" -> parents \cap Expired
      [] op = "user" -> parents

Begin(p, op) ==
    /\ pass[p].op = "unused" /\ Scope(op) # {}
    /\ pass' = [pass EXCEPT ![p].op = op, ![p].scope = Scope(op),
           ![p].work = Restrict(ledger, {o \in DOMAIN ledger : ParentOf[o] \in Scope(op)})]
    /\ tangled' = (tangled \/ Busy \/ \E q \in Passes : Open(q))
    /\ owed' = IF tangled' THEN 0 ELSE owed
    /\ Beside
    /\ UNCHANGED <<bucket, rows, stored, holder, failures, reconciles, unread>>

(* The rows done, the runs older than the ledger: the object is stat'ed, a  *)
(* failed or missing stat being 0 bytes.                                    *)
StatLegacy(p, o) ==
    /\ Open(p) /\ pass[p].work = Nothing /\ o \in legacy \ pass[p].statted
    /\ ParentOf[o] \in (IF pass[p].op = "user" THEN parents ELSE pass[p].scope)
    /\ \/ /\ pass' = [pass EXCEPT ![p].statted = @ \cup {o},
                ![p].work = With(Nothing, o, IF o \in bucket THEN Size[o] ELSE 0)]
          /\ UNCHANGED failures
       \/ /\ Failure /\ o \in bucket
          /\ pass' = [pass EXCEPT ![p].statted = @ \cup {o}, ![p].work = With(Nothing, o, 0)]
    /\ Beside
    /\ UNCHANGED <<bucket, rows, stored, holder, reconciles, history>>

(* delete_minio_object: removing what is not there succeeds.                *)
Remove(p, o) ==
    /\ Open(p) /\ pass[p].at = Nobody /\ o \in DOMAIN pass[p].work
    /\ bucket' = bucket \ {o}
    /\ pass' = [pass EXCEPT ![p].at = o]
    /\ Beside
    /\ UNCHANGED <<rows, stored, holder, failures, reconciles, history>>

RemoveFails(p, o) ==
    /\ Open(p) /\ pass[p].at = Nobody /\ o \in DOMAIN pass[p].work
    /\ Failure
    /\ pass' = [pass EXCEPT ![p].work = Without(@, {o}), ![p].failed = @ \cup {ParentOf[o]}]
    /\ Beside
    /\ UNCHANGED <<bucket, rows, stored, holder, reconciles, history>>

(* decrement_storage_bytes, which locks the counter until the commit, and   *)
(* the delete of the row the pass had read.  A legacy object has none,      *)
(* unless a reconciliation wrote one: then the run's stamp releases again   *)
(* what the row could not, and the row stays.                               *)
Refund(p) ==
    LET o == pass[p].at
        old == o \in pass[p].statted
    IN  /\ o # Nobody
        /\ \/ pass[p].work[o] = 0 /\ UNCHANGED holder
           \/ pass[p].work[o] > 0 /\ holder \in {Nobody, p} /\ holder' = p
        /\ pass' = [pass EXCEPT ![p].at = Nobody, ![p].work = Without(@, {o}),
               ![p].freed = @ + pass[p].work[o],
               ![p].unowed = @ + (IF old THEN pass[p].work[o] ELSE 0),
               ![p].gone = IF old THEN @ ELSE @ \cup {o}]
        /\ tangled' = (tangled \/ (old /\ pass[p].work[o] > 0 /\ o \in DOMAIN ledger))
        /\ owed' = IF tangled' THEN 0 ELSE owed
        /\ Beside
        /\ UNCHANGED <<bucket, rows, stored, failures, reconciles, unread>>

Cleared(p) ==
    /\ Open(p) /\ pass[p].at = Nobody /\ pass[p].work = Nothing
    /\ \A o \in legacy :
          ParentOf[o] \in (IF pass[p].op = "user" THEN parents ELSE pass[p].scope)
             => o \in pass[p].statted

(* A bug: the parents go whatever stayed in the bucket.                     *)
DeletesAll(p) == pass[p].scope

(* Which parents the pass deletes: a route none once an object stayed, the  *)
(* cleanup those whose objects all went.                                    *)
Deletes(p) ==
    IF pass[p].op = "cleanup" THEN pass[p].scope \ pass[p].failed
    ELSE IF pass[p].failed = {} THEN pass[p].scope ELSE {}

Close(p) ==
    /\ pass' = [pass EXCEPT ![p] = [Unused EXCEPT !.op = "done"]]
    /\ holder' = IF holder = p THEN Nobody ELSE holder
    /\ Beside

(* The commit; the parents' rows take their ledger rows with them.          *)
Finish(p) ==
    LET dropped == {o \in DOMAIN ledger : ParentOf[o] \in Deletes(p)}
    IN  /\ Cleared(p)
        /\ pass[p].op = "cleanup" => Deletes(p) # {}
        /\ (dropped \cup pass[p].gone) \cap (recon.fixed \cup recon.dropped) = {}
        /\ \A o \in recon.fixed : ParentOf[o] \notin Deletes(p)
        /\ ledger' = Without(ledger, dropped \cup pass[p].gone)
        /\ counter' = IF counter > pass[p].freed THEN counter - pass[p].freed ELSE 0
        /\ parents' = parents \ Deletes(p)
        /\ owed' = IF tangled THEN 0
                    ELSE owed - pass[p].unowed + Bytes(Restrict(ledger, dropped \ pass[p].gone))
        /\ Close(p)
        /\ UNCHANGED <<bucket, legacy, stored, failures, reconciles, unread, tangled>>

(* Lost before its commit; and a cleanup none of whose runs could be freed  *)
(* stops without committing.  The objects are gone all the same.            *)
Abandon(p) ==
    /\ \/ Open(p) /\ Failure
       \/ Cleared(p) /\ pass[p].op = "cleanup" /\ Deletes(p) = {} /\ UNCHANGED failures
    /\ Close(p)
    /\ UNCHANGED <<bucket, rows, stored, reconciles, history>>

----------------------------------------------------------------------------
(* The reconciliation: one transaction, whose removals of objects are not.  *)

(* _attribute: the runs' and the pages' tables are asked, not the blocks'.  *)
Attributable(o) == ParentOf[o] \in parents /\ Lane[ParentOf[o]] \in {"run", "page"}

(* A bug: a row that is there is left as it was recorded.                   *)
OwnAsRecorded == [o \in (DOMAIN ledger \cup recon.fixed) \ recon.dropped |->
                     IF o \in DOMAIN ledger THEN ledger[o] ELSE Size[o]]

(* What its session sees: its own writes over what is committed.            *)
Own == [o \in (DOMAIN ledger \cup recon.fixed) \ recon.dropped |->
           IF o \in recon.fixed THEN Size[o] ELSE ledger[o]]

StartWalk ==
    /\ recon.pc = "off" /\ reconciles < MaxReconciles
    /\ reconciles' = reconciles + 1
    /\ recon' = [Off EXCEPT !.pc = "walk", !.listing = bucket,
           !.alone = \A p \in Passes : ~Open(p)]
    /\ tangled' = (tangled \/ \E p \in Passes : Open(p))
    /\ owed' = IF tangled' THEN 0 ELSE owed
    /\ UNCHANGED <<bucket, rows, stored, holder, pass, failures, unread>>

(* An object's row is corrected to its size, or written if its producer is  *)
(* found.                                                                   *)
WalkRecords(o) ==
    /\ recon.pc = "walk" /\ o \in recon.listing
    /\ o \in DOMAIN ledger \/ Attributable(o)
    /\ \A p \in Passes : o \notin pass[p].gone
    /\ recon' = [recon EXCEPT !.listing = @ \ {o},
           !.fixed = IF o \in DOMAIN ledger /\ ledger[o] = Size[o] THEN @ ELSE @ \cup {o}]
    /\ UNCHANGED <<bucket, rows, stored, holder, pass, failures, reconciles, history>>

(* Nothing references it: an orphan, removed from the bucket there and then.*)
WalkRemoves(o) ==
    /\ recon.pc = "walk" /\ o \in recon.listing
    /\ o \notin DOMAIN ledger /\ ~Attributable(o)
    /\ \/ bucket' = bucket \ {o} /\ UNCHANGED failures
          /\ recon' = [recon EXCEPT !.listing = @ \ {o}]
       \/ Failure /\ UNCHANGED bucket
          /\ recon' = [recon EXCEPT !.listing = @ \ {o}, !.failed = TRUE]
    /\ UNCHANGED <<rows, stored, holder, pass, reconciles, history>>

(* _drop_dangling_rows: a row whose object is not there; a stat that fails  *)
(* keeps its row.                                                           *)
DropDangling ==
    LET dangling == {o \in DOMAIN Own : o \notin bucket}
    IN  /\ recon.pc = "walk" /\ recon.listing = {}
        /\ \A p \in Passes : dangling \cap pass[p].gone = {}
        /\ \/ /\ recon' = [recon EXCEPT !.pc = "count", !.dropped = dangling]
              /\ UNCHANGED failures
           \/ \E o \in dangling :
              /\ Failure
              /\ recon' = [recon EXCEPT !.pc = "count", !.dropped = dangling \ {o},
                     !.failed = TRUE]
        /\ UNCHANGED <<bucket, rows, stored, holder, pass, reconciles, history>>

(* _recompute_counters reads the sum and the counter, then writes the one   *)
(* over the other if they differ.                                           *)
CountRows ==
    /\ recon.pc = "count"
    /\ recon' = [recon EXCEPT !.pc = "commit", !.total = Bytes(Own), !.used = counter]
    /\ UNCHANGED <<bucket, rows, stored, holder, pass, failures, reconciles, history>>

CommitWalk ==
    /\ recon.pc = "commit"
    /\ recon.total # recon.used => holder = Nobody
    /\ ledger' = Own
    /\ counter' = IF recon.total # recon.used THEN recon.total ELSE counter
    /\ owed' = 0
    /\ tangled' = (tangled /\ ~recon.alone)
    /\ unread' = IF \E p \in Passes : Open(p) THEN unread \cup recon.fixed ELSE unread
    /\ recon' = Off
    /\ UNCHANGED <<bucket, legacy, parents, stored, holder, pass, failures, reconciles>>

(* Killed, refused by a row another transaction wrote, or the victim of a   *)
(* deadlock.                                                                *)
AbortWalk ==
    /\ Busy /\ recon' = Off
    /\ UNCHANGED <<bucket, rows, stored, holder, pass, failures, reconciles, history>>

----------------------------------------------------------------------------
Pass(p) ==
    \/ \E op \in {"job", "crawl", "cleanup", "user"} : Begin(p, op)
    \/ \E o \in Objects : StatLegacy(p, o) \/ Remove(p, o) \/ RemoveFails(p, o)
    \/ Refund(p) \/ Finish(p) \/ Abandon(p)

Reconcile ==
    \/ StartWalk \/ DropDangling \/ CountRows \/ CommitWalk \/ AbortWalk
    \/ \E o \in Objects : WalkRecords(o) \/ WalkRemoves(o)

StorageNext ==
    \/ \E o \in Objects : Store(o) \/ Charge(o) \/ ChargeAgain(o) \/ Discard(o)
    \/ \E p \in Passes : Pass(p)
    \/ Reconcile

StorageSpec == StorageInit /\ [][StorageNext]_storageVars

----------------------------------------------------------------------------
StorageTypeOK ==
    /\ bucket \subseteq Objects /\ parents \subseteq Parents
    /\ DOMAIN ledger \subseteq Objects /\ \A o \in DOMAIN ledger : ledger[o] \in {0, Size[o]}
    /\ counter \in Nat /\ owed \in Int /\ holder \in Passes \cup {Nobody}

(* As long as no two transactions that move the counter overlap, the        *)
(* counter is the sum of the rows and of what it is known to hold for none: *)
(* runs older than the ledger, and rows a cascade took that were charged    *)
(* after the pass had read the ledger.  Partial failures, lost              *)
(* transactions, repeated charges and the cleanup's silent stop keep it so. *)
CounterIsAccounted == ~tangled => owed >= 0 /\ counter = Bytes(ledger) + owed
StorageHolds == StorageTypeOK /\ CounterIsAccounted

(* A row is never dropped over an object still in the bucket, however       *)
(* passes, charges, retried uploads and the walk interleave and whatever of *)
(* them fails: an object the user would hold and nothing would list.  Only  *)
(* a row is that came after the pass had read the ledger, or one whose       *)
(* object a worker stored again after an open transaction had removed it or *)
(* found it missing (core/ledger.py release_objects, cleanup_old_runs.py,   *)
(* reconcile_storage_ledger.py _drop_dangling_rows).                        *)
StoredAgain(o) == o \in recon.again \/ \E p \in Passes : o \in pass[p].again
NoRowIsDroppedOverItsObject ==
    [][\A o \in DOMAIN ledger \ DOMAIN ledger' :
          o \in bucket' => o \in unread \/ StoredAgain(o)]_storageVars

(* A reconciliation during which nothing else moved, and in which no call   *)
(* failed, leaves the three in agreement, whatever crashes, overlaps and    *)
(* legacy runs came before it.                                              *)
RepairIsComplete ==
    [][CommitWalk /\ recon.alone /\ ~recon.failed
         => /\ DOMAIN ledger' = bucket'
            /\ \A o \in DOMAIN ledger' : ledger'[o] = Size[o]
            /\ counter' = Bytes(ledger')]_storageVars

(* "orphan - nothing in the database references it": the walk removes an    *)
(* object only if the row that produced it is gone.                         *)
WalkRemovesOrphans ==
    [][\A o \in bucket \ bucket' :
          WalkRemoves(o) => ParentOf[o] \notin parents]_storageVars
============================================================================
