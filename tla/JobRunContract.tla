--------------------------- MODULE JobRunContract ---------------------------
(***************************************************************************)
(* What a client of the job lane may count on, whatever happens inside: a  *)
(* run moves pending -> running -> (processing) to one outcome; the        *)
(* outcome, the result it points at and the webhook row appear in one      *)
(* step; a result is the scrape's when the run never reached processing    *)
(* and the extraction's when it did.  JobRun implements this contract.     *)
(***************************************************************************)
EXTENDS FiniteSets

CONSTANTS Runs, Subscribed

VARIABLES status, resultOf, hooks

Active == {"pending", "running", "processing"}

Init ==
    /\ status = [r \in Runs |-> "none"]
    /\ resultOf = [r \in Runs |-> "none"]
    /\ hooks = [r \in Runs |-> {}]

Become(r, st) == status' = [status EXCEPT ![r] = st]
Announce(r, e) == hooks' = [hooks EXCEPT ![r] = @ \cup ({e} \cap Subscribed)]

Submit(r) == status[r] = "none" /\ Become(r, "pending") /\ UNCHANGED <<resultOf, hooks>>

Advance(r) ==
    /\ \/ status[r] = "pending" /\ Become(r, "running")
       \/ status[r] = "running" /\ Become(r, "processing")
    /\ UNCHANGED <<resultOf, hooks>>

Complete(r) ==
    /\ \/ status[r] = "running" /\ resultOf' = [resultOf EXCEPT ![r] = "scrape"]
       \/ status[r] = "processing" /\ resultOf' = [resultOf EXCEPT ![r] = "llm"]
    /\ Become(r, "completed")
    /\ Announce(r, "job.completed")

Fail(r) ==
    /\ status[r] \in Active
    /\ Become(r, "failed")
    /\ Announce(r, "job.failed")
    /\ UNCHANGED resultOf

(* The storage wall fails a run without telling its webhook. *)
FailAtWall(r) ==
    /\ status[r] \in {"running", "processing"}
    /\ Become(r, "failed")
    /\ UNCHANGED <<resultOf, hooks>>

Cancel(r) == status[r] \in Active /\ Become(r, "cancelled") /\ UNCHANGED <<resultOf, hooks>>

(* The request that could not start the run fails it, whatever it became. *)
FailUnstarted(r) ==
    /\ status[r] \notin {"none", "gone"}
    /\ Become(r, "failed")
    /\ Announce(r, "job.failed")
    /\ UNCHANGED resultOf

Remove(r) ==
    /\ status[r] \notin {"none", "gone"}
    /\ Become(r, "gone")
    /\ hooks' = [hooks EXCEPT ![r] = {}]
    /\ UNCHANGED resultOf

Next == \E r \in Runs :
    \/ Submit(r) \/ Advance(r) \/ Complete(r) \/ Fail(r) \/ FailAtWall(r)
    \/ Cancel(r) \/ FailUnstarted(r) \/ Remove(r)

Spec == Init /\ [][Next]_<<status, resultOf, hooks>>
=============================================================================
