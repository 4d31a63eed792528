-------------------------- MODULE PipelineContract --------------------------
(***************************************************************************)
(* What the owner of a pipeline run may count on.  Blocks run one at a     *)
(* time, in order, each on the outcome of the one before; nothing is begun *)
(* or delivered again once the run is over or its cancel has been requested;   *)
(* the run is completed only with every block completed, failed only with  *)
(* the block that failed, and what was never begun is skipped.  Three      *)
(* exceptions: a request whose start failed overwrites the rows; a write   *)
(* that outlived its call (overdue) may land on its block again; and a     *)
(* block whose beginning was committed but not heard of may stay active in *)
(* a run that was cancelled before the call was served again.              *)
(***************************************************************************)
EXTENDS Naturals

CONSTANT N

VARIABLES
    run,       \* "none", "running" or an outcome
    cancelled, \* the owner has asked for the run to stop
    block,     \* per block: "pending", "active", an outcome, or "skipped"
    deliveries, \* attempts made to deliver the result to a webhook
    overdue,   \* blocks a late write may still land on
    unheard,   \* blocks whose beginning was not heard of at once
    failedStart

Blocks == 1..N
Outcomes == {"completed", "failed"}
MayWork == run = "running" /\ ~cancelled

Init ==
    /\ run = "none" /\ cancelled = FALSE /\ block = [b \in Blocks |-> "pending"]
    /\ deliveries = 0 /\ overdue = {} /\ unheard = {}
    /\ failedStart = FALSE

Submit == run = "none" /\ run' = "running" /\ UNCHANGED <<cancelled, block, deliveries, overdue, unheard, failedStart>>

AskToStop ==
    /\ MayWork /\ cancelled' = TRUE
    /\ UNCHANGED <<run, block, deliveries, overdue, unheard, failedStart>>

Begin(b) ==
    /\ MayWork
    /\ block[b] = "pending" \/ b \in overdue
    /\ \A c \in 1..b - 1 : block[c] = "completed" \/ c \in overdue
    /\ block' = [block EXCEPT ![b] = "active"]
    /\ deliveries' \in {deliveries, deliveries + 1}
    /\ unheard' \in {unheard, unheard \cup {b}}
    /\ UNCHANGED <<run, cancelled, overdue, failedStart>>

DeliverAgain(b) ==
    /\ MayWork
    /\ block[b] = "active" \/ b \in overdue
    /\ deliveries' = deliveries + 1
    /\ block' = [block EXCEPT ![b] = "active"]
    /\ UNCHANGED <<run, cancelled, overdue, unheard, failedStart>>

Settle(b) ==
    /\ block[b] = "active" \/ b \in overdue \/ failedStart
    /\ \E o \in Outcomes \cup (IF failedStart THEN {"active"} ELSE {}) :
          block' = [block EXCEPT ![b] = o]
    /\ UNCHANGED <<run, cancelled, deliveries, overdue, unheard, failedStart>>

End ==
    /\ run = "running"
    /\ \/ /\ run' = "completed"
          /\ \A b \in Blocks : block[b] = "completed" \/ b \in overdue
          /\ UNCHANGED block
       \/ /\ run' \in {"failed", "cancelled"}
          /\ run' = "failed" => \E b \in Blocks : block[b] = "failed" \/ b \in overdue
          /\ \A b \in Blocks : block[b] = "active" => b \in overdue \/ (b \in unheard /\ run' = "cancelled")
          /\ block' = [b \in Blocks |-> IF block[b] = "pending" THEN "skipped" ELSE block[b]]
    /\ UNCHANGED <<cancelled, deliveries, overdue, unheard, failedStart>>

FailStart ==
    /\ run # "none" /\ run' = "failed" /\ failedStart' = TRUE
    /\ block' = [b \in Blocks |-> "skipped"]
    /\ UNCHANGED <<cancelled, deliveries, overdue, unheard>>

Outlive(b) == overdue' = overdue \cup {b} /\ UNCHANGED <<run, cancelled, block, deliveries, unheard, failedStart>>

LandLate(b) ==
    /\ b \in overdue
    /\ \E st \in Outcomes \cup {"active"} : block' = [block EXCEPT ![b] = st]
    /\ UNCHANGED <<run, cancelled, deliveries, overdue, unheard, failedStart>>

Hear(b) == unheard' = unheard \ {b} /\ UNCHANGED <<run, cancelled, block, deliveries, overdue, failedStart>>

MissAnswer(b) ==
    /\ block[b] # "pending" \/ b \in overdue
    /\ unheard' = unheard \cup {b}
    /\ UNCHANGED <<run, cancelled, block, deliveries, overdue, failedStart>>

Next ==
    \/ Submit \/ AskToStop \/ End \/ FailStart
    \/ \E b \in Blocks : Begin(b) \/ DeliverAgain(b) \/ Settle(b) \/ Outlive(b) \/ LandLate(b)
                      \/ MissAnswer(b) \/ Hear(b)

vars == <<run, cancelled, block, deliveries, overdue, unheard, failedStart>>
Spec == Init /\ [][Next]_vars
=============================================================================
