------------------------------- MODULE MCWatch -------------------------------
(* A page on a job of two runs, and a page on a pipeline's run, whose start
   may fail. *)
EXTENDS Watch

CONSTANTS r1, r2, p, job, page

AllRuns == {r1, r2, p}
RunsOfJob == {r1, r2}
Clients == {job, page}
AsksFor == [w \in Clients |-> IF w = job THEN r1 ELSE p]
StartFails == {[run |-> p, from |-> s, to |-> Last] : s \in 1..(Last - 1)}
ReadFirst == {job}
=============================================================================
