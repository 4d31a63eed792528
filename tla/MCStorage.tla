----------------------------- MODULE MCStorage -----------------------------
EXTENDS Storage
(* Two runs of a job, one with a result from before, and a pipeline block.  *)
MCObjects == {"new", "old", "block"}
MCParents == {"r1", "r0", "b1"}
MCParentOf == [new |-> "r1", old |-> "r0", block |-> "b1"]
MCLane == [r1 |-> "run", r0 |-> "run", b1 |-> "block"]
MCSize == [new |-> 2, old |-> 1, block |-> 1]
Symmetry == Permutations(Passes)
============================================================================
