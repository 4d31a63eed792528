----------------------------- MODULE MCHostSlots -----------------------------
(* One scrape on each engine and one more: attempts of different lengths. *)
EXTENDS HostSlots, TLC

CONSTANTS long, short, other

ScrapesOf == {long, short, other}
RunOf == [s \in ScrapesOf |-> IF s = long THEN 4 ELSE 1]
Symmetric == Permutations({short, other})
=============================================================================
