------------------------------- MODULE MCCrawl -------------------------------
(* Instances of Crawl for TLC. *)
EXTENDS Crawl, TLC

CONSTANTS a, b, c, d

(* The seed links to two pages, and one of them to two, a page too many. *)
Site == [u \in Urls |-> CASE u = Seed -> {a, b} [] u = b -> {c, d} [] OTHER -> {}]
=============================================================================
