---------------------------- MODULE MCCrawlJobApi ----------------------------
(* Model values for TLC. *)
EXTENDS CrawlJobApi_refines

CONSTANTS r1, r2, r3, d1, d2

ThreeRequests == {r1, r2, r3}
OneDomain     == {d1}
TwoDomains    == {d1, d2}
=============================================================================
