------------------------------ MODULE MCSchema -------------------------------
(* Rows of the tables that are more than one reference away from a website. *)
EXTENDS Schema, TLC

CONSTANTS w1, w2, j1, p1, e1, l1, m1, m2, m3

MCTableOf ==
    [i \in {w1, w2} |-> "websites"] @@ [i \in {j1} |-> "crawl_jobs"]
    @@ [i \in {p1} |-> "pages"] @@ [i \in {e1} |-> "emails"] @@ [i \in {l1} |-> "links"]

Symmetry == Permutations({m1, m2, m3}) \cup Permutations({w1, w2})
=============================================================================
