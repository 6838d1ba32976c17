------------------------- MODULE CrawlJobApi_refines -------------------------
(***************************************************************************)
(* CrawlJobApi implements JobStore: the transactions of concurrent         *)
(* requests, the waits at the unique index and the partial UPDATEs of the  *)
(* ORM together look like single atomic steps.                             *)
(***************************************************************************)
EXTENDS CrawlJobApi

StoredWebsites == [d \in Domains |-> {s \in Requests : sites[s] = d}]

Published == {job[r] : r \in {q \in Requests : sent[q] > 0}}

Store == INSTANCE JobStore WITH
            Ids <- Requests, website <- StoredWebsites, row <- jobs, queue <- Published

(* Every step of the API is a step of the store, or invisible in it. *)
ImplementsStore == Store!Spec
=============================================================================
