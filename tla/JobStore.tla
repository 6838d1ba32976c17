------------------------------- MODULE JobStore ------------------------------
(***************************************************************************)
(* What the crawl-job API promises about the stored data, as if every      *)
(* request acted at once: a job appears together with the one website of   *)
(* its domain, a row is always written whole, and a message only ever      *)
(* names a job that is stored.                                             *)
(***************************************************************************)
CONSTANTS Ids, Domains, NoSite

VARIABLES
    website,   \* the websites of each domain: none, or one
    row,       \* the stored job of each identifier
    queue      \* jobs the queue holds a message for

vars == <<website, row, queue>>

None      == [site |-> NoSite, status |-> "absent", error |-> FALSE, finished |-> FALSE]
Queued(s) == [site |-> s, status |-> "queued", error |-> FALSE, finished |-> FALSE]
Failed(s) == [site |-> s, status |-> "failed", error |-> TRUE, finished |-> TRUE]

Known(j) == row[j].status # "absent"

Init ==
    /\ website = [d \in Domains |-> {}]
    /\ row = [j \in Ids |-> None]
    /\ queue = {}

Submit(j, d) ==
    /\ ~Known(j)
    /\ \/ website[d] = {} /\ website' = [website EXCEPT ![d] = {j}]
       \/ website[d] # {} /\ UNCHANGED website
    /\ \E s \in website'[d] : row' = [row EXCEPT ![j] = Queued(s)]
    /\ UNCHANGED queue

(* The dispatch of a stored job has failed. *)
Fail(j) ==
    /\ Known(j)
    /\ row' = [row EXCEPT ![j] = Failed(row[j].site)]
    /\ UNCHANGED <<website, queue>>

(* A job that has failed before is queued again.  It may have been queued  *)
(* again by another request in the meantime.                               *)
Requeue(j) ==
    /\ Known(j)
    /\ row' = [row EXCEPT ![j] = Queued(row[j].site)]
    /\ UNCHANGED <<website, queue>>

Publish(j) ==
    /\ Known(j)
    /\ queue' = queue \cup {j}
    /\ UNCHANGED <<website, row>>

Next ==
    \E j \in Ids :
        \/ \E d \in Domains : Submit(j, d)
        \/ Fail(j) \/ Requeue(j) \/ Publish(j)

Spec == Init /\ [][Next]_vars
=============================================================================
