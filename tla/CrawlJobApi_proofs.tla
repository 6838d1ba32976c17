-------------------------- MODULE CrawlJobApi_proofs --------------------------
(***************************************************************************)
(* Proofs that the safety properties of CrawlJobApi hold for any number of *)
(* requests and domains, any pool size and any combination of failures,    *)
(* and that it implements JobStore.  The transactions commit in one step,  *)
(* so each of them is matched by one step of the store; all that has to be *)
(* shown is that what a request prepared before its commit still fits the  *)
(* rows it commits to, which the invariant IInv says.                      *)
(***************************************************************************)
EXTENDS CrawlJobApi_refines, TLAPS

-----------------------------------------------------------------------------
(* Operators on rows. *)

(* The rows that are inserted have the type of a row. *)
LEMMA RowsTyped ==
    /\ Absent \in JobRow
    /\ \A s \in Requests : NewJob(s) \in JobRow
BY DEF Absent, NewJob, JobRow

(* A reset row is queued and shows no failure. *)
LEMMA ResetTyped ==
    ASSUME NEW row \in JobRow
    PROVE  /\ ResetForRetry(row) \in JobRow
           /\ ResetForRetry(row).status = "queued"
           /\ ResetForRetry(row).error = FALSE
           /\ ResetForRetry(row).finished = FALSE
BY DEF ResetForRetry, JobRow

(* A failed row shows its failure in all three columns. *)
LEMMA FailedTyped ==
    ASSUME NEW row \in JobRow
    PROVE  /\ MarkFailed(row) \in JobRow
           /\ MarkFailed(row).status = "failed"
           /\ MarkFailed(row).error = TRUE
           /\ MarkFailed(row).finished = TRUE
BY DEF MarkFailed, JobRow

(* A write changes a column exactly when the request changed its copy. *)
LEMMA FlushedColumns ==
    ASSUME NEW stored \in JobRow, NEW old \in JobRow, NEW new \in JobRow
    PROVE  /\ Flushed(stored, old, new) \in JobRow
           /\ Flushed(stored, old, new).site = stored.site
           /\ new.status # old.status => Flushed(stored, old, new).status = new.status
           /\ new.error # old.error => Flushed(stored, old, new).error = new.error
           /\ new.finished # old.finished => Flushed(stored, old, new).finished = new.finished
BY DEF Flushed, JobRow

-----------------------------------------------------------------------------
(* The state always has the shape TypeOK gives it. *)
THEOREM TypeCorrect == Spec => []TypeOK
<1>1. Init => TypeOK
  BY RowsTyped, BoundAssumption DEF Init, TypeOK, Control
<1>2. TypeOK /\ [Next]_vars => TypeOK'
  <2> SUFFICES ASSUME TypeOK, [Next]_vars PROVE TypeOK'
    OBVIOUS
  <2> USE DEF TypeOK, Goto, Control, InTx, CreateTx, RetryTx, FailTx, Final
  <2>1. ASSUME NEW r \in Requests, Receive(r) PROVE TypeOK'
    BY <2>1 DEF Receive
  <2>2. ASSUME NEW r \in Requests, BeginCreate(r) PROVE TypeOK'
    BY <2>2 DEF BeginCreate
  <2>3. ASSUME NEW r \in Requests, InsertSite(r) PROVE TypeOK'
    BY <2>3 DEF InsertSite
  <2>4. ASSUME NEW r \in Requests, InsertJob(r) PROVE TypeOK'
    <3>1. NewJob(site[r]) \in JobRow
      BY DEF NewJob, JobRow
    <3>2. QED
      BY <2>4, <3>1 DEF InsertJob
  <2>5. ASSUME NEW r \in Requests, CommitCreate(r) PROVE TypeOK'
    BY <2>5 DEF CommitCreate, AfterCommit
  <2>6. ASSUME NEW r \in Requests, BeginRetry(r) PROVE TypeOK'
    BY <2>6 DEF BeginRetry, IsRetry
  <2>7. ASSUME NEW r \in Requests, FlushReset(r) PROVE TypeOK'
    BY <2>7 DEF FlushReset
  <2>8. ASSUME NEW r \in Requests, CommitReset(r) PROVE TypeOK'
    <3> DEFINE new == ResetForRetry(copy[r])
    <3>1. new \in JobRow
      BY ResetTyped
    <3> HIDE DEF new
    <3>2. jobs' \in [Requests -> JobRow]
      <4>1. \A stored \in JobRow : Flushed(stored, copy[r], new) \in JobRow
        BY <3>1, FlushedColumns
      <4>2. jobs' = [jobs EXCEPT ![job[r]] = Flushed(@, copy[r], new)]
        BY <2>8 DEF CommitReset, new
      <4>3. QED
        BY <4>1, <4>2
    <3>3. copy' \in [Requests -> JobRow]
      BY <2>8, <3>1 DEF CommitReset, new
    <3>4. QED
      BY <2>8, <3>2, <3>3 DEF CommitReset, AfterCommit
  <2>9. ASSUME NEW r \in Requests, Enqueue(r) PROVE TypeOK'
    BY <2>9 DEF Enqueue
  <2>10. ASSUME NEW r \in Requests, Accept(r) PROVE TypeOK'
    BY <2>10 DEF Accept
  <2>11. ASSUME NEW r \in Requests, BeginFail(r) PROVE TypeOK'
    BY <2>11 DEF BeginFail
  <2>12. ASSUME NEW r \in Requests, FlushFail(r) PROVE TypeOK'
    BY <2>12 DEF FlushFail
  <2>13. ASSUME NEW r \in Requests, CommitFail(r) PROVE TypeOK'
    <3> DEFINE new == MarkFailed(copy[r])
    <3>1. new \in JobRow
      BY FailedTyped
    <3> HIDE DEF new
    <3>2. jobs' \in [Requests -> JobRow]
      <4>1. \A stored \in JobRow : Flushed(stored, copy[r], new) \in JobRow
        BY <3>1, FlushedColumns
      <4>2. jobs' = [jobs EXCEPT ![job[r]] = Flushed(@, copy[r], new)]
        BY <2>13 DEF CommitFail, new
      <4>3. QED
        BY <4>1, <4>2
    <3>3. copy' \in [Requests -> JobRow]
      BY <2>13, <3>1 DEF CommitFail, new
    <3>4. QED
      BY <2>13, <3>2, <3>3 DEF CommitFail, AfterCommit
  <2>14. ASSUME NEW r \in Requests, DatabaseFault(r) PROVE TypeOK'
    BY <2>14 DEF DatabaseFault
  <2>15. CASE Crash
    BY <2>15 DEF Crash
  <2>16. CASE UNCHANGED vars
    BY <2>16 DEF vars
  <2>17. QED
    BY <2>1, <2>2, <2>3, <2>4, <2>5, <2>6, <2>7, <2>8, <2>9, <2>10, <2>11, <2>12,
       <2>13, <2>14, <2>15, <2>16 DEF Next, Step, DatabaseStep, Done
<1>3. QED
  BY <1>1, <1>2, PTL DEF Spec

-----------------------------------------------------------------------------
(* The inductive invariant, in five parts.                                 *)

(* Where a request is tells what it has done so far. *)
ProgressFacts ==
    \A r \in Requests :
        /\ pc[r] = "idle" => job[r] = NoJob
        /\ pc[r] \in CreateTx => job[r] = r /\ domain[r] \in Domains
        /\ pc[r] = "waiting" => job[r] \in Requests /\ (job[r] = r => domain[r] \in Domains)
        /\ pc[r] \in RetryTx => job[r] \in Requests /\ job[r] # r
        /\ pc[r] \in Dispatching \cup {"enqueued", "accepted", "unavailable"} => r \in committed
        /\ r \in committed => pc[r] \in Dispatching \cup {"enqueued"} \cup Final
        /\ r \in committed => job[r] \in Requests /\ jobs[job[r]].status # "absent"
        /\ sent[r] > 0 => r \in committed /\ pc[r] # "enqueue"

(* What a request may rely on when it writes its copy back. *)
CopyFacts ==
    \A r \in Requests :
        /\ pc[r] = "job_inserted" => copy[r] = NewJob(site[r])
        /\ pc[r] \in RetryTx =>
              /\ copy[r].status = "failed" /\ copy[r].error /\ copy[r].finished
              /\ jobs[job[r]].status # "absent"
        /\ pc[r] \in Dispatching =>
              copy[r].status = "queued" /\ ~copy[r].error /\ ~copy[r].finished

(* Website rows, with those that are inserted and not yet committed. *)
SiteFacts ==
    /\ \A s \in Requests : sites[s] # NoDomain =>
          s \in committed /\ job[s] = s /\ domain[s] = sites[s]
    /\ \A r, s \in Requests : InsertedSite(r) => sites[s] # domain[r]
    /\ \A q, r \in Requests :
          InsertedSite(q) /\ InsertedSite(r) /\ domain[q] = domain[r] => q = r
    /\ \A r \in Requests : pc[r] \in {"site_ready", "job_inserted"} =>
          site[r] \in Requests /\ (site[r] = r \/ sites[site[r]] = domain[r])
    /\ \A j \in Requests : jobs[j].status # "absent" => j \in committed /\ job[j] = j

(* Only a failed job can be loaded for a retry, so its creator is done. *)
CreatorFacts ==
    /\ \A j \in Requests : jobs[j].status = "failed" => pc[j] \in Final
    /\ \A r \in Requests : IsRetry(r) /\ (r \in committed \/ pc[r] \in RetryTx) =>
          pc[job[r]] \in Final

AnswerFacts ==
    \A r \in Requests :
        /\ pc[r] \in Dispatching \cup {"enqueued", "accepted"} =>
              OtherRetry(r) \/ jobs[job[r]].status = "queued"
        /\ pc[r] = "unavailable" => OtherRetry(r) \/ jobs[job[r]].status = "failed"

IInv == /\ TypeOK
        /\ ProgressFacts /\ CopyFacts /\ SiteFacts /\ CreatorFacts /\ AnswerFacts
        /\ OneWebsitePerDomain /\ FailureRecorded /\ QueuedHasOwner

-----------------------------------------------------------------------------
(* Every action keeps every part of the invariant: one lemma per action,   *)
(* one step per part.                                                      *)

(* A new request has touched nothing yet. *)
LEMMA ReceiveStep ==
    ASSUME IInv, TypeOK', NEW r \in Requests, Receive(r)
    PROVE  IInv'
<1>1. ProgressFacts'
  BY DEF IInv, TypeOK, Receive, Goto, ProgressFacts, CreateTx, RetryTx, FailTx, Dispatching,
       Final
<1>2. CopyFacts'
  BY DEF IInv, TypeOK, Receive, Goto, CopyFacts, RetryTx, FailTx, Dispatching
<1>3. SiteFacts'
  BY DEF IInv, TypeOK, Receive, Goto, SiteFacts, InsertedSite, ProgressFacts, CreateTx,
       RetryTx, FailTx, Dispatching, Final
<1>4. CreatorFacts'
  BY DEF IInv, TypeOK, Receive, Goto, CreatorFacts, IsRetry, ProgressFacts, CreateTx, RetryTx,
       FailTx, Dispatching, Final
<1>5. AnswerFacts'
  BY DEF IInv, TypeOK, Receive, Goto, AnswerFacts, OtherRetry, IsRetry, ProgressFacts,
       CreateTx, RetryTx, FailTx, Dispatching, Final
<1>6. OneWebsitePerDomain'
  BY DEF IInv, TypeOK, Receive, Goto, OneWebsitePerDomain, ProgressFacts, SiteFacts, CreateTx,
       RetryTx, FailTx, Dispatching, Final
<1>7. FailureRecorded'
  BY DEF IInv, Receive, FailureRecorded
<1>8. QueuedHasOwner'
  BY DEF IInv, TypeOK, Receive, Goto, QueuedHasOwner, ProgressFacts, CreateTx, RetryTx, FailTx,
       Dispatching, Final
<1>9. QED
  BY <1>1, <1>2, <1>3, <1>4, <1>5, <1>6, <1>7, <1>8 DEF IInv

(* A create request finds a committed website of its domain, or none. *)
LEMMA BeginCreateStep ==
    ASSUME IInv, TypeOK', NEW r \in Requests, BeginCreate(r)
    PROVE  IInv'
<1>1. ProgressFacts'
  BY DEF IInv, TypeOK, BeginCreate, Stored, Goto, ProgressFacts, CreateTx, RetryTx, FailTx,
       Dispatching, Final
<1>2. CopyFacts'
  BY DEF IInv, TypeOK, BeginCreate, Stored, Goto, CopyFacts, RetryTx, FailTx, Dispatching
<1>3. SiteFacts'
  <2>1. r \notin committed
    BY DEF IInv, ProgressFacts, BeginCreate, Dispatching, FailTx, Final
  <2>2. \A q \in Requests \ {r} : pc'[q] = pc[q] /\ site'[q] = site[q]
    BY DEF IInv, TypeOK, BeginCreate, Goto
  <2>3. \/ pc'[r] = "site_missing"
        \/ /\ pc'[r] = "site_ready"
           /\ site'[r] \in Requests /\ sites[site'[r]] = domain[r] /\ domain[r] # NoDomain
    BY NullAssumption DEF IInv, TypeOK, ProgressFacts, BeginCreate, Goto
  <2>4. ~InsertedSite(r)'
    BY <2>1, <2>3 DEF IInv, SiteFacts, InsertedSite
  <2>5. \A q \in Requests : InsertedSite(q)' => q # r /\ InsertedSite(q)
    BY <2>2, <2>4 DEF InsertedSite
  <2>6. \A q \in Requests : pc'[q] \in {"site_ready", "job_inserted"} =>
            site'[q] \in Requests /\ (site'[q] = q \/ sites[site'[q]] = domain[q])
    BY <2>2, <2>3 DEF IInv, SiteFacts
  <2>7. UNCHANGED <<job, domain, committed, sites, jobs>>
    BY DEF BeginCreate
  <2>8. QED
    BY <2>5, <2>6, <2>7 DEF IInv, SiteFacts
<1>4. CreatorFacts'
  BY DEF IInv, TypeOK, BeginCreate, Stored, Goto, CreatorFacts, IsRetry, RetryTx, Final
<1>5. AnswerFacts'
  BY DEF IInv, TypeOK, BeginCreate, Stored, Goto, AnswerFacts, OtherRetry, IsRetry, FailTx,
       Dispatching
<1>6. OneWebsitePerDomain'
  BY DEF IInv, BeginCreate, OneWebsitePerDomain
<1>7. FailureRecorded'
  BY DEF IInv, BeginCreate, FailureRecorded
<1>8. QueuedHasOwner'
  BY DEF IInv, TypeOK, BeginCreate, Stored, Goto, QueuedHasOwner, FailTx, Dispatching
<1>9. QED
  BY <1>1, <1>2, <1>3, <1>4, <1>5, <1>6, <1>7, <1>8 DEF IInv

(* The unique index keeps the inserted row the only one of its domain. *)
LEMMA InsertSiteStep ==
    ASSUME IInv, TypeOK', NEW r \in Requests, InsertSite(r)
    PROVE  IInv'
<1>1. ProgressFacts'
  BY DEF IInv, TypeOK, InsertSite, Stored, Goto, ProgressFacts, CreateTx, RetryTx, FailTx,
       Dispatching, Final
<1>2. CopyFacts'
  BY DEF IInv, TypeOK, InsertSite, Stored, Goto, CopyFacts, RetryTx, FailTx, Dispatching
<1>3. SiteFacts'
  BY DEF IInv, TypeOK, InsertSite, Stored, Goto, SiteFacts, InsertedSite
<1>4. CreatorFacts'
  BY DEF IInv, TypeOK, InsertSite, Stored, Goto, CreatorFacts, IsRetry, RetryTx, Final
<1>5. AnswerFacts'
  BY DEF IInv, TypeOK, InsertSite, Stored, Goto, AnswerFacts, OtherRetry, IsRetry, FailTx,
       Dispatching
<1>6. OneWebsitePerDomain'
  BY DEF IInv, InsertSite, OneWebsitePerDomain
<1>7. FailureRecorded'
  BY DEF IInv, InsertSite, FailureRecorded
<1>8. QueuedHasOwner'
  BY DEF IInv, TypeOK, InsertSite, Stored, Goto, QueuedHasOwner, FailTx, Dispatching
<1>9. QED
  BY <1>1, <1>2, <1>3, <1>4, <1>5, <1>6, <1>7, <1>8 DEF IInv

(* The row of the new job exists only in the transaction. *)
LEMMA InsertJobStep ==
    ASSUME IInv, TypeOK', NEW r \in Requests, InsertJob(r)
    PROVE  IInv'
<1>1. ProgressFacts'
  BY DEF IInv, TypeOK, InsertJob, NewJob, Goto, ProgressFacts, CreateTx, RetryTx, FailTx,
       Dispatching, Final
<1>2. CopyFacts'
  <2>1. copy'[r] = NewJob(site[r])
    BY DEF IInv, TypeOK, InsertJob
  <2>2. pc'[r] = "job_inserted" /\ \A q \in Requests \ {r} : pc'[q] = pc[q] /\ copy'[q] = copy[q]
    BY DEF IInv, TypeOK, InsertJob, Goto
  <2>3. UNCHANGED <<job, site, jobs>>
    BY DEF InsertJob
  <2>4. QED
    BY <2>1, <2>2, <2>3 DEF IInv, CopyFacts, RetryTx, Dispatching, FailTx
<1>3. SiteFacts'
  BY DEF IInv, TypeOK, InsertJob, NewJob, Goto, SiteFacts, InsertedSite
<1>4. CreatorFacts'
  BY DEF IInv, TypeOK, InsertJob, NewJob, Goto, CreatorFacts, IsRetry, RetryTx, Final
<1>5. AnswerFacts'
  BY DEF IInv, TypeOK, InsertJob, NewJob, Goto, AnswerFacts, OtherRetry, IsRetry, FailTx,
       Dispatching
<1>6. OneWebsitePerDomain'
  BY DEF IInv, InsertJob, OneWebsitePerDomain
<1>7. FailureRecorded'
  BY DEF IInv, InsertJob, FailureRecorded
<1>8. QueuedHasOwner'
  <2>1. r \notin committed
    BY DEF IInv, ProgressFacts, InsertJob, Dispatching, FailTx, Final
  <2>2. \A q \in committed : pc'[q] = pc[q]
    BY <2>1 DEF IInv, TypeOK, InsertJob, Goto
  <2>3. UNCHANGED <<job, sent, committed, jobs>>
    BY DEF InsertJob
  <2>4. QED
    BY <2>2, <2>3 DEF IInv, QueuedHasOwner
<1>9. QED
  BY <1>1, <1>2, <1>3, <1>4, <1>5, <1>6, <1>7, <1>8 DEF IInv

(* Website and job become visible together. *)
LEMMA CommitCreateStep ==
    ASSUME IInv, TypeOK', NEW r \in Requests, CommitCreate(r)
    PROVE  IInv'
<1>1. ProgressFacts'
  BY DEF IInv, TypeOK, CommitCreate, AfterCommit, NewJob, Goto, ProgressFacts, CopyFacts,
       CreateTx, RetryTx, FailTx, Dispatching, Final
<1>2. CopyFacts'
  BY DEF IInv, TypeOK, CommitCreate, AfterCommit, NewJob, Goto, CopyFacts, RetryTx, FailTx,
       Dispatching
<1>3. SiteFacts'
  <2>1. /\ job[r] = r /\ domain[r] \in Domains /\ r \notin committed
        /\ site[r] \in Requests
        /\ site[r] = r \/ sites[site[r]] = domain[r]
    BY DEF IInv, SiteFacts, ProgressFacts, CommitCreate, CreateTx, Dispatching, FailTx, Final
  <2>2. /\ sites[r] = NoDomain
        /\ InsertedSite(r) <=> site[r] = r
    BY <2>1 DEF IInv, TypeOK, SiteFacts, CommitCreate, InsertedSite
  <2>3. /\ sites'[site[r]] = domain[r]
        /\ \A s \in Requests \ {r} : sites'[s] = sites[s]
        /\ sites'[r] = IF InsertedSite(r) THEN domain[r] ELSE NoDomain
    BY <2>1, <2>2 DEF IInv, TypeOK, CommitCreate
  <2>4. /\ jobs'[r] = NewJob(site[r])
        /\ \A j \in Requests \ {r} : jobs'[j] = jobs[j]
    BY DEF IInv, TypeOK, CopyFacts, CommitCreate
  <2>5. committed' = committed \cup {r} /\ UNCHANGED <<job, domain, site>>
    BY DEF CommitCreate
  <2>6. \A q \in Requests : InsertedSite(q)' => q # r /\ InsertedSite(q)
    BY <2>5 DEF IInv, TypeOK, CommitCreate, AfterCommit, Goto, InsertedSite
  <2>7. \A s \in Requests : sites'[s] # NoDomain =>
            s \in committed' /\ job'[s] = s /\ domain'[s] = sites'[s]
    BY <2>1, <2>3, <2>5 DEF IInv, SiteFacts
  <2>8. \A q, s \in Requests : InsertedSite(q)' => sites'[s] # domain'[q]
    BY <2>1, <2>3, <2>5, <2>6, NullAssumption DEF IInv, SiteFacts, ProgressFacts, InsertedSite, CreateTx
  <2>9. \A q \in Requests : pc'[q] \in {"site_ready", "job_inserted"} =>
            site'[q] \in Requests /\ (site'[q] = q \/ sites'[site'[q]] = domain'[q])
    <3> SUFFICES ASSUME NEW q \in Requests, pc'[q] \in {"site_ready", "job_inserted"}
                 PROVE  site[q] \in Requests /\ (site[q] = q \/ sites'[site[q]] = domain[q])
      BY <2>5
    <3>1. q # r /\ pc[q] = pc'[q]
      BY DEF IInv, TypeOK, CommitCreate, AfterCommit, Goto
    <3>2. site[q] \in Requests /\ (site[q] = q \/ sites[site[q]] = domain[q])
      BY <3>1 DEF IInv, SiteFacts
    <3>3. domain[q] # NoDomain
      BY <3>1, NullAssumption DEF IInv, ProgressFacts, CreateTx
    <3>4. QED
      BY <3>2, <3>3, <2>2, <2>3
  <2>10. \A j \in Requests : jobs'[j].status # "absent" => j \in committed' /\ job'[j] = j
    BY <2>1, <2>4, <2>5 DEF IInv, SiteFacts
  <2>11. QED
    BY <2>5, <2>6, <2>7, <2>8, <2>9, <2>10 DEF IInv, SiteFacts
<1>4. CreatorFacts'
  BY DEF IInv, TypeOK, CommitCreate, AfterCommit, NewJob, Goto, CreatorFacts, IsRetry,
       ProgressFacts, CopyFacts, CreateTx, RetryTx, FailTx, Dispatching, Final
<1>5. AnswerFacts'
  BY DEF IInv, TypeOK, CommitCreate, AfterCommit, NewJob, Goto, AnswerFacts, OtherRetry,
       IsRetry, ProgressFacts, CopyFacts, SiteFacts, CreatorFacts, Control, InTx, CreateTx,
       RetryTx, FailTx, Final, Dispatching
<1>6. OneWebsitePerDomain'
  <2>1. /\ job[r] = r /\ domain[r] \in Domains /\ r \notin committed
        /\ site[r] \in Requests
        /\ site[r] = r \/ sites[site[r]] = domain[r]
    BY DEF IInv, SiteFacts, ProgressFacts, CommitCreate, CreateTx, Dispatching, FailTx, Final
  <2>2. /\ sites[r] = NoDomain
        /\ InsertedSite(r) <=> site[r] = r
    BY <2>1 DEF IInv, TypeOK, SiteFacts, CommitCreate, InsertedSite
  <2>3. /\ sites'[site[r]] = domain[r]
        /\ \A s \in Requests \ {r} : sites'[s] = sites[s]
        /\ sites'[r] = IF InsertedSite(r) THEN domain[r] ELSE NoDomain
    BY <2>1, <2>2 DEF IInv, TypeOK, CommitCreate
  <2>4. /\ jobs'[r] = NewJob(site[r])
        /\ \A j \in Requests \ {r} : jobs'[j] = jobs[j]
    BY DEF IInv, TypeOK, CopyFacts, CommitCreate
  <2>5. committed' = committed \cup {r} /\ UNCHANGED <<job, domain, site>>
    BY DEF CommitCreate
  <2>6. \A s, t \in Requests : sites'[s] = sites'[t] /\ sites'[s] # NoDomain => s = t
    BY <2>1, <2>3 DEF IInv, OneWebsitePerDomain, SiteFacts
  <2>7. jobs'[r].site = site[r]
    BY <2>4 DEF NewJob
  <2>8. \A j \in Requests : jobs'[j].status # "absent" =>
            jobs'[j].site \in Requests /\ sites'[jobs'[j].site] = domain[j] /\ domain[j] # NoDomain
    BY <2>1, <2>2, <2>3, <2>4, <2>7, NullAssumption DEF IInv, OneWebsitePerDomain
  <2>9. QED
    BY <2>5, <2>6, <2>8 DEF OneWebsitePerDomain
<1>7. FailureRecorded'
  BY DEF IInv, TypeOK, CommitCreate, AfterCommit, NewJob, Goto, FailureRecorded, ProgressFacts,
       CopyFacts, CreateTx, RetryTx, FailTx, Dispatching, Final
<1>8. QueuedHasOwner'
  BY DEF IInv, TypeOK, CommitCreate, AfterCommit, NewJob, Goto, QueuedHasOwner, ProgressFacts,
       CreateTx, RetryTx, FailTx, Dispatching, Final
<1>9. QED
  BY <1>1, <1>2, <1>3, <1>4, <1>5, <1>6, <1>7, <1>8 DEF IInv

(* A retry only goes on with the row of a failed job. *)
LEMMA BeginRetryStep ==
    ASSUME IInv, TypeOK', NEW r \in Requests, BeginRetry(r)
    PROVE  IInv'
<1>1. ProgressFacts'
  BY DEF IInv, TypeOK, BeginRetry, IsRetry, Goto, ProgressFacts, CreateTx, RetryTx, FailTx,
       Dispatching, Final
<1>2. CopyFacts'
  <2>1. job[r] \in Requests
    BY DEF IInv, ProgressFacts, BeginRetry
  <2>2. /\ pc'[r] \in RetryTx => jobs[job[r]].status = "failed" /\ copy'[r] = jobs[job[r]]
        /\ pc'[r] \in {"loaded", "rejected"}
        /\ \A q \in Requests \ {r} : pc'[q] = pc[q] /\ copy'[q] = copy[q]
    BY DEF IInv, TypeOK, BeginRetry, Goto, RetryTx
  <2>3. jobs[job[r]].status = "failed" => jobs[job[r]].error /\ jobs[job[r]].finished
    BY <2>1 DEF IInv, FailureRecorded
  <2>4. UNCHANGED <<job, site, jobs>>
    BY DEF BeginRetry
  <2>5. QED
    BY <2>2, <2>3, <2>4 DEF IInv, CopyFacts, RetryTx, Dispatching, FailTx
<1>3. SiteFacts'
  BY DEF IInv, TypeOK, BeginRetry, IsRetry, Goto, SiteFacts, InsertedSite
<1>4. CreatorFacts'
  <2>1. job[r] \in Requests
    BY DEF IInv, ProgressFacts, BeginRetry
  <2>2. /\ pc'[r] \in RetryTx => jobs[job[r]].status = "failed"
        /\ pc[r] = "waiting" /\ r \notin committed
        /\ \A q \in Requests \ {r} : pc'[q] = pc[q]
    BY DEF IInv, TypeOK, ProgressFacts, BeginRetry, Goto, RetryTx, Dispatching, FailTx, Final
  <2>3. \A q \in Requests : pc[q] \in Final => pc'[q] \in Final
    BY <2>2 DEF Final
  <2>4. UNCHANGED <<job, committed, jobs>>
    BY DEF BeginRetry
  <2>5. \A q \in Requests : IsRetry(q)' /\ (q \in committed' \/ pc'[q] \in RetryTx) => pc'[job[q]] \in Final
    <3> SUFFICES ASSUME NEW q \in Requests, IsRetry(q), q \in committed \/ pc'[q] \in RetryTx
                 PROVE  pc'[job[q]] \in Final
      BY <2>4 DEF IsRetry
    <3>1. job[q] \in Requests
      BY NullAssumption DEF IInv, TypeOK, IsRetry
    <3>2. CASE q = r
      BY <3>1, <3>2, <2>2, <2>3 DEF IInv, CreatorFacts
    <3>3. CASE q # r
      BY <3>1, <3>3, <2>2, <2>3 DEF IInv, CreatorFacts
    <3>4. QED
      BY <3>2, <3>3
  <2>6. QED
    BY <2>3, <2>4, <2>5 DEF IInv, CreatorFacts
<1>5. AnswerFacts'
  BY DEF IInv, TypeOK, BeginRetry, IsRetry, Goto, AnswerFacts, OtherRetry, FailTx, Dispatching
<1>6. OneWebsitePerDomain'
  BY DEF IInv, BeginRetry, OneWebsitePerDomain
<1>7. FailureRecorded'
  BY DEF IInv, BeginRetry, FailureRecorded
<1>8. QueuedHasOwner'
  BY DEF IInv, TypeOK, BeginRetry, IsRetry, Goto, QueuedHasOwner, FailTx, Dispatching
<1>9. QED
  BY <1>1, <1>2, <1>3, <1>4, <1>5, <1>6, <1>7, <1>8 DEF IInv

(* The UPDATE holds the row and shows nothing yet. *)
LEMMA FlushResetStep ==
    ASSUME IInv, TypeOK', NEW r \in Requests, FlushReset(r)
    PROVE  IInv'
<1>1. ProgressFacts'
  BY DEF IInv, TypeOK, FlushReset, Goto, ProgressFacts, CreateTx, RetryTx, FailTx, Dispatching,
       Final
<1>2. CopyFacts'
  BY DEF IInv, TypeOK, FlushReset, Goto, CopyFacts, RetryTx, FailTx, Dispatching
<1>3. SiteFacts'
  BY DEF IInv, TypeOK, FlushReset, Goto, SiteFacts, InsertedSite
<1>4. CreatorFacts'
  BY DEF IInv, TypeOK, FlushReset, Goto, CreatorFacts, IsRetry, RetryTx, Final
<1>5. AnswerFacts'
  BY DEF IInv, TypeOK, FlushReset, Goto, AnswerFacts, OtherRetry, IsRetry, FailTx, Dispatching
<1>6. OneWebsitePerDomain'
  BY DEF IInv, FlushReset, OneWebsitePerDomain
<1>7. FailureRecorded'
  BY DEF IInv, FlushReset, FailureRecorded
<1>8. QueuedHasOwner'
  BY DEF IInv, TypeOK, FlushReset, Goto, QueuedHasOwner, FailTx, Dispatching
<1>9. QED
  BY <1>1, <1>2, <1>3, <1>4, <1>5, <1>6, <1>7, <1>8 DEF IInv

(* All columns of the loaded failure are reset. *)
LEMMA CommitResetStep ==
    ASSUME IInv, TypeOK', NEW r \in Requests, CommitReset(r)
    PROVE  IInv'
<1> DEFINE new == ResetForRetry(copy[r])
<1>a. job[r] \in Requests
  BY DEF CommitReset, IInv, ProgressFacts, TypeOK, Goto, Control, InTx, CreateTx, RetryTx, FailTx, Final, Dispatching
<1>b. new \in JobRow /\ new.status = "queued" /\ new.error = FALSE /\ new.finished = FALSE
  BY ResetTyped DEF IInv, TypeOK
<1>c. /\ jobs' = [jobs EXCEPT ![job[r]] = Flushed(@, copy[r], new)]
      /\ copy' = [copy EXCEPT ![r] = new]
  BY DEF CommitReset
<1> HIDE DEF new
<1>d. /\ jobs'[job[r]].site = jobs[job[r]].site
      /\ jobs'[job[r]].status = "queued"
      /\ jobs'[job[r]].error = FALSE
      /\ jobs'[job[r]].finished = FALSE
  BY <1>a, <1>b, <1>c, FlushedColumns DEF CommitReset, IInv, CopyFacts, TypeOK, Goto, Control, InTx, CreateTx, RetryTx, FailTx, Final, Dispatching
<1>e. \A j \in Requests : j # job[r] => jobs'[j] = jobs[j]
  BY <1>a, <1>c DEF IInv, TypeOK
<1>f. /\ copy'[r].status = "queued" /\ copy'[r].error = FALSE /\ copy'[r].finished = FALSE
      /\ \A q \in Requests : q # r => copy'[q] = copy[q]
  BY <1>b, <1>c DEF IInv, TypeOK
<1>1. ProgressFacts'
  BY <1>a, <1>d, <1>e, <1>f DEF IInv, TypeOK, CommitReset, AfterCommit, Goto, ProgressFacts,
       CreateTx, RetryTx, FailTx, Dispatching, Final
<1>2. CopyFacts'
  BY <1>a, <1>d, <1>e, <1>f DEF IInv, TypeOK, CommitReset, AfterCommit, Goto, CopyFacts,
       RetryTx, FailTx, Dispatching
<1>3. SiteFacts'
  BY <1>a, <1>d, <1>e, <1>f DEF IInv, TypeOK, CommitReset, AfterCommit, Goto, SiteFacts,
       InsertedSite, ProgressFacts, CopyFacts, CreateTx, RetryTx, FailTx, Dispatching, Final
<1>4. CreatorFacts'
  BY <1>a, <1>d, <1>e, <1>f DEF IInv, TypeOK, CommitReset, AfterCommit, Goto, CreatorFacts,
       IsRetry, RetryTx, Final
<1>5. AnswerFacts'
  <2> SUFFICES ASSUME NEW q \in Requests
               PROVE  /\ pc'[q] \in Dispatching \cup {"enqueued", "accepted"} =>
                            OtherRetry(q)' \/ jobs'[job[q]].status = "queued"
                      /\ pc'[q] = "unavailable" =>
                            OtherRetry(q)' \/ jobs'[job[q]].status = "failed"
    BY DEF AnswerFacts, CommitReset
  <2>1. /\ pc'[r] \in {"enqueue", "error"} /\ IsRetry(r)
        /\ q # r => pc'[q] = pc[q]
    BY <1>a, NullAssumption
       DEF IInv, TypeOK, ProgressFacts, CommitReset, AfterCommit, Goto, RetryTx, IsRetry
  <2>2. /\ committed' = committed \cup {r} /\ job' = job
        /\ OtherRetry(q) => OtherRetry(q)'
    BY DEF CommitReset, OtherRetry, IsRetry
  <2>3. CASE q = r
    BY <2>1, <2>3, <1>d
  <2>4. CASE q # r /\ job[q] = job[r]
    BY <2>1, <2>2, <2>4 DEF OtherRetry, IsRetry
  <2>5. CASE q # r /\ job[q] # job[r]
    <3>1. pc[q] \in Dispatching \cup {"enqueued", "accepted", "unavailable"} => job[q] \in Requests
      BY DEF IInv, ProgressFacts
    <3>2. QED
      BY <3>1, <2>1, <2>2, <2>5, <1>e DEF IInv, AnswerFacts
  <2>6. QED
    BY <2>3, <2>4, <2>5
<1>6. OneWebsitePerDomain'
  BY <1>a, <1>d, <1>e, <1>f DEF IInv, TypeOK, CommitReset, AfterCommit, Goto,
       OneWebsitePerDomain, ProgressFacts, CopyFacts, CreateTx, RetryTx, FailTx, Dispatching,
       Final
<1>7. FailureRecorded'
  BY <1>a, <1>d, <1>e, <1>f DEF IInv, TypeOK, CommitReset, AfterCommit, Goto, FailureRecorded
<1>8. QueuedHasOwner'
  BY <1>a, <1>d, <1>e, <1>f DEF IInv, TypeOK, CommitReset, AfterCommit, Goto, QueuedHasOwner,
       FailTx, Dispatching
<1>9. QED
  BY <1>1, <1>2, <1>3, <1>4, <1>5, <1>6, <1>7, <1>8 DEF IInv

(* A message is left only for a committed request. *)
LEMMA EnqueueStep ==
    ASSUME IInv, TypeOK', NEW r \in Requests, Enqueue(r)
    PROVE  IInv'
<1>1. ProgressFacts'
  BY DEF IInv, TypeOK, Enqueue, Goto, ProgressFacts, CreateTx, RetryTx, FailTx, Dispatching,
       Final
<1>2. CopyFacts'
  BY DEF IInv, TypeOK, Enqueue, Goto, CopyFacts, RetryTx, FailTx, Dispatching
<1>3. SiteFacts'
  BY DEF IInv, TypeOK, Enqueue, Goto, SiteFacts, InsertedSite
<1>4. CreatorFacts'
  BY DEF IInv, TypeOK, Enqueue, Goto, CreatorFacts, IsRetry, RetryTx, Final
<1>5. AnswerFacts'
  BY DEF IInv, TypeOK, Enqueue, Goto, AnswerFacts, OtherRetry, IsRetry, FailTx, Dispatching
<1>6. OneWebsitePerDomain'
  BY DEF IInv, Enqueue, OneWebsitePerDomain
<1>7. FailureRecorded'
  BY DEF IInv, Enqueue, FailureRecorded
<1>8. QueuedHasOwner'
  BY DEF IInv, TypeOK, Enqueue, Goto, QueuedHasOwner, FailTx, Dispatching
<1>9. QED
  BY <1>1, <1>2, <1>3, <1>4, <1>5, <1>6, <1>7, <1>8 DEF IInv

(* A 202 is sent for a job that has a message. *)
LEMMA AcceptStep ==
    ASSUME IInv, TypeOK', NEW r \in Requests, Accept(r)
    PROVE  IInv'
<1>1. ProgressFacts'
  BY DEF IInv, TypeOK, Accept, Goto, ProgressFacts, CreateTx, RetryTx, FailTx, Dispatching,
       Final
<1>2. CopyFacts'
  BY DEF IInv, TypeOK, Accept, Goto, CopyFacts, RetryTx, FailTx, Dispatching
<1>3. SiteFacts'
  BY DEF IInv, TypeOK, Accept, Goto, SiteFacts, InsertedSite
<1>4. CreatorFacts'
  BY DEF IInv, TypeOK, Accept, Goto, CreatorFacts, IsRetry, RetryTx, Final
<1>5. AnswerFacts'
  BY DEF IInv, TypeOK, Accept, Goto, AnswerFacts, OtherRetry, IsRetry, FailTx, Dispatching
<1>6. OneWebsitePerDomain'
  BY DEF IInv, Accept, OneWebsitePerDomain
<1>7. FailureRecorded'
  BY DEF IInv, Accept, FailureRecorded
<1>8. QueuedHasOwner'
  BY DEF IInv, TypeOK, Accept, Goto, QueuedHasOwner, FailTx, Dispatching
<1>9. QED
  BY <1>1, <1>2, <1>3, <1>4, <1>5, <1>6, <1>7, <1>8 DEF IInv

(* The failing transaction has a connection. *)
LEMMA BeginFailStep ==
    ASSUME IInv, TypeOK', NEW r \in Requests, BeginFail(r)
    PROVE  IInv'
<1>1. ProgressFacts'
  BY DEF IInv, TypeOK, BeginFail, Goto, ProgressFacts, CreateTx, RetryTx, FailTx, Dispatching,
       Final
<1>2. CopyFacts'
  BY DEF IInv, TypeOK, BeginFail, Goto, CopyFacts, RetryTx, FailTx, Dispatching
<1>3. SiteFacts'
  BY DEF IInv, TypeOK, BeginFail, Goto, SiteFacts, InsertedSite
<1>4. CreatorFacts'
  BY DEF IInv, TypeOK, BeginFail, Goto, CreatorFacts, IsRetry, RetryTx, Final
<1>5. AnswerFacts'
  BY DEF IInv, TypeOK, BeginFail, Goto, AnswerFacts, OtherRetry, IsRetry, FailTx, Dispatching
<1>6. OneWebsitePerDomain'
  BY DEF IInv, BeginFail, OneWebsitePerDomain
<1>7. FailureRecorded'
  BY DEF IInv, BeginFail, FailureRecorded
<1>8. QueuedHasOwner'
  BY DEF IInv, TypeOK, BeginFail, Goto, QueuedHasOwner, FailTx, Dispatching
<1>9. QED
  BY <1>1, <1>2, <1>3, <1>4, <1>5, <1>6, <1>7, <1>8 DEF IInv

(* The UPDATE of a failure holds the row. *)
LEMMA FlushFailStep ==
    ASSUME IInv, TypeOK', NEW r \in Requests, FlushFail(r)
    PROVE  IInv'
<1>1. ProgressFacts'
  BY DEF IInv, TypeOK, FlushFail, Goto, ProgressFacts, CreateTx, RetryTx, FailTx, Dispatching,
       Final
<1>2. CopyFacts'
  BY DEF IInv, TypeOK, FlushFail, Goto, CopyFacts, RetryTx, FailTx, Dispatching
<1>3. SiteFacts'
  BY DEF IInv, TypeOK, FlushFail, Goto, SiteFacts, InsertedSite
<1>4. CreatorFacts'
  BY DEF IInv, TypeOK, FlushFail, Goto, CreatorFacts, IsRetry, RetryTx, Final
<1>5. AnswerFacts'
  BY DEF IInv, TypeOK, FlushFail, Goto, AnswerFacts, OtherRetry, IsRetry, FailTx, Dispatching
<1>6. OneWebsitePerDomain'
  BY DEF IInv, FlushFail, OneWebsitePerDomain
<1>7. FailureRecorded'
  BY DEF IInv, FlushFail, FailureRecorded
<1>8. QueuedHasOwner'
  BY DEF IInv, TypeOK, FlushFail, Goto, QueuedHasOwner, FailTx, Dispatching
<1>9. QED
  BY <1>1, <1>2, <1>3, <1>4, <1>5, <1>6, <1>7, <1>8 DEF IInv

(* All columns of the failure are written. *)
LEMMA CommitFailStep ==
    ASSUME IInv, TypeOK', NEW r \in Requests, CommitFail(r)
    PROVE  IInv'
<1> DEFINE new == MarkFailed(copy[r])
<1>a. job[r] \in Requests
  BY DEF CommitFail, IInv, ProgressFacts, TypeOK, Goto, Control, InTx, CreateTx, RetryTx, FailTx, Final, Dispatching
<1>b. new \in JobRow /\ new.status = "failed" /\ new.error = TRUE /\ new.finished = TRUE
  BY FailedTyped DEF IInv, TypeOK
<1>c. /\ jobs' = [jobs EXCEPT ![job[r]] = Flushed(@, copy[r], new)]
      /\ copy' = [copy EXCEPT ![r] = new]
  BY DEF CommitFail
<1> HIDE DEF new
<1>d. /\ jobs'[job[r]].site = jobs[job[r]].site
      /\ jobs'[job[r]].status = "failed"
      /\ jobs'[job[r]].error = TRUE
      /\ jobs'[job[r]].finished = TRUE
  BY <1>a, <1>b, <1>c, FlushedColumns DEF CommitFail, IInv, CopyFacts, TypeOK, Goto, Control, InTx, CreateTx, RetryTx, FailTx, Final, Dispatching
<1>e. \A j \in Requests : j # job[r] => jobs'[j] = jobs[j]
  BY <1>a, <1>c DEF IInv, TypeOK
<1>f. /\ copy'[r].status = "failed" /\ copy'[r].error = TRUE /\ copy'[r].finished = TRUE
      /\ \A q \in Requests : q # r => copy'[q] = copy[q]
  BY <1>b, <1>c DEF IInv, TypeOK
<1>1. ProgressFacts'
  BY <1>a, <1>d, <1>e, <1>f DEF IInv, TypeOK, CommitFail, AfterCommit, Goto, ProgressFacts,
       CreateTx, RetryTx, FailTx, Dispatching, Final
<1>2. CopyFacts'
  BY <1>a, <1>d, <1>e, <1>f DEF IInv, TypeOK, CommitFail, AfterCommit, Goto, CopyFacts,
       RetryTx, FailTx, Dispatching
<1>3. SiteFacts'
  BY <1>a, <1>d, <1>e, <1>f DEF IInv, TypeOK, CommitFail, AfterCommit, Goto, SiteFacts,
       InsertedSite, ProgressFacts, CreateTx, RetryTx, FailTx, Dispatching, Final
<1>4. CreatorFacts'
  <2>1. /\ pc'[r] \in Final /\ pc[r] = "fail_flushed" /\ r \in committed
        /\ \A q \in Requests \ {r} : pc'[q] = pc[q]
    BY DEF IInv, TypeOK, ProgressFacts, CommitFail, AfterCommit, Goto, Final, Dispatching, FailTx
  <2>2. \A q \in Requests : pc[q] \in Final => pc'[q] \in Final
    BY <2>1
  <2>3. pc'[job[r]] \in Final
    BY <2>1, <2>2, <1>a, NullAssumption DEF IInv, CreatorFacts, IsRetry
  <2>4. UNCHANGED <<job, committed>>
    BY DEF CommitFail
  <2>5. \A j \in Requests : jobs'[j].status = "failed" => pc'[j] \in Final
    BY <1>e, <2>2, <2>3 DEF IInv, CreatorFacts
  <2>6. \A q \in Requests : pc'[q] \in RetryTx => pc[q] \in RetryTx
    BY <2>1 DEF Final, RetryTx
  <2>7. \A q \in Requests : IsRetry(q) => job[q] \in Requests
    BY DEF IInv, TypeOK, IsRetry
  <2>8. QED
    BY <2>2, <2>4, <2>5, <2>6, <2>7 DEF IInv, CreatorFacts, IsRetry
<1>5. AnswerFacts'
  <2> SUFFICES ASSUME NEW q \in Requests
               PROVE  /\ pc'[q] \in Dispatching \cup {"enqueued", "accepted"} =>
                            OtherRetry(q)' \/ jobs'[job[q]].status = "queued"
                      /\ pc'[q] = "unavailable" =>
                            OtherRetry(q)' \/ jobs'[job[q]].status = "failed"
    BY DEF AnswerFacts, CommitFail
  <2>1. /\ pc'[r] \in {"unavailable", "error"} /\ pc[r] = "fail_flushed" /\ r \in committed
        /\ q # r => pc'[q] = pc[q]
    BY DEF IInv, TypeOK, ProgressFacts, CommitFail, AfterCommit, Goto, Dispatching, FailTx
  <2>2. OtherRetry(q)' <=> OtherRetry(q)
    BY DEF CommitFail, OtherRetry, IsRetry
  <2>3. CASE q = r
    BY <2>1, <2>3, <1>d DEF Dispatching, FailTx
  <2>4. CASE q # r /\ job[q] = job[r] /\ job[r] # r
    BY <2>1, <2>2, <2>4, <1>a, NullAssumption DEF OtherRetry, IsRetry
  <2>5. CASE q # r /\ job[q] = r /\ job[r] = r
    (* q retries the job r has created: r cannot be dispatching any more. *)
    <3>1. pc[r] \notin Final
      BY <2>1 DEF Final
    <3>2. IsRetry(q)
      BY <2>5, NullAssumption DEF IsRetry
    <3>3. q \notin committed
      BY <3>1, <3>2, <2>5 DEF IInv, CreatorFacts
    <3>4. QED
      BY <3>3, <2>1, <2>5 DEF IInv, ProgressFacts
  <2>6. CASE q # r /\ job[q] # job[r]
    <3>1. pc[q] \in Dispatching \cup {"enqueued", "accepted", "unavailable"} => job[q] \in Requests
      BY DEF IInv, ProgressFacts
    <3>2. QED
      BY <3>1, <2>1, <2>2, <2>6, <1>e DEF IInv, AnswerFacts
  <2>7. QED
    BY <2>3, <2>4, <2>5, <2>6
<1>6. OneWebsitePerDomain'
  BY <1>a, <1>d, <1>e, <1>f DEF IInv, TypeOK, CommitFail, AfterCommit, Goto,
       OneWebsitePerDomain, ProgressFacts, CreateTx, RetryTx, FailTx, Dispatching, Final
<1>7. FailureRecorded'
  BY <1>a, <1>d, <1>e, <1>f DEF IInv, TypeOK, CommitFail, AfterCommit, Goto, FailureRecorded
<1>8. QueuedHasOwner'
  BY <1>a, <1>d, <1>e, <1>f DEF IInv, TypeOK, CommitFail, AfterCommit, Goto, QueuedHasOwner,
       FailTx, Dispatching
<1>9. QED
  BY <1>1, <1>2, <1>3, <1>4, <1>5, <1>6, <1>7, <1>8 DEF IInv

(* A transaction that fails changes no row. *)
LEMMA DatabaseFaultStep ==
    ASSUME IInv, TypeOK', NEW r \in Requests, DatabaseFault(r)
    PROVE  IInv'
<1>1. ProgressFacts'
  BY DEF IInv, TypeOK, DatabaseFault, Goto, ProgressFacts, CreateTx, RetryTx, FailTx,
       Dispatching, Final, InTx
<1>2. CopyFacts'
  BY DEF IInv, TypeOK, DatabaseFault, Goto, CopyFacts, RetryTx, FailTx, Dispatching, InTx,
       CreateTx
<1>3. SiteFacts'
  BY DEF IInv, TypeOK, DatabaseFault, Goto, SiteFacts, InsertedSite, InTx, CreateTx, RetryTx,
       FailTx
<1>4. CreatorFacts'
  BY DEF IInv, TypeOK, DatabaseFault, Goto, CreatorFacts, IsRetry, RetryTx, Final, InTx,
       CreateTx, FailTx
<1>5. AnswerFacts'
  BY DEF IInv, TypeOK, DatabaseFault, Goto, AnswerFacts, OtherRetry, IsRetry, FailTx,
       Dispatching, InTx, CreateTx, RetryTx
<1>6. OneWebsitePerDomain'
  BY DEF IInv, DatabaseFault, OneWebsitePerDomain
<1>7. FailureRecorded'
  BY DEF IInv, DatabaseFault, FailureRecorded
<1>8. QueuedHasOwner'
  BY DEF IInv, TypeOK, DatabaseFault, Goto, QueuedHasOwner, FailTx, Dispatching, InTx,
       CreateTx, RetryTx
<1>9. QED
  BY <1>1, <1>2, <1>3, <1>4, <1>5, <1>6, <1>7, <1>8 DEF IInv

(* The end of the process changes no row. *)
LEMMA CrashStep ==
    ASSUME IInv, TypeOK', Crash
    PROVE  IInv'
<1>1. ProgressFacts'
  BY DEF IInv, TypeOK, Crash, InFlight, ProgressFacts, CreateTx, RetryTx, FailTx, Dispatching,
       Final, Control, InTx
<1>2. CopyFacts'
  BY DEF IInv, TypeOK, Crash, InFlight, CopyFacts, RetryTx, FailTx, Dispatching, Control, InTx,
       CreateTx, Final
<1>3. SiteFacts'
  BY DEF IInv, TypeOK, Crash, InFlight, SiteFacts, InsertedSite, Control, InTx, CreateTx,
       RetryTx, FailTx, Final
<1>4. CreatorFacts'
  BY DEF IInv, TypeOK, Crash, InFlight, CreatorFacts, IsRetry, RetryTx, Final, Control, InTx,
       CreateTx, FailTx
<1>5. AnswerFacts'
  BY DEF IInv, TypeOK, Crash, InFlight, AnswerFacts, OtherRetry, IsRetry, FailTx, Dispatching,
       Control, InTx, CreateTx, RetryTx, Final
<1>6. OneWebsitePerDomain'
  BY DEF IInv, Crash, OneWebsitePerDomain
<1>7. FailureRecorded'
  BY DEF IInv, Crash, FailureRecorded
<1>8. QueuedHasOwner'
  BY DEF IInv, TypeOK, Crash, InFlight, QueuedHasOwner, FailTx, Dispatching, Control, InTx,
       CreateTx, RetryTx, Final
<1>9. QED
  BY <1>1, <1>2, <1>3, <1>4, <1>5, <1>6, <1>7, <1>8 DEF IInv

-----------------------------------------------------------------------------
(* The invariant holds of the empty database. *)
LEMMA InvInit == Init => IInv
<1> SUFFICES ASSUME Init PROVE IInv
  OBVIOUS
<1>1. TypeOK
  BY RowsTyped, BoundAssumption DEF Init, TypeOK, Control
<1>2. ProgressFacts /\ CopyFacts /\ AnswerFacts
  BY DEF Init, ProgressFacts, CopyFacts, AnswerFacts, CreateTx, RetryTx, FailTx, Dispatching
<1>3. SiteFacts /\ OneWebsitePerDomain
  BY DEF Init, SiteFacts, OneWebsitePerDomain, InsertedSite, Absent
<1>4. CreatorFacts /\ FailureRecorded /\ QueuedHasOwner
  BY DEF Init, CreatorFacts, FailureRecorded, QueuedHasOwner, IsRetry, Absent
<1>5. QED
  BY <1>1, <1>2, <1>3, <1>4 DEF IInv

(* A stuttering step keeps the invariant. *)
LEMMA InvStutter == IInv /\ UNCHANGED vars => IInv'
BY DEF vars, IInv, TypeOK, ProgressFacts, CopyFacts, SiteFacts, CreatorFacts, AnswerFacts,
       OneWebsitePerDomain, FailureRecorded, QueuedHasOwner, InsertedSite, IsRetry, OtherRetry

(* The inductive invariant holds in every reachable state. *)
THEOREM Invariance == Spec => []IInv
<1>1. Init => IInv
  BY InvInit
<1>2. IInv /\ TypeOK' /\ [Next]_vars => IInv'
  <2> SUFFICES ASSUME IInv, TypeOK', [Next]_vars PROVE IInv'
    OBVIOUS
  <2>1. ASSUME NEW r \in Requests, Step(r) PROVE IInv'
    BY <2>1, ReceiveStep, BeginCreateStep, InsertSiteStep, InsertJobStep, CommitCreateStep,
       BeginRetryStep, FlushResetStep, CommitResetStep, EnqueueStep, AcceptStep,
       BeginFailStep, FlushFailStep, CommitFailStep, DatabaseFaultStep
       DEF Step, DatabaseStep
  <2>2. CASE Crash
    BY <2>2, CrashStep
  <2>3. CASE UNCHANGED vars
    BY <2>3, InvStutter
  <2>4. QED
    BY <2>1, <2>2, <2>3 DEF Next, Done
<1>3. QED
  BY <1>1, <1>2, TypeCorrect, PTL DEF Spec

-----------------------------------------------------------------------------
(* No message can reach a worker before the row it names is committed. *)
THEOREM DispatchIsAfterCommit == Spec => []DispatchAfterCommit
<1>1. IInv => DispatchAfterCommit
  BY DEF IInv, ProgressFacts, DispatchAfterCommit
<1>2. QED
  BY <1>1, Invariance, PTL

(* A job that stays queued with no message has lost its request to a *)
(* database failure or to the end of the process.                    *)
THEOREM QueuedJobsHaveOwners == Spec => []QueuedHasOwner
<1>1. IInv => QueuedHasOwner
  BY DEF IInv
<1>2. QED
  BY <1>1, Invariance, PTL

(* Status, error message and finishing time of a stored job agree. *)
THEOREM FailuresAreRecorded == Spec => []FailureRecorded
<1>1. IInv => FailureRecorded
  BY DEF IInv
<1>2. QED
  BY <1>1, Invariance, PTL

(* Concurrent first submissions never give a domain two websites. *)
THEOREM WebsitesAreUnique == Spec => []OneWebsitePerDomain
<1>1. IInv => OneWebsitePerDomain
  BY DEF IInv
<1>2. QED
  BY <1>1, Invariance, PTL

(* Unless retries of one job overlap, its row agrees with every answer. *)
THEOREM AnswersMatchRows == Spec => []AnswerMatchesRow
<1>1. IInv => AnswerMatchesRow
  BY DEF IInv, AnswerFacts, AnswerMatchesRow
<1>2. QED
  BY <1>1, Invariance, PTL

-----------------------------------------------------------------------------
(* The mapping to JobStore. *)

StoreVars == <<StoredWebsites, jobs, Published>>

(* An empty database is an empty store. *)
LEMMA InitRefines == Init => Store!Init
<1> SUFFICES ASSUME Init PROVE Store!Init
  OBVIOUS
<1>1. StoredWebsites = [d \in Domains |-> {}]
  BY NullAssumption DEF Init, StoredWebsites
<1>2. jobs = [j \in Requests |-> Store!None]
  BY DEF Init, Absent, Store!None
<1>3. Published = {}
  BY DEF Init, Published
<1>4. QED
  BY <1>1, <1>2, <1>3 DEF Store!Init

(* What the store sees of a step that touches neither table. *)
LEMMA SilentStep ==
    ASSUME UNCHANGED <<sites, jobs, sent>>,
           \A r \in Requests : sent[r] > 0 => job'[r] = job[r]
    PROVE  UNCHANGED StoreVars
<1>1. StoredWebsites' = StoredWebsites
  BY DEF StoredWebsites
<1>2. Published' = Published
  BY DEF Published
<1>3. QED
  BY <1>1, <1>2 DEF StoreVars

(* The queue is seen through job and sent alone. *)
LEMMA SilentQueue ==
    ASSUME UNCHANGED <<job, sent>>
    PROVE  Published' = Published
BY DEF Published

(* The commit of a create request is a Submit. *)
LEMMA CommitCreateRefines ==
    ASSUME IInv, NEW r \in Requests, CommitCreate(r)
    PROVE  Store!Submit(r, domain[r])
<1>1. /\ job[r] = r /\ domain[r] \in Domains /\ r \notin committed
      /\ site[r] \in Requests
      /\ site[r] = r \/ sites[site[r]] = domain[r]
      /\ InsertedSite(r) <=> site[r] = r
  BY DEF IInv, SiteFacts, ProgressFacts, CommitCreate, CreateTx, Dispatching, FailTx, Final,
         InsertedSite
<1>2. /\ sites[r] = NoDomain
      /\ jobs[r].status = "absent"
  BY <1>1 DEF IInv, TypeOK, JobRow, SiteFacts
<1>3. jobs' = [jobs EXCEPT ![r] = Store!Queued(site[r])]
  BY DEF IInv, CopyFacts, CommitCreate, NewJob, Store!Queued
<1>4. Published' = Published
  BY SilentQueue DEF CommitCreate
<1>5. CASE InsertedSite(r)
  <2>1. sites' = [sites EXCEPT ![r] = domain[r]]
    BY <1>5 DEF CommitCreate
  <2>2. StoredWebsites[domain[r]] = {}
    BY <1>1, <1>5 DEF IInv, SiteFacts, StoredWebsites
  <2>3. StoredWebsites' = [StoredWebsites EXCEPT ![domain[r]] = {r}]
    <3>1. \A d \in Domains : {s \in Requests : sites'[s] = d} =
                IF d = domain[r] THEN {r} ELSE {s \in Requests : sites[s] = d}
      BY <1>1, <1>2, <1>5, <2>1, NullAssumption DEF IInv, TypeOK, SiteFacts
    <3>2. QED
      BY <3>1 DEF StoredWebsites
  <2>4. site[r] \in StoredWebsites'[domain[r]]
    BY <1>1, <1>5, <2>3 DEF StoredWebsites
  <2>5. QED
    BY <1>2, <1>3, <1>4, <2>2, <2>3, <2>4 DEF Store!Submit, Store!Known
<1>6. CASE ~InsertedSite(r)
  <2>1. sites' = sites /\ sites[site[r]] = domain[r]
    BY <1>1, <1>6 DEF CommitCreate
  <2>2. StoredWebsites' = StoredWebsites /\ site[r] \in StoredWebsites[domain[r]]
    BY <1>1, <2>1 DEF StoredWebsites
  <2>3. QED
    BY <1>2, <1>3, <1>4, <2>2 DEF Store!Submit, Store!Known
<1>7. QED
  BY <1>5, <1>6

(* The commit of a retry is a Requeue. *)
LEMMA CommitResetRefines ==
    ASSUME IInv, IInv', NEW r \in Requests, CommitReset(r)
    PROVE  Store!Requeue(job[r])
<1> DEFINE new == ResetForRetry(copy[r])
           row == Flushed(jobs[job[r]], copy[r], new)
<1>1. job[r] \in Requests /\ jobs[job[r]].status # "absent"
  BY DEF IInv, ProgressFacts, CopyFacts, CommitReset, RetryTx
<1>2. new \in JobRow /\ new.status = "queued" /\ new.error = FALSE /\ new.finished = FALSE
  BY ResetTyped DEF IInv, TypeOK
<1>3. /\ copy[r] \in JobRow /\ jobs[job[r]] \in JobRow
      /\ copy[r].status = "failed" /\ copy[r].error = TRUE /\ copy[r].finished = TRUE
  BY <1>1 DEF IInv, TypeOK, CopyFacts, CommitReset, RetryTx, JobRow
<1>4. jobs' = [jobs EXCEPT ![job[r]] = row]
  BY DEF CommitReset
<1> HIDE DEF new
<1>5. /\ row \in JobRow /\ row.site = jobs[job[r]].site
      /\ row.status = "queued" /\ row.error = FALSE /\ row.finished = FALSE
  BY <1>2, <1>3, FlushedColumns
<1> HIDE DEF row
<1>6. row = Store!Queued(jobs[job[r]].site)
  BY <1>3, <1>5 DEF JobRow, Store!Queued
<1>7. StoredWebsites' = StoredWebsites
  BY DEF CommitReset, StoredWebsites
<1>8. QED
  BY <1>1, <1>4, <1>6, <1>7, SilentQueue DEF Store!Requeue, Store!Known, CommitReset

(* The commit of a recorded failure is a Fail. *)
LEMMA CommitFailRefines ==
    ASSUME IInv, NEW r \in Requests, CommitFail(r)
    PROVE  Store!Fail(job[r])
<1> DEFINE new == MarkFailed(copy[r])
           row == Flushed(jobs[job[r]], copy[r], new)
<1>1. job[r] \in Requests /\ jobs[job[r]].status # "absent"
  BY DEF IInv, ProgressFacts, CommitFail, Dispatching, FailTx
<1>2. new \in JobRow /\ new.status = "failed" /\ new.error = TRUE /\ new.finished = TRUE
  BY FailedTyped DEF IInv, TypeOK
<1>3. /\ copy[r] \in JobRow /\ jobs[job[r]] \in JobRow
      /\ copy[r].status = "queued" /\ copy[r].error = FALSE /\ copy[r].finished = FALSE
  BY <1>1 DEF IInv, TypeOK, CopyFacts, CommitFail, Dispatching, FailTx, JobRow
<1>4. jobs' = [jobs EXCEPT ![job[r]] = row]
  BY DEF CommitFail
<1> HIDE DEF new
<1>5. /\ row \in JobRow /\ row.site = jobs[job[r]].site
      /\ row.status = "failed" /\ row.error = TRUE /\ row.finished = TRUE
  BY <1>2, <1>3, FlushedColumns
<1> HIDE DEF row
<1>6. row = Store!Failed(jobs[job[r]].site)
  BY <1>3, <1>5 DEF JobRow, Store!Failed
<1>7. StoredWebsites' = StoredWebsites
  BY DEF CommitFail, StoredWebsites
<1>8. QED
  BY <1>1, <1>4, <1>6, <1>7, SilentQueue DEF Store!Fail, Store!Known, CommitFail

(* A dispatch is a Publish, or nothing when no message got through. *)
LEMMA EnqueueRefines ==
    ASSUME IInv, NEW r \in Requests, Enqueue(r)
    PROVE  Store!Publish(job[r]) \/ UNCHANGED StoreVars
<1>1. /\ job[r] \in Requests /\ jobs[job[r]].status # "absent"
      /\ sent[r] = 0
  BY BoundAssumption DEF IInv, TypeOK, ProgressFacts, Enqueue, Dispatching
<1>2. UNCHANGED <<job, jobs, sites>> /\ StoredWebsites' = StoredWebsites
  BY DEF Enqueue, StoredWebsites
<1>3. PICK n \in 0 .. MaxCopies : sent' = [sent EXCEPT ![r] = n]
  BY DEF Enqueue
<1>4. CASE n = 0
  <2>1. sent' = sent
    BY <1>1, <1>3, <1>4 DEF IInv, TypeOK
  <2>2. QED
    BY <1>2, <2>1, SilentStep
<1>5. CASE n > 0
  <2>1. {q \in Requests : sent'[q] > 0} = {q \in Requests : sent[q] > 0} \cup {r}
    BY <1>3, <1>5 DEF IInv, TypeOK
  <2>2. Published' = Published \cup {job[r]}
    BY <1>2, <2>1 DEF Published
  <2>3. QED
    BY <1>1, <1>2, <2>2 DEF Store!Publish, Store!Known
<1>6. QED
  BY <1>3, <1>4, <1>5 DEF IInv, TypeOK

(* The concurrent API is an implementation of the atomic store. *)
THEOREM Refinement == Spec => ImplementsStore
<1>1. Init => Store!Init
  BY InitRefines
<1>2. IInv /\ IInv' /\ [Next]_vars => [Store!Next]_(Store!vars)
  <2> SUFFICES ASSUME IInv, IInv', [Next]_vars
               PROVE  Store!Next \/ UNCHANGED StoreVars
    BY DEF Store!vars, StoreVars
  <2>1. ASSUME NEW r \in Requests, CommitCreate(r) PROVE Store!Next
    <3>1. domain[r] \in Domains
      BY <2>1 DEF IInv, ProgressFacts, CommitCreate, CreateTx
    <3>2. QED
      BY <2>1, <3>1, CommitCreateRefines DEF Store!Next
  <2>2. ASSUME NEW r \in Requests, CommitReset(r) PROVE Store!Next
    <3>1. job[r] \in Requests
      BY <2>2 DEF IInv, ProgressFacts, CommitReset, RetryTx
    <3>2. QED
      BY <2>2, <3>1, CommitResetRefines DEF Store!Next
  <2>3. ASSUME NEW r \in Requests, CommitFail(r) PROVE Store!Next
    <3>1. job[r] \in Requests
      BY <2>3 DEF IInv, ProgressFacts, CommitFail, Dispatching, FailTx
    <3>2. QED
      BY <2>3, <3>1, CommitFailRefines DEF Store!Next
  <2>4. ASSUME NEW r \in Requests, Enqueue(r) PROVE Store!Next \/ UNCHANGED StoreVars
    <3>1. job[r] \in Requests
      BY <2>4 DEF IInv, ProgressFacts, Enqueue, Dispatching
    <3>2. QED
      BY <2>4, <3>1, EnqueueRefines DEF Store!Next
  <2>5. ASSUME NEW r \in Requests, Receive(r) PROVE UNCHANGED StoreVars
    <3>1. sent[r] = 0
      BY <2>5, BoundAssumption
         DEF IInv, TypeOK, ProgressFacts, Receive, Dispatching, FailTx, Final
    <3>2. \A q \in Requests : sent[q] > 0 => job'[q] = job[q]
      BY <2>5, <3>1 DEF IInv, TypeOK, Receive
    <3>3. QED
      BY <2>5, <3>2, SilentStep DEF Receive
  <2>6. ASSUME NEW r \in Requests,
               \/ BeginCreate(r) \/ InsertSite(r) \/ InsertJob(r) \/ BeginRetry(r) \/ FlushReset(r)
               \/ Accept(r) \/ BeginFail(r) \/ FlushFail(r) \/ DatabaseFault(r)
        PROVE UNCHANGED StoreVars
    <3>1. UNCHANGED <<job, sites, jobs, sent>>
      BY <2>6 DEF BeginCreate, InsertSite, InsertJob, BeginRetry, FlushReset, Accept, BeginFail,
                  FlushFail, DatabaseFault
    <3>2. QED
      BY <3>1, SilentStep
  <2>7. CASE Crash \/ UNCHANGED vars
    <3>1. UNCHANGED <<job, sites, jobs, sent>>
      BY <2>7 DEF Crash, vars
    <3>2. QED
      BY <3>1, SilentStep
  <2>8. QED
    BY <2>1, <2>2, <2>3, <2>4, <2>5, <2>6, <2>7 DEF Next, Step, DatabaseStep, Done
<1>3. QED
  BY <1>1, <1>2, Invariance, PTL DEF Spec, ImplementsStore, Store!Spec
=============================================================================
