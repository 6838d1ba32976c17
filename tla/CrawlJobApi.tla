----------------------------- MODULE CrawlJobApi -----------------------------
(***************************************************************************)
(* The two state-changing endpoints of the crawl-job API, POST             *)
(* /crawl-jobs (create) and POST /crawl-jobs/{id}/retry, as they run on a  *)
(* PostgreSQL database in READ COMMITTED isolation and a Celery broker.    *)
(*                                                                         *)
(* Every request is one asyncio task, and every await of its handler is a  *)
(* point where the other requests may run.  A request owns one AsyncSession*)
(* but only holds a pooled connection inside a transaction; it never holds *)
(* one while it waits for the broker.                                      *)
(*                                                                         *)
(* The identifier of a job, and that of a website, is a fresh UUID; here   *)
(* it is the request that creates the row.                                 *)
(***************************************************************************)
EXTENDS Naturals, FiniteSets

CONSTANTS
    Requests,     \* HTTP requests, and the identifiers of what they create
    Domains,      \* hostnames of submitted URLs
    NoDomain, NoJob, NoSite,
    PoolSize,     \* connections the SQLAlchemy pool can open
    MaxCopies,    \* messages one send_task call may leave in the queue
    Faults        \* what may go wrong: see FaultKinds

FaultKinds == {"broker", "database", "crash"}

ASSUME NullAssumption ==
    /\ NoDomain \notin Domains
    /\ NoJob \notin Requests
    /\ NoSite \notin Requests

ASSUME BoundAssumption ==
    /\ PoolSize \in Nat \ {0}
    /\ MaxCopies \in Nat \ {0}
    /\ Faults \subseteq FaultKinds

VARIABLES
    pc,           \* where the handler of each request is
    job,          \* the job a request works on: itself when it creates one
    domain,       \* hostname of the URL a create request submits
    site,         \* the website row a create request found or inserted
    copy,         \* ORM instance of the job as last loaded or committed
    sent,         \* messages the request has left in the Celery queue
    committed,    \* requests whose first transaction is committed
    sites,        \* committed rows of websites: the domain of each
    jobs          \* committed rows of crawl_jobs

vars == <<pc, job, domain, site, copy, sent, committed, sites, jobs>>

-----------------------------------------------------------------------------
(* Rows.  The three columns below are the ones the two endpoints change;   *)
(* running and completed belong to the crawl worker, which does not exist. *)

JobRow == [site: Requests \cup {NoSite},
           status: {"absent", "queued", "failed"},
           error: BOOLEAN,         \* error_message IS NOT NULL
           finished: BOOLEAN]      \* finished_at IS NOT NULL

Absent == [site |-> NoSite, status |-> "absent", error |-> FALSE, finished |-> FALSE]

NewJob(s) == [site |-> s, status |-> "queued", error |-> FALSE, finished |-> FALSE]

(* Seeded bug: reset_for_retry leaves finished_at as it was. *)
ResetForRetry_KeepsFinishedAt(row) == [row EXCEPT !.status = "queued", !.error = FALSE]

ResetForRetry(row) ==
    [row EXCEPT !.status = "queued", !.error = FALSE, !.finished = FALSE]

MarkFailed(row) ==
    [row EXCEPT !.status = "failed", !.error = TRUE, !.finished = TRUE]

(* The unit of work only writes the columns whose value differs from the   *)
(* one it loaded; the others keep whatever the stored row has.             *)
Flushed(stored, old, new) ==
    [stored EXCEPT
        !.status   = IF new.status # old.status THEN new.status ELSE stored.status,
        !.error    = IF new.error # old.error THEN new.error ELSE stored.error,
        !.finished = IF new.finished # old.finished THEN new.finished ELSE stored.finished]

-----------------------------------------------------------------------------
(* Control states. *)

Final == {"accepted",      \* 202
          "rejected",      \* 404 or 409
          "unavailable",   \* 503 QUEUE_UNAVAILABLE
          "error",         \* 500, an exception no handler is registered for
          "died"}          \* the process ended before an answer

CreateTx   == {"site_missing", "site_ready", "job_inserted"}
RetryTx    == {"loaded", "reset"}
FailTx     == {"failing", "fail_flushed"}
InTx       == CreateTx \cup RetryTx \cup FailTx
Dispatching == {"enqueue", "dispatch_failed"} \cup FailTx
Control    == {"idle", "waiting", "enqueue", "enqueued", "dispatch_failed"} \cup InTx \cup Final

IsRetry(r) == job[r] # NoJob /\ job[r] # r

(* Seeded bug: the dispatch is inside the session.begin() block. *)
HoldsConnection_AcrossDispatch(r) == pc[r] \in InTx \cup {"enqueue"}

HoldsConnection(r) == pc[r] \in InTx

ConnectionFree == Cardinality({r \in Requests : HoldsConnection(r)}) < PoolSize

(* Rows a transaction has written and not committed.  An INSERT of the     *)
(* same unique key, or an UPDATE of the same row, waits for its outcome.   *)
InsertedSite(r) == pc[r] \in {"site_ready", "job_inserted"} /\ site[r] = r
UpdatedJob(r)   == pc[r] \in {"reset", "fail_flushed"}

JobRowFree(j) == \A r \in Requests : ~(UpdatedJob(r) /\ job[r] = j)

Stored(d) == \E s \in Requests : sites[s] = d

Goto(r, to) == pc' = [pc EXCEPT ![r] = to]

-----------------------------------------------------------------------------
Init ==
    /\ pc = [r \in Requests |-> "idle"]
    /\ job = [r \in Requests |-> NoJob]
    /\ domain = [r \in Requests |-> NoDomain]
    /\ site = [r \in Requests |-> NoSite]
    /\ copy = [r \in Requests |-> Absent]
    /\ sent = [r \in Requests |-> 0]
    /\ committed = {}
    /\ sites = [s \in Requests |-> NoDomain]
    /\ jobs = [j \in Requests |-> Absent]

(* A request with a valid body arrives: a URL to crawl, or the identifier  *)
(* of a job to retry, which need not exist.                                *)
Receive(r) ==
    /\ pc[r] = "idle"
    /\ Goto(r, "waiting")
    /\ \/ /\ job' = [job EXCEPT ![r] = r]
          /\ \E d \in Domains : domain' = [domain EXCEPT ![r] = d]
       \/ /\ \E j \in Requests \ {r} : job' = [job EXCEPT ![r] = j]
          /\ UNCHANGED domain
    /\ UNCHANGED <<site, copy, sent, committed, sites, jobs>>

-----------------------------------------------------------------------------
(* create_crawl_job *)

BeginCreate(r) ==
    /\ pc[r] = "waiting" /\ job[r] = r
    /\ ConnectionFree
    /\ \/ \E s \in Requests :
            /\ sites[s] = domain[r]
            /\ site' = [site EXCEPT ![r] = s]
            /\ Goto(r, "site_ready")
       \/ /\ ~Stored(domain[r])
          /\ Goto(r, "site_missing")
          /\ UNCHANGED site
    /\ UNCHANGED <<job, domain, copy, sent, committed, sites, jobs>>

(* Seeded bug: the index on websites.domain is not unique. *)
InsertSite_NoUniqueIndex(r) ==
    /\ pc[r] = "site_missing"
    /\ site' = [site EXCEPT ![r] = r]
    /\ Goto(r, "site_ready")
    /\ UNCHANGED <<job, domain, copy, sent, committed, sites, jobs>>

(* The unique index on websites.domain decides: the INSERT waits for an    *)
(* uncommitted row of the same domain and fails on a committed one.        *)
InsertSite(r) ==
    /\ pc[r] = "site_missing"
    /\ \A q \in Requests : ~(InsertedSite(q) /\ domain[q] = domain[r])
    /\ \/ /\ ~Stored(domain[r])
          /\ site' = [site EXCEPT ![r] = r]
          /\ Goto(r, "site_ready")
       \/ /\ Stored(domain[r])
          /\ Goto(r, "error")
          /\ UNCHANGED site
    /\ UNCHANGED <<job, domain, copy, sent, committed, sites, jobs>>

InsertJob(r) ==
    /\ pc[r] = "site_ready"
    /\ copy' = [copy EXCEPT ![r] = NewJob(site[r])]
    /\ Goto(r, "job_inserted")
    /\ UNCHANGED <<job, domain, site, sent, committed, sites, jobs>>

(* The reply to a COMMIT may be lost after the server has applied it; the  *)
(* exception that follows ends the request before it dispatches.           *)
AfterCommit(r, next) ==
    \/ Goto(r, next)
    \/ "database" \in Faults /\ Goto(r, "error")

CommitCreate(r) ==
    /\ pc[r] = "job_inserted"
    /\ sites' = IF InsertedSite(r) THEN [sites EXCEPT ![r] = domain[r]] ELSE sites
    /\ jobs' = [jobs EXCEPT ![r] = copy[r]]
    /\ committed' = committed \cup {r}
    /\ AfterCommit(r, "enqueue")
    /\ UNCHANGED <<job, domain, site, copy, sent>>

-----------------------------------------------------------------------------
(* retry_crawl_job *)

(* Seeded bug: the status check of the endpoint is missing. *)
BeginRetry_AnyStatus(r) ==
    /\ pc[r] = "waiting" /\ IsRetry(r)
    /\ ConnectionFree
    /\ jobs[job[r]].status # "absent"
    /\ copy' = [copy EXCEPT ![r] = jobs[job[r]]]
    /\ Goto(r, "loaded")
    /\ UNCHANGED <<job, domain, site, sent, committed, sites, jobs>>

BeginRetry(r) ==
    /\ pc[r] = "waiting" /\ IsRetry(r)
    /\ ConnectionFree
    /\ \/ /\ jobs[job[r]].status = "failed"
          /\ copy' = [copy EXCEPT ![r] = jobs[job[r]]]
          /\ Goto(r, "loaded")
       \/ /\ jobs[job[r]].status # "failed"
          /\ Goto(r, "rejected")
          /\ UNCHANGED copy
    /\ UNCHANGED <<job, domain, site, sent, committed, sites, jobs>>

(* The UPDATE is by primary key alone: once the row is free it is written, *)
(* whatever another transaction has meanwhile made of its status.          *)
FlushReset(r) ==
    /\ pc[r] = "loaded"
    /\ JobRowFree(job[r])
    /\ Goto(r, "reset")
    /\ UNCHANGED <<job, domain, site, copy, sent, committed, sites, jobs>>

CommitReset(r) ==
    LET new == ResetForRetry(copy[r])
    IN  /\ pc[r] = "reset"
        /\ jobs' = [jobs EXCEPT ![job[r]] = Flushed(@, copy[r], new)]
        /\ copy' = [copy EXCEPT ![r] = new]
        /\ committed' = committed \cup {r}
        /\ AfterCommit(r, "enqueue")
        /\ UNCHANGED <<job, domain, site, sent, sites>>

-----------------------------------------------------------------------------
(* _dispatch_or_mark_failed *)

(* Seeded bug: the job is also dispatched from inside its transaction. *)
Enqueue_BeforeCommit(r) ==
    /\ pc[r] \in {"job_inserted", "enqueue"}
    /\ sent' = [sent EXCEPT ![r] = 1]
    /\ IF pc[r] = "enqueue" THEN Goto(r, "enqueued") ELSE UNCHANGED pc
    /\ UNCHANGED <<job, domain, site, copy, committed, sites, jobs>>

(* Seeded bug: one attempt more than the policy allows. *)
Enqueue_OneTooMany(r) ==
    /\ pc[r] = "enqueue"
    /\ sent' = [sent EXCEPT ![r] = MaxCopies + 1]
    /\ Goto(r, "enqueued")
    /\ UNCHANGED <<job, domain, site, copy, committed, sites, jobs>>

(* send_task, in a thread.  It retries by itself, so it may leave several  *)
(* copies of the message, and when it raises the broker may still have     *)
(* accepted one whose acknowledgement was lost.                            *)
Enqueue(r) ==
    /\ pc[r] = "enqueue"
    /\ \E n \in 0 .. MaxCopies :
          /\ sent' = [sent EXCEPT ![r] = n]
          /\ \/ n > 0 /\ Goto(r, "enqueued")
             \/ "broker" \in Faults /\ Goto(r, "dispatch_failed")
    /\ UNCHANGED <<job, domain, site, copy, committed, sites, jobs>>

Accept(r) ==
    /\ pc[r] = "enqueued"
    /\ Goto(r, "accepted")
    /\ UNCHANGED <<job, domain, site, copy, sent, committed, sites, jobs>>

BeginFail(r) ==
    /\ pc[r] = "dispatch_failed"
    /\ ConnectionFree
    /\ Goto(r, "failing")
    /\ UNCHANGED <<job, domain, site, copy, sent, committed, sites, jobs>>

FlushFail(r) ==
    /\ pc[r] = "failing"
    /\ JobRowFree(job[r])
    /\ Goto(r, "fail_flushed")
    /\ UNCHANGED <<job, domain, site, copy, sent, committed, sites, jobs>>

(* Seeded bug: mark_failed is flushed but never committed. *)
CommitFail_RolledBack(r) ==
    /\ pc[r] = "fail_flushed"
    /\ Goto(r, "unavailable")
    /\ UNCHANGED <<job, domain, site, copy, sent, committed, sites, jobs>>

CommitFail(r) ==
    LET new == MarkFailed(copy[r])
    IN  /\ pc[r] = "fail_flushed"
        /\ jobs' = [jobs EXCEPT ![job[r]] = Flushed(@, copy[r], new)]
        /\ copy' = [copy EXCEPT ![r] = new]
        /\ AfterCommit(r, "unavailable")
        /\ UNCHANGED <<job, domain, site, sent, committed, sites>>

-----------------------------------------------------------------------------
(* Failures. *)

(* A statement fails, the server is gone, or no connection comes free in   *)
(* time: the transaction is rolled back and the exception is a 500.        *)
DatabaseFault(r) ==
    /\ "database" \in Faults
    /\ pc[r] \in {"waiting", "dispatch_failed"} \cup InTx
    /\ Goto(r, "error")
    /\ UNCHANGED <<job, domain, site, copy, sent, committed, sites, jobs>>

InFlight == Control \ (Final \cup {"idle"})

(* The API process ends: every request in flight goes with it, and the     *)
(* server rolls their open transactions back.                              *)
Crash ==
    /\ "crash" \in Faults
    /\ \E r \in Requests : pc[r] \in InFlight
    /\ pc' = [r \in Requests |-> IF pc[r] \in InFlight THEN "died" ELSE pc[r]]
    /\ UNCHANGED <<job, domain, site, copy, sent, committed, sites, jobs>>

-----------------------------------------------------------------------------
DatabaseStep(r) ==
    \/ BeginCreate(r) \/ InsertSite(r) \/ InsertJob(r) \/ CommitCreate(r)
    \/ BeginRetry(r) \/ FlushReset(r) \/ CommitReset(r)
    \/ BeginFail(r) \/ FlushFail(r) \/ CommitFail(r)

Step(r) ==
    \/ Receive(r) \/ DatabaseStep(r)
    \/ Enqueue(r) \/ Accept(r)
    \/ DatabaseFault(r)

(* Every request has been answered; anything else that stops is a deadlock. *)
Done == (\A r \in Requests : pc[r] \in Final) /\ UNCHANGED vars

Next == (\E r \in Requests : Step(r)) \/ Crash \/ Done

Spec == Init /\ [][Next]_vars

(* PostgreSQL executes the statements it is sent and a free connection is  *)
(* given to a waiter.  Nothing is assumed of the broker.                   *)
FairSpec == Spec /\ \A r \in Requests : WF_vars(DatabaseStep(r))

-----------------------------------------------------------------------------
TypeOK ==
    /\ pc \in [Requests -> Control]
    /\ job \in [Requests -> Requests \cup {NoJob}]
    /\ domain \in [Requests -> Domains \cup {NoDomain}]
    /\ site \in [Requests -> Requests \cup {NoSite}]
    /\ copy \in [Requests -> JobRow]
    /\ sent \in [Requests -> 0 .. MaxCopies]
    /\ committed \subseteq Requests
    /\ sites \in [Requests -> Domains \cup {NoDomain}]
    /\ jobs \in [Requests -> JobRow]

(* A message in the queue names a job whose row is committed, so a worker  *)
(* that picks it up at once finds the row, whatever the publisher went     *)
(* through afterwards (README: the API commits a job before it dispatches).*)
DispatchAfterCommit ==
    \A r \in Requests : sent[r] > 0 => jobs[job[r]].status # "absent"

(* A queued row is never forgotten without a cause: some request that      *)
(* committed it queued has left a message, is still dispatching, or ended  *)
(* in a 500 or with the process.                                           *)
QueuedHasOwner ==
    \A j \in Requests : jobs[j].status = "queued" =>
        \E r \in committed :
            /\ job[r] = j
            /\ sent[r] > 0 \/ pc[r] \in Dispatching \cup {"error", "died"}

(* The columns that describe a failure agree with the status, although     *)
(* each request only writes the columns that differ from its own copy.     *)
FailureRecorded ==
    \A j \in Requests :
        /\ jobs[j].error <=> jobs[j].status = "failed"
        /\ jobs[j].finished <=> jobs[j].status = "failed"

(* A domain has one website row, and every committed job refers to the     *)
(* committed row of the domain it was submitted for.                       *)
OneWebsitePerDomain ==
    /\ \A s, t \in Requests : sites[s] = sites[t] /\ sites[s] # NoDomain => s = t
    /\ \A j \in Requests : jobs[j].status # "absent" =>
          jobs[j].site \in Requests /\ sites[jobs[j].site] = domain[j] /\ domain[j] # NoDomain

OtherRetry(r) == \E q \in committed : q # r /\ job[q] = job[r] /\ IsRetry(q)

(* An answered request told the truth: after a 202 the job is queued and   *)
(* after a 503 it is stored as failed, unless another request has retried  *)
(* the same job.                                                           *)
AnswerMatchesRow ==
    \A r \in Requests :
        /\ pc[r] = "accepted" => OtherRetry(r) \/ jobs[job[r]].status = "queued"
        /\ pc[r] = "unavailable" => OtherRetry(r) \/ jobs[job[r]].status = "failed"

(* The broker cannot stall the database side: a request that waits for a   *)
(* connection or for a row gets through its transaction even when every    *)
(* send_task call hangs.                                                   *)
DatabaseWorkFinishes ==
    \A r \in Requests :
        pc[r] \in {"waiting", "dispatch_failed"} \cup InTx
            ~> pc[r] \in {"enqueue"} \cup Final

(* README: successfully submitted jobs remain queued until the crawler     *)
(* worker is implemented.                                                  *)
AcceptedStaysQueued ==
    \A r \in Requests : pc[r] = "accepted" => jobs[job[r]].status = "queued"

(* README: queue failures are stored on the job and returned as HTTP 503.  *)
QueueFailureStored ==
    [][\A r \in Requests :
          pc[r] \in {"dispatch_failed"} \cup FailTx /\ pc'[r] \in Final
              => pc'[r] = "unavailable" /\ jobs'[job[r]].status = "failed"]_vars
=============================================================================
