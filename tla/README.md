# WebIntel in TLA+

Models, checks and proofs about WebIntel, the FastAPI service that accepts websites to
crawl, queues crawl jobs for a worker, and contains the crawler's page fetcher, robots
policy, URL normaliser and page extractors. The modules are translated from the code
under `src/app` and `src/alembic`; `PROJECT.json` maps every definition to the lines it stands for.

## 1. The system

| Component | State | Operations | Interacts with |
| --- | --- | --- | --- |
| Crawl-job API, create and retry (`api/routes/crawl_jobs.py`) | rows of `websites` and `crawl_jobs`; the ORM instance of the request | `POST /crawl-jobs`, `POST /crawl-jobs/{id}/retry`, `_dispatch_or_mark_failed` | sessions and repositories (await), Celery (thread) |
| Crawl-job API, read and list | none | `GET /crawl-jobs` (two statements per page), `GET /crawl-jobs/{id}` | repositories |
| Repositories, models, sessions (`db/`) | PostgreSQL tables, connection pool | `get_or_create`, `create`, `reset_for_retry`, `mark_failed`, `list`, `count`; `mark_running`, `mark_completed` (no caller) | PostgreSQL |
| Dispatcher (`workers/`) | Celery queue on Redis | `dispatch_crawl_job` = `send_task` | called in a thread by the API |
| Page fetcher (`services/crawler/fetcher.py`) | approved addresses per host, httpx pool | `fetch`, `aclose`, `PinnedNetworkBackend.connect_tcp` | DNS, web servers, URL validator |
| Robots policy (`services/crawler/robots.py`) | policy and lock per origin | `check`, `_load` | page fetcher |
| URL normaliser and validator (`url_normalizer.py`, `url_intake.py`) | none | `normalize_url`, `validate_public_url`, `extract_hostname` | DNS |
| Page extraction (`parser.py`, `link_extractor.py`, `important_page_detector.py`, `social_link_detector.py`, `email_extractor.py`) | none | `extract_links`, `detect_important_pages`, `detect_social_links`, `extract_emails` | normaliser |
| Readiness (`api/routes/health.py`) | none | `GET /ready`: two probes under one timeout | PostgreSQL through the pool of the handlers, Redis |
| Life cycle, settings, logging (`main.py`, `core/`) | clients opened at start, closed at the end | `lifespan` | all |
| Schema migration (`alembic/`, `db/models/`) | tables, enumerated types, foreign keys, `alembic_version` | `upgrade`, `downgrade`, each in one transaction | PostgreSQL |
| Crawl worker | - | announced in the README for a later phase; no code | - |

What is hard about each, and what makes it correct:

- **Create and retry.** Requests are asyncio tasks that interleave at every await, on
  connections of one pool. Neither endpoint locks a row between reading and writing it, so
  correctness rests on the unique index of `websites.domain`, the row locks of UPDATE, and
  the fact that the unit of work writes only changed columns. The job is committed first and
  dispatched afterwards, so each of commit, dispatch and `mark_failed` may fail with the
  others done. Correct means: a message names a stored job, no queued job is lost without
  a cause, the columns that describe a failure agree, a domain has one website, an answer
  agrees with the row.
- **Sessions.** The pool is bounded: a request must not hold a connection while it waits for
  the broker, and waits for connections and for rows must not form a cycle.
- **Page fetcher.** Calls share approvals and a connection pool. Every hop is looked up
  again, and the DNS may answer differently. Responses must be closed on every path,
  cancellation included; attempts add up over hops and retries; redirects and retries are
  bounded.
- **Robots policy.** Checks of one origin share one load, through an asyncio lock that must
  survive failure and cancellation of its holder.
- **Normaliser and extraction.** Normalisation ought to be idempotent, and extraction must
  skip what it rejects. What is derived from the links (important pages, profiles) sees
  normalised URLs and the text of the first anchor only, so it must not depend on how a URL is
  written or on the order of the anchors.
- **Listing.** A page and its total are two statements that see different states, and the pages
  of one walk see different listings, since jobs are created, fail and are retried meanwhile
  and become visible in another order than that of their `created_at`. Correct means: a total
  covers what was shown, and no job is missed.
- **Readiness.** Two concurrent probes race with one time limit, and one of them competes with
  the handlers for the pool. Correct means: an answer was true at some moment of the request,
  no connection is kept, and there is always an answer.
- **Schema.** Several instances may migrate at once, or be killed between two statements;
  `create_table` makes enumerated types that `drop_table` leaves behind; every table but `websites` hangs on
  cascading keys, and one key sets NULL instead. Correct means: the committed schema is whole
  or empty, each statement finds what it needs, and a DELETE takes what it should and no more.

`PROJECT.json` lists the hazards at their lines with the properties that cover them.

## 2. The modules

```
JobStore                     abstract: an atomic store of websites, jobs and messages
CrawlJobApi                  create and retry, pool, index, row locks, broker, crash
  CrawlJobApi_refines        the mapping to JobStore
    MCCrawlJobApi            model values, symmetry
    CrawlJobApi_proofs       the inductive invariant, the safety theorems, the refinement
PageFetcher                  concurrent fetches on one fetcher
  MCPageFetcher              two hosts, a page with and without trailing slash
  PageFetcher_proofs
RobotsPolicy                 cache, locks and loads
  MCRobotsPolicy
  RobotsPolicy_proofs
UrlNormalizer                normalize_url as operators on split URLs
  LinkExtraction             extract_links on a page, then validation before the fetch
    PageExtraction           important pages, profiles and addresses of the page
      MCLinkExtraction       twelve families of pages
      PageExtraction_proofs  on UrlNormalizer_proofs: links and what is derived from them
  UrlNormalizer_proofs       what the folds over paths and queries compute
JobListing                   a client that turns the pages of a listing; the store is JobStore
  MCJobListing               symmetry
  JobListing_proofs
Readiness                    GET /ready, the pool, and services that hang or refuse
  Readiness_proofs
Schema                       alembic runs, and rows with their foreign keys
  MCSchema                   six rows of five tables, symmetry
  Schema_proofs
```

A definition called `X_Something` is a *seeded bug*: a plausible mistake in `X`, which no
specification uses. Putting it in the place of `X` must make the property it is listed with
in `PROJECT.json` fail; this shows that the property depends on the code.

### CrawlJobApi

One step is the code between two awaits that reach the database or the broker.

| State | Code |
| --- | --- |
| `pc[r]` | where the handler of request `r` is |
| `job[r]`, `domain[r]`, `site[r]` | the job, hostname and website the handler works with |
| `copy[r]` | the ORM instance, which `expire_on_commit=False` keeps as last committed |
| `sent[r]` | messages the request left in the queue |
| `sites`, `jobs`, `committed` | committed rows; requests whose first transaction is durable |

| Action | Code |
| --- | --- |
| `Receive` | a request whose body passed validation (a 422 touches no state) |
| `BeginCreate`, `InsertSite`, `InsertJob`, `CommitCreate` | `create_crawl_job` with `WebsiteRepository.get_or_create` and `CrawlJobRepository.create` |
| `BeginRetry`, `FlushReset`, `CommitReset` | `retry_crawl_job` with `reset_for_retry`; 404 and 409 |
| `Enqueue`, `Accept`, `BeginFail`, `FlushFail`, `CommitFail` | `_dispatch_or_mark_failed` |
| `DatabaseFault`, and the second disjunct of `AfterCommit` | an exception in a transaction, before or after the server applied the commit |
| `Crash` | the end of the process |

Identifiers are UUIDs, so a request names the row it creates. A transaction that writes is
visible to others only through what makes them wait: an INSERT of the same domain and an
UPDATE of the same row wait for its end. `Flushed` is the unit of work: it writes the columns
whose value differs from the loaded one. `PoolSize` stands for `pool_size` plus SQLAlchemy's
default overflow; giving up after the pool's time limit is a `DatabaseFault`. Tables beside
the two, columns that never change, and the texts of answers are left out.
`create_crawl_job` has no handler for the unique violation: the loser of a race for a new
domain is answered with a 500 (`InsertSite`).

### JobStore and the refinement

`JobStore` states what is promised of the stored data as if requests acted at once:
`Submit` stores a job with the one website of its domain, `Fail` and `Requeue` replace a row
as a whole, `Publish` names a stored job. `CrawlJobApi_refines` maps committed rows and left
messages to it. That partial UPDATEs from stale copies still replace rows as a whole is the
point of it.

### PageFetcher

| State | Code |
| --- | --- |
| `requested`, `url`, `chain`, `total` | locals of `fetch` (`chain` is the length of `redirect_chain`) |
| `attempt`, `answer`, `peer` | locals of `_request_with_retries`, and the connection of its response |
| `sends`, `reported` | requests really sent; `attempts` of the result or error |
| `approved` | `PinnedNetworkBackend._approved` |
| `idle`, `closed` | the httpx pool (external), `aclose` |

`Validate` is `validate_public_url` with its lookup and `approve`; `Send`, `Read`, `Discard`
and `Wake` are the retry loop; `Close` is the rest of the loop of `fetch`; `Cancel` may strike
at every await. A page is a URL as the server knows it and `Canonical` is what
`normalize_url` makes of it. `Serves` gives what a server may answer; in the safety run a
server may do anything. An address belongs to one host; the httpx pool never uses a
connection of one origin for another, so the addresses of different hosts are disjoint.

### RobotsPolicy

`Check`, `Resume`, `Load`, `LoadRaises` and `Cancel` are `check` and `_load` with the lock of
asyncio as a FIFO of waiters; `Resume` includes the second look at the cache. What a file
says may change from load to load.

### UrlNormalizer and LinkExtraction

`UrlNormalizer` is a module of pure operators: `Canonical` is `normalize_url` without a base
and `Resolve` with one. URLs are split already; a path is the sequence of its segments, with
empty ones, so that slashes at the end, in the middle and in front remain visible; a parameter
has a number for a key. A reference is what an href may be: absolute, without a scheme, without
an authority, rooted, or a query alone.

| Operator | Code |
| --- | --- |
| `Unescaped` | `html.unescape` of a whole URL: `Entities` says what it makes of a segment, `Unescape` reads a parameter like `&section` as a section sign |
| `Unfit` | the limit of the length, and blanks; a parameter, since it is about strings |
| `Normalized` | the rest of `normalize_url`: hosts, ports, `NormalizePath`, `NormalizeQuery` |
| `NormPath` | `posixpath.normpath`, which keeps two leading slashes as POSIX demands |
| `Join`, `JoinPaths` | `urljoin`, which resolves dot segments before escapes are decoded |
| `ResolutionBase` | a base: unescaped twice, normalised, and its slash put back at the end of the whole URL |

Case, IDNA and fragments are left out, and hosts that are refused for them are members of
`Refused`; so are entities for the characters that delimit the parts of a URL (`&sol;`), which
would move text from one part to another before it is split. `Entities` may be any function that
keeps empty segments apart from others; nothing is assumed of unescaping twice.

`LinkExtraction` runs `extract_links` over the anchors of one page (`Extract`, `Raise`,
`Refuse`, `Return`) and then what `validate_public_url` does to each link before it is fetched
(`Visit`). A base element is joined with the page's URL as it is, and counts if the result can be
normalised (`DocumentBase`); a malformed one raises. `SameResource` and `Meaning` say what a URL
identifies without the steps of the code: a segment stays unless the path climbs above it further
on. That is the reference which deduplication is compared with.

### PageExtraction

Operators on the final state of `LinkExtraction`, each next to what it promises in terms of
`SameResource` and `Meaning`, which know nothing of normalisation:

| Operator | Code |
| --- | --- |
| `Tokens`, `PathSegments`, `PathMatch`, `TextMatch`, `Confidence`, `Candidates` | `detect_important_pages` with its scores 0.99, 0.95 and 0.80 |
| `On`, `Sharing`, `Watching`, `IsProfilePath`, `Profiles` | `detect_social_links` |
| `Visible`, `Raw`, `Emails` | `extract_emails`: text nodes by their immediate parent, then mailto anchors, first spelling met |

What is promised is told in other terms than those of the code: `Names` looks at what a URL
identifies, `ActsFor` lists what shares or plays, whatever the slashes, and `Shown` looks at every
element around a text. Where the code falls short of that, against its documentation, the
property names the exception (`Bare`, `HiddenDirectly`; section 5).

A text is a sequence of words, a host a sequence of DNS labels; `Lower`, `Hyphenated`, `Labels`,
`Share`, `Video` and `Email` are the string functions and patterns of the code on the values of
the instance. The grammar of an address is not modelled, only which spellings it makes equal and
which it rejects.

### JobListing

The listing reads the store that `CrawlJobApi` implements: its writers are `Submit`, `Fail` and
`Requeue` of `JobStore`, whose use is justified by the refinement.

| State | Code |
| --- | --- |
| `website`, `row` | committed rows; `stamp[j]` is `created_at`, the time the creating transaction began |
| `query`, `offset` | parameters of `GET /crawl-jobs` |
| `turn`, `items`, `total` | statements executed for the page, and the answer |
| `seen`, `initial`, `quiet` | history of the walk: all that was shown, what matched at the start, whether the matching jobs have stayed the same |

| Action | Code |
| --- | --- |
| `Begin`, `Commit` | a transaction that creates a job begins, and later commits; jobs fail and are retried |
| `Read` = `List`, then `Count` | `list_crawl_jobs`: `CrawlJobRepository.list` and `count`, each of which sees what is committed when it starts (READ COMMITTED) |
| `Open`, `Turn` | a client of the listing, external: it asks for pages until one is not full |

`Orders` leaves the order of equal `created_at` open, as the ORDER BY does.

### Readiness

| State | Code |
| --- | --- |
| `service` | what a service does now: answers, refuses or hangs |
| `lent`, `held` | connections of the pool with handlers, and with probes |
| `pc`, `probe`, `answer` | the request, its two probes, the checks of its response |
| `witness` | history: what each service would have answered during the request |

| Action | Code |
| --- | --- |
| `Receive`, `Connect`, `Finish` | `readiness` and the gathered `check_postgresql` and `check_redis`; an exception is a result |
| `Timeout`, `Cancelled`, `Answer` | `wait_for` with its limit: it cancels both probes, waits for them, and the answer says `timeout` of both |
| `Change`, `Borrow`, `Return` | the services and the handlers, at any time |

`GET /health` is a constant. The texts of errors and the code 503 follow from the checks.

### Schema

| State | Code |
| --- | --- |
| `schema`, `version` | committed tables (with their indexes) and enumerated types; `alembic_version` |
| `pc`, `goal`, `step` | a run of alembic, its script and its next statement |
| `late` | history: runs during which another one has committed |
| `rows` | committed rows: for each key, the keys in its foreign-key columns |

| Action | Code |
| --- | --- |
| `Begin`, `Execute`, `Commit`, `Abort` | `do_run_migrations`, one statement of `upgrade` or `downgrade` at a time; a run may be killed between any two |
| `Insert`, `Delete` | rows under the foreign keys of the migration; the models leave cascading to them (`passive_deletes`) |

PostgreSQL is modelled by its rules: DDL is transactional and locks what it touches to the end of
its transaction, and a statement fails if its name is taken, missing or in use. `Doomed` follows
the cascading keys three times; that this is enough is proved (`DoomedIsClosed`).

## 3. What is checked

| Run | Instance | Shows |
| --- | --- | --- |
| `api_safety` | 3 requests, 2 domains, pool of 2, one copy of a message, all faults; 466 001 states | the six invariants of section 4, `ImplementsStore`, and `DatabaseWorkFinishes` under fairness |
| `api_accepted` | 3 requests, broker faults | counterexample to `AcceptedStaysQueued` |
| `api_stored` | 3 requests, broker and database faults | counterexample to `QueueFailureStored` |
| `fetch_safety` | 2 fetches of 2 pages on 2 hosts, 3 addresses of which 1 is private, 1 retry, 1 redirect; 999 568 states | `PinnedToOwnHost`, `NothingLeftOpen`, `AttemptsReported`, `SendsBounded`, `BackoffDefined`, and `FetchEnds` under fairness |
| `fetch_slash` | 1 fetch, a server that redirects to the slash form | counterexample to `RedirectErrorMeansLongChain` |
| `robots_shared` | 4 checks, 2 origins, 2 file contents; 25 425 states | `OneLoadPerOrigin`, `DecisionsAgree`, `CheckEnds` |
| `links` | twelve families of pages, 511 460 states: pairs of absolute anchors over all paths of up to 3 segments, over paths of up to 2 segments with entities, over all queries of up to 2 parameters, or over all schemes, hosts and ports; one relative anchor of every kind under every page's URL, or under every base element, be it relative, absolute or malformed; pairs of anchors to hubs with all texts; pairs of anchors to social platforms; pairs of text nodes with mailto anchors | `LinksAreNormal`, `OneLinkPerResource`, `ResolvedInDirectory`, `FetchedAsExtracted`, `HubsAreFound`, `ProfilesAreFound`, `EmailsAreListedOnce` |
| `links_twice` | the same pages | counterexample to `NormalizedOnceForAll` |
| `links_malformed` | the same pages | counterexample to `MalformedIgnored` |
| `schema` | 3 runs of alembic, rows: 2 websites and a job, a page, an e-mail and a link; symmetric; 45 624 states | `SchemaIsWhole`, `MigrationsApply`, `NoOrphans`, `EmailsOutliveJobs` |
| `listing` | 3 jobs of 2 domains, pages of 1 or 2, filters by website and by status; symmetric; 1 409 128 states | `TotalCoversItems`, `WalkIsComplete`, `QuietWalkIsExact` |
| `ready` | 2 requests, pool of 1; 416 610 states | `AnswerIsTrue`, `ConnectionsReturned`, and `ReadinessAnswers` under fairness |

*Bounds.* Three requests are what the races of the API need: one that creates and fails a job
and two that retry it, or two that race for a domain and one that retries. With a pool of two,
the third waits for a connection while the others wait for rows. `MaxCopies` bounds the
messages one dispatch leaves; two retries of a job leave two of them anyway, and the theorems
hold for every bound. Two fetches share one pool and one table of approvals; one retry
and one redirect make every counter reach its limit and go round (a redirect starts a new retry
loop), and `Backoffs` equals the retries, the least the constructor accepts. `SendBound` caps the
counter `sends` one above what is allowed. Four checks allow a holder, two waiters and a late
comer. Deduplication is a matter of two URLs, so pairs of anchors are enough; they vary in one
part of the URL at a time because `Canonical` treats the parts separately. Three segments let a
path climb above its root and come back; they are also the most that `Unfit` allows, so that a
link can be found whose base has made it too long. The segments with entities have one that a
second unescaping changes, one that decoding an escape makes, and one that turns into dots or into
a malformed escape. Three alembic runs allow an upgrade, a downgrade and an
upgrade again, or a run that two others overtake; the rows are of those tables that are on a
chain of keys, with a second website for a row to refer to. Three jobs and pages of one let a
job be added behind and before the client in one walk; creation times need no bound, since a job
takes the time of the last one or the next. A pool of one is the tightest for two probes. The
theorems of section 4 remove most of these bounds.

*Symmetry* is used in `schema` and `listing`, whose properties are invariants and one action
property and whose constants are exchangeable. No run with a liveness property uses it.

*Fairness.* `CrawlJobApi!FairSpec` is weak fairness of database steps: PostgreSQL executes
what it is sent, and a free connection or row is given to a waiter. Nothing is assumed of the
broker, so `DatabaseWorkFinishes` says that a hanging `send_task` blocks nobody else.
`PageFetcher!FairSpec` is weak fairness of a fetch's own steps: connecting, reading and
waiting for the pool have time limits, bodies a size limit, sleeps are finite; lookups are
assumed to end. `RobotsPolicy!FairSpec`: the event loop runs tasks that can run, and a load
is a fetch, which ends. Weak fairness of `Resume` is enough since only the first waiter of a
free lock may take it. `Readiness!Spec` is weak fairness of `Timeout`, `Cancelled` and `Answer`:
the event loop runs timers and cancelled tasks. Neither the services nor the pool are fair, so
that `ReadinessAnswers` holds although a server may hang for ever and the handlers may keep the
whole pool.

*Deadlock* is checked everywhere: `Done` is the only way to stop.

## 4. What is proved

`CrawlJobApi_proofs` proves, for every number of requests and domains, every pool size and
every set of faults, from `NullAssumption` (null values are not identifiers) and
`BoundAssumption`:

- `TypeCorrect`: `Spec => []TypeOK`;
- `DispatchIsAfterCommit`, `QueuedJobsHaveOwners`, `FailuresAreRecorded`,
  `WebsitesAreUnique`, `AnswersMatchRows`: the five invariants of `api_safety`.

They follow from one inductive invariant, `IInv`, proved step by step (`ReceiveStep` ...
`CrashStep`). Besides the properties it says:

- `ProgressFacts`: the control state tells what the request has done. Without it a message
  or an owner could not be traced to a committed row.
- `CopyFacts`: the copy a retry loaded is a failed row, the copy of a dispatching request a
  queued one. This is what makes a partial UPDATE change all three columns.
- `SiteFacts`: the website a create request holds is committed or its own uncommitted
  insert, and nobody else is inserting that domain: the unique index.
- `CreatorFacts`: the row of a job exists exactly when its create request committed.
- `AnswerFacts`: what an unretried job looks like at each point of its creator.

The same module proves `Refinement`: `Spec => ImplementsStore`. Commits of
create, retry and failure map to `Submit`, `Requeue` and `Fail`, `Enqueue` with a copy left to
`Publish`, every other step to a stutter; it uses `Invariance` for the shape of the rows.

`PageFetcher_proofs` proves `TypeCorrect`, `ResponsesArePinned`, `NothingIsLeaked`,
`AttemptsAreReported`, `SendsAreBounded` and `BackoffsSuffice` for any number of fetches, any
limits, servers and DNS answers, from `SiteAssumption` (among it: an address belongs to one
host, and normalisation keeps the host) and `LimitAssumption` (the constructor's checks). Its
`IInv` adds to the properties:

- `ApprovalFacts`: what is approved for a host, and what idles in the pool, is public. Pinning
  rests on it, since a later lookup may replace an approval while a response is in hand.
- `ResponseFacts`: where a fetch has a response, and that it has a URL once it has started.
- `CountFacts`: requests sent, as a sum of the counters, at every point of the loop; retries
  sleep only while one is left; each hop cost at most `Retries + 1`. The type of `attempt` is not
  inductive without it, and `RoomForOne` turns it into the bound.

`RobotsPolicy_proofs` proves `LoadsAreShared` and `ChecksAgree` for any number of checks and
origins. `LockFacts` says that a loading check holds the lock and found no policy under it,
`DecisionFacts` that decisions are in the cache; the queue of the lock plays no part. It does in
`TypeCorrect`: a cancelled check is taken out of the middle of the queue with `RemoveFirst`.

`Readiness_proofs` proves `AnswersAreTrue` and `ConnectionsAreReturned` for any number of
requests and any pool, from `ReadinessAssumption` (the pool is not empty). What is true at the
time of the answer was true at the time of the probe: `ResultIsTrue` carries a result from one
to the other, and rests on `WitnessIsCurrent`, which says that the witness of a request in
flight has what the services are at every moment.

`Schema_proofs` proves all four properties of `schema` for any number of runs and any rows, from
`IdAssumption`. `VersionIsCurrent` says that a run that nobody's commit has overtaken works on
the schema whose version it has read; then `UpgradeApplies` and `DowngradeApplies` go through the
scripts: a table refers only to tables created before it (`ReferenceOrder`), names of tables and
types do not collide, and the types are dropped when no table is left. `RowsFit` says that each
row has a permitted value in every foreign key. It is preserved by a DELETE because `Doomed` is
closed under the cascading keys (`DoomedIsClosed`: each of them goes up in `Depth`, which has four
values), so that a row that stays only loses a key that may be NULL.

`JobListing_proofs` proves `TotalsCoverItems`, `WalksAreComplete` and `QuietWalksAreExact` for any
jobs and any sizes of pages, from `ListingAssumption`. `PassedExist` says that as many jobs match as rows are behind
the client. `NothingIsMissed` says that a job that has not been shown has at least that many newer
jobs in front of it; their number never falls (`CommitIInv`), and in every listing it is the
position of the job (`RankIsPosition`: a bijection between the positions before it and the newer
jobs). So the next page either shows the job or ends before it, and a page that is not full ends
after all. For `QuietWalksAreExact`, `InPlace` says that the job at place `i` of the walk has
exactly `i - 1` newer ones: the walk is ordered and repeats nothing, and one as long as the
listing shows all of it. It covers the listings by status, which `NothingIsMissed` cannot.

`UrlNormalizer_proofs` and `PageExtraction_proofs` prove the seven properties of `links` for pages
with any number of anchors, and paths and queries of any length. The assumptions are on the
data: `SegmentAssumption` (decoding an escape twice is decoding it once, and makes no segment
empty or malformed; unescaping keeps empty segments apart from
others), `NoUrlAssumption`, `PagesAssumption` (pages have the parts they should) and
`ContentAssumption` (lower case is idempotent).

What the folds of the code compute is proved by induction over their histories. The induction
theorems of the library take a predicate and cannot be used, so `Induction` and `SeqInduction`
take the *set* of what satisfies it, and rest on the fact that a set of numbers has a smallest
element. `FoldExists` shows that a fold has a history at all: the community modules define it by
recursion over sets of indices. `AmongHistory`, `DownHistory`, `UnescapeHistory`, `UpHistory`,
`ReadHistory` and `ListHistory` give that history for each fold of the model, and everything else
is proved from these. With them:

- `CanonicalIsFixed`: a URL in normal form is its own normal form, if nothing in its path or
  query looks like an entity, it is not too long and its host is not rejected; without the first of
  these it is false (`links_twice`). For the query this needs that
  sorting is determined by how often each parameter occurs (`SortedUnique`, `SortedKeeps`), since
  `Sorted` is defined by a choice among the permutations.
- `KeptIsMeaning`: `normpath`, a stack, keeps the segments that `Meaning` keeps by counting.
  `Tracks` is the invariant of the stack: after `k` segments it holds, in order, the positions
  that the path has not climbed above yet; `Picks` relates positions to segments.
- `CanonicalIsResource`: two URLs in which nothing looks like an entity have one normal form
  exactly if they name the same resource.
- `InvariantHolds`: every link is the resolved target of the first anchor with that target, and
  every anchor with a target has a link to it (`LinksOk`, `AllLinked`). `OneLinkPerResource` is
  not inductive without it, since it only speaks of the end, and of anchors and not of links.
  `NormalLinks`, `LinksAreFetchedAsExtracted` and `OneLink` follow from it.
- `DirectoryResolution`: `urljoin` resolves dot segments before escapes are decoded and counts
  empty segments, `normpath` does it afterwards and drops them. `RaisedIsWalked` and
  `LeftIsWalked` say that they agree on a path without empty segments, up to a slash at the end;
  `WalkedConcat` says that a prefix matters only by what is kept of it.
- `FoundHubs` and `FoundProfiles`: the candidates for an anchor come from its own link, or there
  are none. `NormalResource` turns the `SameResource` of the properties into equality of URLs,
  `SegmentsOfMeaning` and `ProfilePath` compare what the detectors look at with the meaning.
- `ListedEmails`: `Lists` says of a prefix of the addresses that what was heard is listed, and
  that of two listed addresses the one in front was heard before the other was heard at all.
  The property speaks of places on the page and not of what was heard: `Placed` maps each place
  to a position of what is read, in order, and `RawPlaced` says that every position has a place,
  by induction over the text nodes (`PlacedMore`). `VisibleIsShown` is where `HiddenDirectly` is
  needed.

The proof of `InvariantHolds` found a mistake in an earlier form of the model: `Return` was possible
on a page whose own URL is refused, if the page had no anchors. In the code `normalize_url`
raises before the loop; `Extract`, `Raise` and `Return` now need `Accepted`.

*Only model-checked.* The four liveness properties `DatabaseWorkFinishes`, `FetchEnds`,
`CheckEnds` and `ReadinessAnswers`: reasoning about fairness and ENABLED is outside what the proof
system supports. Every safety property of a passing run, and the refinement, is a theorem.

## 5. Disagreements between the code and its documentation

1. `api_accepted`: two retries of one failed job both pass the unlocked status check. One is
   answered with 202; the dispatch of the other fails, and its `mark_failed` overwrites the
   row. README line 95 says that submitted jobs remain queued.
2. `api_stored`: if the transaction that stores a queue failure fails itself, the answer is
   500 and the job stays queued with no message, and cannot be retried (409). README line 94
   says that queue failures are stored and returned as 503.
3. `fetch_slash`: the Location of a redirect is normalised, which drops a trailing slash. A
   server that redirects `/docs` to `/docs/` is asked for `/docs` until the limit of redirects
   is reached.
4. `links_twice`: `normalize_url` applies `html.unescape` to whole URLs that are normalised
   already. `/a&%73ection` becomes `/a&section`, and the next normalisation, before the fetch,
   reads a section sign in it; `?section=2&p=1` is sorted to `?p=1&section=2`, which becomes
   `?p=1%C2%A7ion%3D2`. A test asserts that normal forms are fixed points.
5. `links_malformed`: an href like `http://[` makes `urljoin` raise a plain ValueError, and the
   links of the whole page are lost; the href of a base element does the same. README line 107
   says that malformed URLs are ignored.

Others were met and are described by the model or excluded by a precondition, without a run:

- A Location that `normalize_url` rejects leaves `fetch` as `UrlNormalizationError` (the ending
  `url_error` of `PageFetcher`); the docstring of `RedirectFetchError` claims invalid redirects.
- The slash of a base with a query is put back behind the query, as part of the last value
  (`ResolutionBase`; `ResolvedInDirectory` assumes that no parameter survives normalisation), and
  a base whose last segment is a dot segment is resolved one level too high.
- The prefixes `/intent/`, `/sharing/` and, for youtube, `/shorts/` are looked for in paths whose
  trailing slash normalisation has removed, so a link to `/intent/` counts as a profile, although
  README line 124 says that sharing and content URLs are excluded (`Bare`). A path that begins
  with two slashes, which `normpath` keeps, escapes all prefixes in the same way. Without these
  two preconditions TLC finds `ProfilesAreFound` violated.
- Only the immediate parent of a text node decides whether it is visible, so text of an element
  inside a `template` or `noscript` counts, although README line 123 promises visible e-mails.
  Without `HiddenDirectly` TLC finds `EmailsAreListedOnce` violated.
- The time limit of `/ready` is reported for both services, also for one that has answered
  (`TimedOut`).

## 6. Not modelled, and the plan

Left out for good, with the reason:

- the crawl worker (no code), and with it `mark_running`, `mark_completed` and the reads of
  `PageRepository`, which nothing in the application calls: without a caller there is no
  protocol to check;
- title, description, headings and preview of a page: texts that no decision depends on;
- case, IDNA and fragments of URLs, entities for the characters that delimit their parts, which
  URLs are too long, the grammar of addresses and of robots.txt,
  HTML parsing: functions of strings, some of them of libraries;
- formatting, logging and the parsing of settings;
- `GET /crawl-jobs/{id}` and `GET /health`, which read one row, or nothing, and change nothing;
- alembic's offline mode, which prints SQL.

What would come next:

1. The end of the application (`lifespan`): requests that are under way when the clients close,
   and a Redis client whose `aclose` raises, so that the engine is not disposed of.
2. `RobotsPolicy` composed with the outcomes of `PageFetcher`, in place of the choice in `Load`.
3. `JobLifecycle`, as soon as the worker calls `mark_running` and `mark_completed`: neither looks
   at the status it overwrites.
