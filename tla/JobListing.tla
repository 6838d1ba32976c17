----------------------------- MODULE JobListing ------------------------------
(***************************************************************************)
(* GET /crawl-jobs, read page by page while jobs are created, fail and are *)
(* retried.  The stored jobs are those of JobStore, which the API with its *)
(* concurrent transactions implements.                                     *)
(*                                                                         *)
(* A page takes two statements.  In READ COMMITTED isolation each of them  *)
(* sees what is committed when it starts, although they share the          *)
(* transaction that the session has begun for them.  created_at is the     *)
(* time at which the creating transaction began, and jobs become visible   *)
(* in the order of the commits.                                            *)
(***************************************************************************)
EXTENDS Naturals, Sequences, FiniteSets

CONSTANTS
    Ids, Domains, NoSite,
    Unset,        \* a filter that is not given
    Statuses,   \* statuses a client filters by
    Limits      \* page sizes it asks for

ASSUME ListingAssumption ==
    /\ IsFiniteSet(Ids) /\ Unset \notin Ids /\ Unset \notin Statuses
    /\ Limits \subseteq 1 .. 100

VARIABLES
    website, row,   \* the store
    stamp,          \* created_at of each job, 0 before its transaction begins
    pc,             \* the client: "idle", "reading", "answered" or "done"
    query,          \* its filters and page size
    offset,
    turn,           \* statements executed for the page
    items, total,   \* the answer
    seen,           \* jobs on all pages so far, in order
    initial,        \* jobs that matched when the client began
    quiet           \* whether the same jobs have matched since

store == <<website, row, stamp>>
walk == <<pc, query, offset, turn, items, total, seen, initial>>
vars == <<store, walk, quiet>>

Store == INSTANCE JobStore WITH queue <- {}

StoredJobs == {j \in Ids : Store!Known(j)}

Sites == {row[j].site : j \in StoredJobs} \cup {Unset}

Queries == [site : Sites, status : Statuses \cup {Unset}, limit : Limits]

Init ==
    /\ website = [d \in Domains |-> {}]
    /\ row = [j \in Ids |-> Store!None]
    /\ stamp = [j \in Ids |-> 0]
    /\ pc = "idle"
    /\ query = [site |-> Unset, status |-> Unset, limit |-> 50]
    /\ offset = 0 /\ turn = 0
    /\ items = <<>> /\ total = 0 /\ seen = <<>>
    /\ initial = {} /\ quiet = TRUE

-----------------------------------------------------------------------------
(* The WHERE clause that list and count share. *)
Matching ==
    {j \in StoredJobs : /\ query.site \in {row[j].site, Unset}
                        /\ query.status \in {row[j].status, Unset}}

(* Seeded bug: without an ORDER BY. *)
Orders_Missing(S) ==
    {s \in [1 .. Cardinality(S) -> S] : \A i, k \in DOMAIN s : i < k => s[i] # s[k]}

(* Newest first, and any order among jobs of the same time.                *)
Orders(S) ==
    {s \in [1 .. Cardinality(S) -> S] :
        \A i, k \in DOMAIN s : i < k => s[i] # s[k] /\ stamp[s[i]] >= stamp[s[k]]}

Least(m, n) == IF m < n THEN m ELSE n

(* Seeded bug: the page begins one row late. *)
Page_OffByOne(s) == SubSeq(s, offset + 2, Least(offset + 1 + query.limit, Len(s)))

Page(s) == SubSeq(s, offset + 1, Least(offset + query.limit, Len(s)))

-----------------------------------------------------------------------------
(* Transactions that create a job begin at the time of the last one that   *)
(* began, or later.  The clock counts such times.  The runs end with the   *)
(* walk of the client.                                                     *)
Clock == {stamp[k] : k \in {i \in Ids : \A j \in Ids : stamp[j] <= stamp[i]}}

Begin(j) ==
    /\ pc # "done" /\ stamp[j] = 0
    /\ \E now \in Clock : \E t \in {now, now + 1} \ {0} : stamp' = [stamp EXCEPT ![j] = t]
    /\ UNCHANGED <<website, row, walk, quiet>>

Commit(j) ==
    /\ pc # "done"
    /\ \/ stamp[j] > 0 /\ \E d \in Domains : Store!Submit(j, d)
       \/ Store!Fail(j)
       \/ Store!Requeue(j)
    /\ UNCHANGED <<stamp, walk>>
    /\ quiet' = (quiet /\ Matching' = Matching)

-----------------------------------------------------------------------------
List ==
    /\ \E s \in Orders(Matching) : items' = Page(s)
    /\ seen' = seen \o items'
    /\ UNCHANGED total

Count ==
    /\ total' = Cardinality(Matching)
    /\ UNCHANGED <<items, seen>>

(* Seeded bug: the total is counted first. *)
Statements_Swapped == <<"count", "list">>

Statements == <<"list", "count">>

Open ==
    /\ pc = "idle"
    /\ pc' = "reading"
    /\ query' \in Queries
    /\ UNCHANGED <<store, offset, turn, items, total, seen>>
    /\ initial' = Matching' /\ quiet' = TRUE

(* list_crawl_jobs *)
Read ==
    /\ pc = "reading"
    /\ turn' = turn + 1
    /\ \/ Statements[turn'] = "list" /\ List
       \/ Statements[turn'] = "count" /\ Count
    /\ pc' = IF turn' = 2 THEN "answered" ELSE pc
    /\ UNCHANGED <<store, query, offset, initial, quiet>>

(* A client asks for the next page until one is not full. *)
Turn ==
    /\ pc = "answered"
    /\ \/ /\ Len(items) = query.limit
          /\ pc' = "reading" /\ turn' = 0
          /\ offset' = offset + query.limit
       \/ /\ Len(items) < query.limit
          /\ pc' = "done"
          /\ UNCHANGED <<turn, offset>>
    /\ UNCHANGED <<store, query, items, total, seen, initial, quiet>>

Done == pc = "done" /\ UNCHANGED vars

Next == (\E j \in Ids : Begin(j) \/ Commit(j)) \/ Open \/ Read \/ Turn \/ Done

Spec == Init /\ [][Next]_vars

-----------------------------------------------------------------------------
(* A page never shows more jobs than there are in total, although the two  *)
(* statements see different states.  (A job may leave a listing by status  *)
(* between them.)                                                          *)
TotalCoversItems ==
    pc = "answered" /\ query.status = Unset => offset + Len(items) <= total

Untied(j) == \A k \in StoredJobs \ {j} : stamp[k] # stamp[j]

Shown(j) == \E i \in DOMAIN seen : seen[i] = j

(* Jobs that are added while a client turns the pages push others back,    *)
(* never forward: it misses none that was there when it began, except jobs *)
(* created at the same instant, and jobs of a listing by status, which     *)
(* others may leave.                                                       *)
WalkIsComplete ==
    pc = "done" /\ query.status = Unset => \A j \in initial : Untied(j) => Shown(j)

(* While the matching jobs stay the same, a walk shows each job once,      *)
(* newest first, whatever the filters and the size of the pages, unless    *)
(* jobs were created at the same instant.                                  *)
QuietWalkIsExact ==
    quiet /\ (\A j \in initial : Untied(j)) =>
        /\ \A i, k \in DOMAIN seen : i < k => stamp[seen[i]] > stamp[seen[k]]
        /\ pc = "done" => \A j \in initial : Shown(j)
=============================================================================
