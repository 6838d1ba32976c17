------------------------------- MODULE Schema --------------------------------
(***************************************************************************)
(* The database schema as Alembic migrates it up and down, one             *)
(* transaction per run, and what its foreign keys do to the rows when one  *)
(* of them is deleted.                                                     *)
(*                                                                         *)
(* A table stands for itself and its indexes.  PostgreSQL is modelled by   *)
(* its rules: DDL is transactional, a statement locks the tables it touches*)
(* until the end of its transaction, and it fails, with everything before  *)
(* it, if a name is taken, missing or still in use.                        *)
(***************************************************************************)
EXTENDS Naturals, Sequences

CONSTANTS
    Migrators,   \* runs of alembic
    Ids,         \* primary keys
    TableOf,     \* the table each of them belongs to
    Null

Tables == <<"websites", "crawl_jobs", "important_pages", "social_links",
            "technologies", "pages", "emails", "links">>

TableNames == {Tables[i] : i \in DOMAIN Tables}

(* Enumerated types: create_table creates them with the table that uses    *)
(* them, and without looking whether they exist.                           *)
TypesOf(t) ==
    CASE t = "crawl_jobs" -> {"crawl_job_status"}
      [] t = "important_pages" -> {"important_page_type"}
      [] OTHER -> {}

Objects == TableNames \cup {"crawl_job_status", "important_page_type"}

ASSUME IdAssumption == TableOf \in [Ids -> TableNames] /\ Null \notin Ids

-----------------------------------------------------------------------------
(* Foreign keys. *)

Ref(from, column, to, nullable, ondelete) ==
    [from |-> from, column |-> column, to |-> to, nullable |-> nullable, ondelete |-> ondelete]

OfWebsite ==
    {Ref(t, "website_id", "websites", FALSE, "CASCADE") : t \in TableNames \ {"websites", "links"}}

OfJob == {Ref("pages", "crawl_job_id", "crawl_jobs", FALSE, "CASCADE")}

(* Seeded bugs: the two keys are declared alike. *)
OfPage_Cascades ==
    {Ref("links", "source_page_id", "pages", FALSE, "CASCADE"),
     Ref("emails", "page_id", "pages", TRUE, "CASCADE")}

OfPage_SetsNull ==
    {Ref("links", "source_page_id", "pages", TRUE, "SET NULL"),
     Ref("emails", "page_id", "pages", TRUE, "SET NULL")}

OfPage ==
    {Ref("links", "source_page_id", "pages", FALSE, "CASCADE"),
     Ref("emails", "page_id", "pages", TRUE, "SET NULL")}

References == OfWebsite \cup OfJob \cup OfPage

RefsOf(t) == {r \in References : r.from = t}

Targets(t) == {r.to : r \in RefsOf(t)}

-----------------------------------------------------------------------------
(* Scripts. *)

Statement(op, name) == [op |-> op, name |-> name]

Upgrade == [i \in 1 .. 8 |-> Statement("create", Tables[i])]

DropTables == [i \in 1 .. 8 |-> Statement("drop", Tables[9 - i])]

(* Seeded bug: the enumerated types stay behind, as they do in a downgrade *)
(* that Alembic has generated.                                             *)
Downgrade_KeepsTypes == DropTables

Downgrade ==
    DropTables \o <<Statement("drop_type", "important_page_type"),
                    Statement("drop_type", "crawl_job_status")>>

Made(s) == IF s.op = "create" THEN {s.name} \cup TypesOf(s.name) ELSE {}
Dropped(s) == IF s.op = "create" THEN {} ELSE {s.name}

(* Tables and types that a statement locks. *)
Touched(s) == {s.name} \cup TypesOf(s.name) \cup Targets(s.name)

-----------------------------------------------------------------------------
VARIABLES
    schema,    \* committed tables and types
    version,   \* committed row of alembic_version: "base" or "head"
    pc,
    goal,      \* what a run does: "upgrade" or "downgrade"
    step,      \* index of its next statement
    late,      \* runs during which another one has committed
    rows       \* committed rows: for each id, the id in each foreign key

vars == <<schema, version, pc, goal, step, late, rows>>

Stored == DOMAIN rows

Init ==
    /\ schema = {} /\ version = "base"
    /\ pc = [m \in Migrators |-> "idle"]
    /\ goal = [m \in Migrators |-> "none"]
    /\ step = [m \in Migrators |-> 1]
    /\ late = {}
    /\ rows = [i \in {} |-> Null]

Script(m) == IF goal[m] = "upgrade" THEN Upgrade ELSE Downgrade

Executed(m) == {Script(m)[i] : i \in 1 .. step[m] - 1}

(* The catalogue as the run itself sees it. *)
View(m) ==
    (schema \cup UNION {Made(s) : s \in Executed(m)}) \ UNION {Dropped(s) : s \in Executed(m)}

Locked(m) == IF pc[m] = "running" THEN UNION {Touched(s) : s \in Executed(m)} ELSE {}

Free(names, others) == \A m \in others : names \cap Locked(m) = {}

(* do_run_migrations: the version is read, and the script chosen by it.    *)
Begin(m) ==
    /\ pc[m] = "idle"
    /\ \/ /\ version = "base" /\ goal' = [goal EXCEPT ![m] = "upgrade"]
          /\ pc' = [pc EXCEPT ![m] = "running"]
       \/ /\ version = "head" /\ goal' = [goal EXCEPT ![m] = "downgrade"]
          /\ pc' = [pc EXCEPT ![m] = "running"]
       \/ pc' = [pc EXCEPT ![m] = "done"] /\ UNCHANGED goal
    /\ UNCHANGED <<schema, version, step, late, rows>>

Applies(s, view) ==
    CASE s.op = "create" -> Made(s) \cap view = {} /\ Targets(s.name) \subseteq view
      [] s.op = "drop" -> s.name \in view /\ \A r \in References :
                                                r.to = s.name => r.from \notin view
      [] OTHER -> \A t \in view \cap TableNames : s.name \notin TypesOf(t)

Current(m) == Script(m)[step[m]]

(* Seeded bug: every statement is committed by itself. *)
Execute_Autocommit(m) ==
    /\ pc[m] = "running" /\ step[m] <= Len(Script(m))
    /\ Applies(Current(m), View(m))
    /\ schema' = (schema \cup Made(Current(m))) \ Dropped(Current(m))
    /\ step' = [step EXCEPT ![m] = @ + 1]
    /\ UNCHANGED <<version, pc, goal, late, rows>>

Execute(m) ==
    /\ pc[m] = "running" /\ step[m] <= Len(Script(m))
    /\ Free(Touched(Current(m)), Migrators \ {m})
    /\ \/ /\ Applies(Current(m), View(m))
          /\ step' = [step EXCEPT ![m] = @ + 1]
          /\ UNCHANGED pc
       \/ /\ ~Applies(Current(m), View(m))
          /\ pc' = [pc EXCEPT ![m] = "refused"]
          /\ UNCHANGED step
    /\ UNCHANGED <<schema, version, goal, late, rows>>

End(m, how) == pc' = [pc EXCEPT ![m] = how]

(* The version row is written in the same transaction.  The reply to the   *)
(* COMMIT may be lost.  Rows go with their tables.                         *)
Commit(m) ==
    /\ pc[m] = "running" /\ step[m] > Len(Script(m))
    /\ schema' = View(m)
    /\ version' = IF goal[m] = "upgrade" THEN "head" ELSE "base"
    /\ End(m, "done") \/ End(m, "aborted")
    /\ late' = late \cup {q \in Migrators \ {m} : pc[q] = "running"}
    /\ rows' = [i \in {j \in Stored : TableOf[j] \in schema'} |-> rows[i]]
    /\ UNCHANGED <<goal, step>>

(* The run is killed, or loses its connection, between two statements.     *)
Abort(m) ==
    /\ pc[m] = "running"
    /\ End(m, "aborted")
    /\ UNCHANGED <<schema, version, goal, step, late, rows>>

-----------------------------------------------------------------------------
(* Rows. *)

Fits(i, row) ==
    \A r \in DOMAIN row :
        \/ row[r] = Null /\ r.nullable
        \/ row[r] \in Stored /\ TableOf[row[r]] = r.to

Insert(i) ==
    /\ i \in Ids \ Stored /\ TableOf[i] \in schema
    /\ Free({TableOf[i]} \cup Targets(TableOf[i]), Migrators)
    /\ \E row \in [RefsOf(TableOf[i]) -> Stored \cup {Null}] :
          /\ Fits(i, row)
          /\ rows' = [j \in Stored \cup {i} |-> IF j = i THEN row ELSE rows[j]]
    /\ UNCHANGED <<schema, version, pc, goal, step, late>>

Pulls(i, j) == \E r \in DOMAIN rows[j] : rows[j][r] = i /\ r.ondelete = "CASCADE"

Pulled(S) == S \cup {j \in Stored : \E i \in S : Pulls(i, j)}

(* What is deleted with row i.  Three rounds suffice, as no chain of keys  *)
(* is longer than link, page, job, website.                                *)
Doomed(i) == Pulled(Pulled(Pulled({i})))

(* PostgreSQL refuses a deletion that would empty a column that may not be *)
(* NULL.                                                                   *)
Delete(i) ==
    LET gone == Doomed(i)
        names == {TableOf[j] : j \in gone}
    IN  /\ i \in Stored
        /\ Free(names \cup {r.from : r \in {x \in References : x.to \in names}}, Migrators)
        /\ \A j \in Stored \ gone : \A r \in DOMAIN rows[j] :
              rows[j][r] \in gone /\ r.ondelete = "SET NULL" => r.nullable
        /\ rows' = [j \in Stored \ gone |->
                       [r \in DOMAIN rows[j] |-> IF rows[j][r] \in gone THEN Null ELSE rows[j][r]]]
        /\ UNCHANGED <<schema, version, pc, goal, step, late>>

-----------------------------------------------------------------------------
Done == (\A m \in Migrators : pc[m] \notin {"idle", "running"}) /\ UNCHANGED vars

Next ==
    \/ Done
    \/ \E m \in Migrators : Begin(m) \/ Execute(m) \/ Commit(m) \/ Abort(m)
    \/ \E i \in Ids : Insert(i) \/ Delete(i)

Spec == Init /\ [][Next]_vars

-----------------------------------------------------------------------------
(* Whatever runs together and wherever one is killed, the committed schema *)
(* is whole or empty, and the version says which.                          *)
SchemaIsWhole ==
    schema = IF version = "head" THEN Objects ELSE {}

(* A statement only fails if another run has committed since this one has  *)
(* read the version: upgrade, downgrade and upgrade again always apply.    *)
MigrationsApply ==
    \A m \in Migrators : pc[m] = "refused" => m \in late

(* Every row but a website belongs to a stored row, and refers to no other *)
(* than stored rows of the right tables.                                   *)
NoOrphans ==
    \A j \in Stored :
        /\ TableOf[j] # "websites" => \E r \in DOMAIN rows[j] : rows[j][r] # Null
        /\ \A r \in DOMAIN rows[j] :
              rows[j][r] # Null => rows[j][r] \in Stored /\ TableOf[rows[j][r]] = r.to

(* Deleting a job or a page takes away what was crawled and leaves what is *)
(* known of the website: an e-mail goes by itself or with its website.     *)
EmailsOutliveJobs ==
    [][LET gone == Stored \ DOMAIN rows'
       IN  \A j \in gone :
              TableOf[j] = "emails" =>
                  gone = {j} \/ \A r \in DOMAIN rows[j] : r.to = "websites" => rows[j][r] \in gone]_vars
=============================================================================
