---------------------------- MODULE Schema_proofs ----------------------------
(***************************************************************************)
(* Migrations and foreign keys, for any number of runs of alembic and any  *)
(* rows.                                                                   *)
(*                                                                         *)
(* A run that nobody else's commit has overtaken works on the schema whose *)
(* version it has read, so that each of its statements finds what the ones *)
(* before it have left.  A DELETE is closed under the cascading keys       *)
(* because no chain of them has more than three links, so that a row that  *)
(* stays only loses references that may be NULL.                           *)
(***************************************************************************)
EXTENDS Schema, SequenceTheorems, TLAPS

-----------------------------------------------------------------------------
(* The tables. *)

LEMMA TableList ==
    /\ DOMAIN Tables = 1 .. 8
    /\ Tables[1] = "websites" /\ Tables[2] = "crawl_jobs" /\ Tables[3] = "important_pages"
    /\ Tables[4] = "social_links" /\ Tables[5] = "technologies" /\ Tables[6] = "pages"
    /\ Tables[7] = "emails" /\ Tables[8] = "links"
    /\ TableNames = {"websites", "crawl_jobs", "important_pages", "social_links",
                     "technologies", "pages", "emails", "links"}
<1>1. /\ DOMAIN Tables = 1 .. 8
      /\ Tables[1] = "websites" /\ Tables[2] = "crawl_jobs" /\ Tables[3] = "important_pages"
      /\ Tables[4] = "social_links" /\ Tables[5] = "technologies" /\ Tables[6] = "pages"
      /\ Tables[7] = "emails" /\ Tables[8] = "links"
  BY DEF Tables
<1>2. \A i \in 1 .. 8 : i \in {1, 2, 3, 4, 5, 6, 7, 8}
  OBVIOUS
<1>3. TableNames = {Tables[i] : i \in {1, 2, 3, 4, 5, 6, 7, 8}}
  BY <1>1, <1>2 DEF TableNames
<1> QED BY <1>1, <1>3

LEMMA TablesDiffer ==
    ASSUME NEW i \in 1 .. 8, NEW k \in 1 .. 8, Tables[i] = Tables[k]
    PROVE  i = k
<1>1. i \in {1, 2, 3, 4, 5, 6, 7, 8} /\ k \in {1, 2, 3, 4, 5, 6, 7, 8}
  OBVIOUS
<1> QED BY <1>1, TableList

LEMMA TypesDiffer ==
    /\ \A t \in TableNames : TypesOf(t) \subseteq {"crawl_job_status", "important_page_type"}
    /\ \A t, u \in TableNames : t # u => TypesOf(t) \cap TypesOf(u) = {}
    /\ \A t \in TableNames : TypesOf(t) \cap TableNames = {}
    /\ Objects = TableNames \cup UNION {TypesOf(t) : t \in TableNames}
<1>1. /\ TypesOf("crawl_jobs") = {"crawl_job_status"}
      /\ TypesOf("important_pages") = {"important_page_type"}
      /\ \A t \in TableNames \ {"crawl_jobs", "important_pages"} : TypesOf(t) = {}
  BY DEF TypesOf
<1> QED BY <1>1, TableList DEF Objects

-----------------------------------------------------------------------------
(* The foreign keys. *)

LEMMA ReferenceList ==
    ASSUME NEW r \in References
    PROVE  /\ r.from \in TableNames /\ r.to \in TableNames /\ r.from # "websites"
           /\ r.ondelete \in {"CASCADE", "SET NULL"}
           /\ r.nullable <=> r.ondelete = "SET NULL"
           /\ r.ondelete = "SET NULL" <=> (r.from = "emails" /\ r.to = "pages")
           /\ \/ r.to = "websites" /\ r.from # "links"
              \/ r.to = "crawl_jobs" /\ r.from = "pages"
              \/ r.to = "pages" /\ r.from \in {"links", "emails"}
           /\ r.to = "websites" => r = Ref(r.from, "website_id", "websites", FALSE, "CASCADE")
<1>1. CASE r \in OfWebsite
  <2>1. PICK t \in TableNames \ {"websites", "links"} :
           r = Ref(t, "website_id", "websites", FALSE, "CASCADE")
    BY <1>1 DEF OfWebsite
  <2>2. r.from = t /\ r.to = "websites" /\ r.nullable = FALSE /\ r.ondelete = "CASCADE"
    BY <2>1 DEF Ref
  <2>3. "websites" \in TableNames
    BY TableList
  <2> QED BY <2>1, <2>2, <2>3
<1>2. CASE r \in OfJob
  <2>1. r.from = "pages" /\ r.to = "crawl_jobs" /\ r.nullable = FALSE /\ r.ondelete = "CASCADE"
    BY <1>2 DEF OfJob, Ref
  <2>2. "pages" \in TableNames /\ "crawl_jobs" \in TableNames
    BY TableList
  <2> QED BY <2>1, <2>2
<1>3. CASE r \in OfPage
  <2> DEFINE a == Ref("links", "source_page_id", "pages", FALSE, "CASCADE")
             b == Ref("emails", "page_id", "pages", TRUE, "SET NULL")
  <2>a. r = a \/ r = b
    BY <1>3 DEF OfPage
  <2>b. a.to = "pages" /\ a.from = "links" /\ a.nullable = FALSE /\ a.ondelete = "CASCADE"
    BY DEF Ref
  <2>c. b.to = "pages" /\ b.from = "emails" /\ b.nullable = TRUE /\ b.ondelete = "SET NULL"
    BY DEF Ref
  <2>1. /\ r.to = "pages"
        /\ \/ r.from = "links" /\ r.nullable = FALSE /\ r.ondelete = "CASCADE"
           \/ r.from = "emails" /\ r.nullable = TRUE /\ r.ondelete = "SET NULL"
    BY <2>a, <2>b, <2>c
  <2>2. "pages" \in TableNames /\ "links" \in TableNames /\ "emails" \in TableNames
    BY TableList
  <2> QED BY <2>1, <2>2
<1> QED BY <1>1, <1>2, <1>3 DEF References

(* Every table but websites has a key that cannot be NULL. *)
LEMMA Owner ==
    ASSUME NEW t \in TableNames, t # "websites"
    PROVE  \E r \in RefsOf(t) : r.nullable = FALSE
<1>1. CASE t = "links"
  <2>1. Ref("links", "source_page_id", "pages", FALSE, "CASCADE") \in RefsOf(t)
    BY <1>1 DEF RefsOf, References, OfPage, Ref
  <2> QED BY <2>1 DEF Ref
<1>2. CASE t # "links"
  <2>1. Ref(t, "website_id", "websites", FALSE, "CASCADE") \in RefsOf(t)
    BY <1>2 DEF RefsOf, References, OfWebsite, Ref
  <2> QED BY <2>1 DEF Ref
<1> QED BY <1>1, <1>2

(* A table refers to tables that are created before it. *)
LEMMA ReferenceOrder ==
    ASSUME NEW r \in References, NEW k \in 1 .. 8, r.from = Tables[k]
    PROVE  \E l \in 1 .. k - 1 : r.to = Tables[l]
<1>1. k \in {1, 2, 3, 4, 5, 6, 7, 8}
  OBVIOUS
<1>2. CASE r.to = "websites"
  <2>1. k # 1
    BY ReferenceList, TableList
  <2> QED BY <2>1, <1>2, TableList
<1>3. CASE r.to = "crawl_jobs" /\ r.from = "pages"
  <2>1. k = 6
    BY <1>1, <1>3, TableList
  <2> QED BY <2>1, <1>3, TableList
<1>4. CASE r.to = "pages" /\ r.from \in {"links", "emails"}
  <2>1. k \in {7, 8}
    BY <1>1, <1>4, TableList
  <2> QED BY <2>1, <1>4, TableList
<1> QED BY <1>2, <1>3, <1>4, ReferenceList

-----------------------------------------------------------------------------
(* The scripts. *)

Steps == [op : {"create", "drop", "drop_type"}, name : Objects]

LEMMA SequenceOf ==
    ASSUME NEW S, NEW n \in Nat, NEW f \in [1 .. n -> S]
    PROVE  f \in Seq(S) /\ Len(f) = n
<1>1. Seq(S) = UNION {[1 .. m -> S] : m \in Nat}
  OBVIOUS
<1>2. f \in Seq(S)
  BY <1>1
<1>3. Len(f) \in Nat /\ 1 .. Len(f) = 1 .. n
  BY <1>2, LenProperties
<1> QED BY <1>2, <1>3

LEMMA UpgradeScript ==
    /\ Len(Upgrade) = 8
    /\ \A i \in 1 .. 8 : Upgrade[i] = Statement("create", Tables[i])
<1>1. \A i \in 1 .. 8 : Tables[i] \in Objects
  BY TableList DEF TableNames, Objects
<1>2. Upgrade \in [1 .. 8 -> Steps]
  BY <1>1 DEF Upgrade, Statement, Steps
<1>3. Upgrade \in Seq(Steps) /\ Len(Upgrade) = 8
  BY <1>2, SequenceOf
<1> QED BY <1>3 DEF Upgrade

LEMMA DowngradeScript ==
    /\ Len(Downgrade) = 10
    /\ \A i \in 1 .. 8 : Downgrade[i] = Statement("drop", Tables[9 - i])
    /\ Downgrade[9] = Statement("drop_type", "important_page_type")
    /\ Downgrade[10] = Statement("drop_type", "crawl_job_status")
<1> DEFINE types == <<Statement("drop_type", "important_page_type"),
                      Statement("drop_type", "crawl_job_status")>>
<1>1. \A i \in 1 .. 8 : Tables[9 - i] \in Objects
  BY TableList DEF TableNames, Objects
<1>2. DropTables \in [1 .. 8 -> Steps]
  BY <1>1 DEF DropTables, Statement, Steps
<1>3. DropTables \in Seq(Steps) /\ Len(DropTables) = 8
  BY <1>2, SequenceOf
<1>4. types \in Seq(Steps) /\ Len(types) = 2
      /\ types[1] = Statement("drop_type", "important_page_type")
      /\ types[2] = Statement("drop_type", "crawl_job_status")
  BY DEF Statement, Steps, Objects
<1>5. Downgrade = DropTables \o types
  BY DEF Downgrade
<1>6. /\ Len(DropTables \o types) = 8 + 2
      /\ \A i \in 1 .. 8 + 2 : (DropTables \o types)[i] =
            IF i <= 8 THEN DropTables[i] ELSE types[i - 8]
  <2> HIDE DEF types
  <2>1. /\ Len(DropTables \o types) = Len(DropTables) + Len(types)
        /\ \A i \in 1 .. Len(DropTables) + Len(types) : (DropTables \o types)[i] =
              IF i <= Len(DropTables) THEN DropTables[i] ELSE types[i - Len(DropTables)]
    BY <1>3, <1>4, ConcatProperties
  <2> QED BY <2>1, <1>3, <1>4
<1>7. \A i \in 1 .. 8 : Downgrade[i] = Statement("drop", Tables[9 - i])
  BY <1>5, <1>6 DEF DropTables
<1>8. Downgrade[9] = types[1] /\ Downgrade[10] = types[2]
  BY <1>5, <1>6
<1> QED BY <1>4, <1>5, <1>6, <1>7, <1>8

(* What the statements make and remove. *)
LEMMA UpgradeMakes ==
    ASSUME NEW i \in 1 .. 8
    PROVE  /\ Made(Upgrade[i]) = {Tables[i]} \cup TypesOf(Tables[i])
           /\ Dropped(Upgrade[i]) = {}
BY UpgradeScript DEF Made, Dropped, Statement

LEMMA DowngradeDrops ==
    ASSUME NEW i \in 1 .. 10
    PROVE  /\ Made(Downgrade[i]) = {}
           /\ Dropped(Downgrade[i]) = {Downgrade[i].name}
<1>1. i \in 1 .. 8 \/ i = 9 \/ i = 10
  OBVIOUS
<1> QED BY <1>1, DowngradeScript DEF Made, Dropped, Statement

LEMMA AllMade == UNION {Made(Upgrade[i]) : i \in 1 .. 8} = Objects
<1>1. UNION {Made(Upgrade[i]) : i \in 1 .. 8}
        = {Tables[i] : i \in 1 .. 8} \cup UNION {TypesOf(Tables[i]) : i \in 1 .. 8}
  BY UpgradeMakes
<1>2. {Tables[i] : i \in 1 .. 8} = TableNames
  BY TableList DEF TableNames
<1>3. UNION {TypesOf(Tables[i]) : i \in 1 .. 8} = UNION {TypesOf(t) : t \in TableNames}
  BY TableList DEF TableNames
<1> QED BY <1>1, <1>2, <1>3, TypesDiffer

LEMMA AllDropped == {Downgrade[i].name : i \in 1 .. 10} = Objects
<1>1. \A i \in 1 .. 8 : Downgrade[i].name = Tables[9 - i]
  BY DowngradeScript DEF Statement
<1>2. Downgrade[9].name = "important_page_type" /\ Downgrade[10].name = "crawl_job_status"
  BY DowngradeScript DEF Statement
<1>3. \A i \in 1 .. 8 : 9 - i \in 1 .. 8 /\ 9 - (9 - i) = i
  OBVIOUS
<1>4. TableNames \subseteq {Downgrade[i].name : i \in 1 .. 10}
  <2> SUFFICES ASSUME NEW t \in TableNames
               PROVE  t \in {Downgrade[i].name : i \in 1 .. 10}
    OBVIOUS
  <2>1. PICK k \in 1 .. 8 : t = Tables[k]
    BY TableList DEF TableNames
  <2>2. Downgrade[9 - k].name = t /\ 9 - k \in 1 .. 10
    BY <2>1, <1>1, <1>3
  <2> QED BY <2>2
<1>5. \A i \in 1 .. 8 : Downgrade[i].name \in TableNames
  BY <1>1, <1>3, TableList DEF TableNames
<1>6. \A i \in 1 .. 10 : i \in 1 .. 8 \/ i = 9 \/ i = 10
  OBVIOUS
<1> QED BY <1>2, <1>4, <1>5, <1>6 DEF Objects

-----------------------------------------------------------------------------
(* The migrations. *)

TypeInv ==
    /\ version \in {"base", "head"}
    /\ pc \in [Migrators -> {"idle", "running", "refused", "done", "aborted"}]
    /\ goal \in [Migrators -> {"none", "upgrade", "downgrade"}]
    /\ step \in [Migrators -> Nat]
    /\ \A m \in Migrators :
          /\ pc[m] = "idle" => step[m] = 1
          /\ pc[m] = "running" => goal[m] # "none" /\ step[m] \in 1 .. Len(Script(m)) + 1

(* A run that has not been overtaken has read the version that is.         *)
VersionIsCurrent ==
    \A m \in Migrators :
        pc[m] = "running" /\ m \notin late =>
            version = IF goal[m] = "upgrade" THEN "base" ELSE "head"

MInv == TypeInv /\ SchemaIsWhole /\ VersionIsCurrent /\ MigrationsApply

(* The catalogue between the statements of a run. *)
LEMMA UpgradeView ==
    ASSUME NEW m \in Migrators, goal[m] = "upgrade", step[m] \in 1 .. 9
    PROVE  View(m) = schema \cup UNION {Made(Upgrade[i]) : i \in 1 .. step[m] - 1}
<1>1. Executed(m) = {Upgrade[i] : i \in 1 .. step[m] - 1}
  BY DEF Executed, Script
<1>2. \A i \in 1 .. step[m] - 1 : i \in 1 .. 8
  OBVIOUS
<1>3. UNION {Dropped(s) : s \in Executed(m)} = {}
  BY <1>1, <1>2, UpgradeMakes
<1>4. UNION {Made(s) : s \in Executed(m)} = UNION {Made(Upgrade[i]) : i \in 1 .. step[m] - 1}
  BY <1>1
<1> QED BY <1>3, <1>4 DEF View

LEMMA DowngradeView ==
    ASSUME NEW m \in Migrators, goal[m] = "downgrade", step[m] \in 1 .. 11
    PROVE  View(m) = schema \ {Downgrade[i].name : i \in 1 .. step[m] - 1}
<1>1. Executed(m) = {Downgrade[i] : i \in 1 .. step[m] - 1}
  BY DEF Executed, Script
<1>2. \A i \in 1 .. step[m] - 1 : i \in 1 .. 10
  OBVIOUS
<1>3. UNION {Made(s) : s \in Executed(m)} = {}
  BY <1>1, <1>2, DowngradeDrops
<1>4. UNION {Dropped(s) : s \in Executed(m)} = {Downgrade[i].name : i \in 1 .. step[m] - 1}
  <2>1. UNION {Dropped(s) : s \in Executed(m)} = UNION {Dropped(Downgrade[i]) : i \in 1 .. step[m] - 1}
    BY <1>1
  <2>2. \A i \in 1 .. step[m] - 1 : Dropped(Downgrade[i]) = {Downgrade[i].name}
    BY <1>2, DowngradeDrops
  <2> QED BY <2>1, <2>2
<1> QED BY <1>3, <1>4 DEF View

LEMMA ScriptLength ==
    ASSUME NEW m \in Migrators
    PROVE  Len(Script(m)) = IF goal[m] = "upgrade" THEN 8 ELSE 10
BY UpgradeScript, DowngradeScript DEF Script

(* A whole script makes the whole schema or nothing of it. *)
LEMMA ViewAtTheEnd ==
    ASSUME MInv, NEW m \in Migrators, pc[m] = "running", step[m] > Len(Script(m))
    PROVE  View(m) = IF goal[m] = "upgrade" THEN Objects ELSE {}
<1>1. schema \subseteq Objects
  BY DEF MInv, SchemaIsWhole
<1>2. CASE goal[m] = "upgrade"
  <2>1. step[m] = 9
    <3>1. step[m] \in 1 .. Len(Script(m)) + 1
      BY DEF MInv, TypeInv
    <3>2. Len(Script(m)) = 8
      BY <1>2, ScriptLength
    <3>3. step[m] > 8 /\ step[m] \in 1 .. 8 + 1
      BY <3>1, <3>2
    <3> QED BY <3>3
  <2>2. View(m) = schema \cup UNION {Made(Upgrade[i]) : i \in 1 .. 8}
    BY <1>2, <2>1, UpgradeView
  <2> QED BY <1>1, <1>2, <2>2, AllMade
<1>3. CASE goal[m] = "downgrade"
  <2>1. step[m] = 11
    <3>1. step[m] \in 1 .. Len(Script(m)) + 1
      BY DEF MInv, TypeInv
    <3>2. Len(Script(m)) = 10
      BY <1>3, ScriptLength
    <3>3. step[m] > 10 /\ step[m] \in 1 .. 10 + 1
      BY <3>1, <3>2
    <3> QED BY <3>3
  <2>2. View(m) = schema \ {Downgrade[i].name : i \in 1 .. 10}
    BY <1>3, <2>1, DowngradeView
  <2> QED BY <1>1, <1>3, <2>2, AllDropped
<1> QED BY <1>2, <1>3 DEF MInv, TypeInv

(* On an empty database, every statement of the upgrade applies. *)
LEMMA UpgradeApplies ==
    ASSUME NEW m \in Migrators, goal[m] = "upgrade", schema = {}, step[m] \in 1 .. 8
    PROVE  Applies(Current(m), View(m))
<1> DEFINE n == step[m]
           t == Tables[n]
<1>1. Current(m) = Statement("create", t)
  BY UpgradeScript DEF Current, Script
<1>2. View(m) = UNION {Made(Upgrade[i]) : i \in 1 .. n - 1}
  BY UpgradeView
<1>3. \A i \in 1 .. n - 1 : i \in 1 .. 8 /\ i # n
  OBVIOUS
<1>4. \A i \in 1 .. 8 : Tables[i] \in TableNames
  BY TableList DEF TableNames
<1>5. Made(Current(m)) = {t} \cup TypesOf(t)
  BY <1>1 DEF Made, Statement
<1>6. \A i \in 1 .. n - 1 : Made(Upgrade[i]) \cap Made(Current(m)) = {}
  <2> TAKE i \in 1 .. n - 1
  <2>1. i \in 1 .. 8 /\ Tables[i] # t /\ Tables[i] \in TableNames /\ t \in TableNames
    BY <1>3, <1>4, TablesDiffer
  <2>2. Made(Upgrade[i]) = {Tables[i]} \cup TypesOf(Tables[i])
    BY <2>1, UpgradeMakes
  <2>3. /\ TypesOf(Tables[i]) \cap TypesOf(t) = {}
        /\ TypesOf(t) \cap TableNames = {} /\ TypesOf(Tables[i]) \cap TableNames = {}
    BY <2>1, TypesDiffer
  <2> QED BY <2>1, <2>2, <2>3, <1>5
<1>7. Targets(t) \subseteq View(m)
  <2> SUFFICES ASSUME NEW r \in References, r.from = t PROVE r.to \in View(m)
    BY DEF Targets, RefsOf
  <2>1. PICK l \in 1 .. n - 1 : r.to = Tables[l]
    BY ReferenceOrder
  <2>2. Tables[l] \in Made(Upgrade[l])
    BY <1>3, UpgradeMakes
  <2> QED BY <2>1, <2>2, <1>2
<1>8. Made(Current(m)) \cap View(m) = {}
  BY <1>2, <1>6
<1> QED BY <1>1, <1>7, <1>8 DEF Applies, Statement

(* On the whole schema, every statement of the downgrade applies. *)
LEMMA DowngradeApplies ==
    ASSUME NEW m \in Migrators, goal[m] = "downgrade", schema = Objects, step[m] \in 1 .. 10
    PROVE  Applies(Current(m), View(m))
<1> DEFINE n == step[m]
<1>1. View(m) = Objects \ {Downgrade[i].name : i \in 1 .. n - 1}
  BY DowngradeView
<1>2. \A i \in 1 .. 8 : Downgrade[i].name = Tables[9 - i] /\ 9 - i \in 1 .. 8
  BY DowngradeScript DEF Statement
<1>3. Current(m) = Downgrade[n]
  BY DEF Current, Script
<1>4. CASE n \in 1 .. 8
  <2> DEFINE t == Tables[9 - n]
  <2>1. Current(m) = Statement("drop", t)
    BY <1>3, <1>4, DowngradeScript
  <2>2. t \in Objects
    BY <1>4, <1>2, TableList DEF TableNames, Objects
  <2>3. \A i \in 1 .. n - 1 : Downgrade[i].name # t
    <3> SUFFICES ASSUME NEW i \in 1 .. n - 1, Tables[9 - i] = t PROVE FALSE
      BY <1>2, <1>4
    <3>1. 9 - i \in 1 .. 8 /\ 9 - n \in 1 .. 8 /\ 9 - i # 9 - n
      BY <1>4
    <3> QED BY <3>1, TablesDiffer
  <2>4. \A r \in References : r.to = t => r.from \notin View(m)
    <3> SUFFICES ASSUME NEW r \in References, r.to = t PROVE r.from \notin View(m)
      OBVIOUS
    <3>a. r.from \in TableNames
      BY ReferenceList
    <3>1. PICK k \in 1 .. 8 : r.from = Tables[k]
      BY <3>a, TableList DEF TableNames
    <3>2. PICK l \in 1 .. k - 1 : t = Tables[l]
      BY <3>1, ReferenceOrder
    <3>3. l = 9 - n
      <4>1. l \in 1 .. 8 /\ 9 - n \in 1 .. 8
        BY <1>4
      <4> QED BY <4>1, <3>2, TablesDiffer
    <3>4. 9 - k \in 1 .. n - 1 /\ 9 - (9 - k) = k
      BY <3>3, <1>4
    <3>5. Downgrade[9 - k].name = Tables[k]
      BY <3>4, <1>2, <1>4
    <3> QED BY <3>1, <3>4, <3>5, <1>1
  <2>5. t \in View(m)
    BY <2>2, <2>3, <1>1
  <2> QED BY <2>1, <2>4, <2>5 DEF Applies, Statement
<1>5. CASE n \in {9, 10}
  <2>1. View(m) \cap TableNames = {}
    <3> SUFFICES ASSUME NEW t \in TableNames PROVE t \notin View(m)
      OBVIOUS
    <3>1. PICK k \in 1 .. 8 : t = Tables[k]
      BY TableList DEF TableNames
    <3>2. 9 - k \in 1 .. n - 1 /\ 9 - k \in 1 .. 8 /\ 9 - (9 - k) = k
      BY <1>5
    <3>3. Downgrade[9 - k].name = t
      BY <3>1, <3>2, <1>2
    <3> QED BY <3>2, <3>3, <1>1
  <2>2. Current(m).op = "drop_type"
    BY <1>3, <1>5, DowngradeScript DEF Statement
  <2> QED BY <2>1, <2>2 DEF Applies
<1> QED BY <1>4, <1>5

-----------------------------------------------------------------------------
LEMMA BeginMInv ==
    ASSUME MInv, NEW m \in Migrators, Begin(m) PROVE MInv'
<1> USE DEF MInv
<1>1. \A q \in Migrators \ {m} : pc'[q] = pc[q] /\ goal'[q] = goal[q] /\ step'[q] = step[q]
  BY DEF Begin, TypeInv
<1>2. schema' = schema /\ version' = version /\ late' = late /\ step' = step /\ step[m] = 1
  BY DEF Begin, TypeInv
<1>3. \/ /\ version = "base" /\ goal'[m] = "upgrade" /\ pc'[m] = "running"
      \/ /\ version = "head" /\ goal'[m] = "downgrade" /\ pc'[m] = "running"
      \/ pc'[m] = "done"
  BY DEF Begin, TypeInv
<1>4. /\ pc' \in [Migrators -> {"idle", "running", "refused", "done", "aborted"}]
      /\ goal' \in [Migrators -> {"none", "upgrade", "downgrade"}]
  BY DEF Begin, TypeInv
<1>5. \A q \in Migrators : pc'[q] = "running" =>
          goal'[q] # "none" /\ step'[q] \in 1 .. Len(Script(q)') + 1
  <2> SUFFICES ASSUME NEW q \in Migrators, pc'[q] = "running"
               PROVE  goal'[q] # "none" /\ step'[q] \in 1 .. Len(Script(q)') + 1
    OBVIOUS
  <2>1. CASE q = m
    <3>1. Len(Script(q)') \in {8, 10}
      BY UpgradeScript, DowngradeScript DEF Script
    <3> QED BY <2>1, <3>1, <1>2, <1>3
  <2>2. CASE q # m
    <3>1. Script(q)' = Script(q)
      BY <2>2, <1>1 DEF Script
    <3> QED BY <2>2, <3>1, <1>1 DEF TypeInv
  <2> QED BY <2>1, <2>2
<1>6. TypeInv'
  <2>1. \A q \in Migrators : pc'[q] = "idle" => step'[q] = 1
    BY <1>1, <1>2 DEF TypeInv
  <2> QED BY <2>1, <1>2, <1>4, <1>5 DEF TypeInv
<1>7. VersionIsCurrent' /\ MigrationsApply'
  BY <1>1, <1>2, <1>3 DEF VersionIsCurrent, MigrationsApply
<1>8. SchemaIsWhole'
  BY <1>2 DEF SchemaIsWhole
<1> QED BY <1>6, <1>7, <1>8

LEMMA ExecuteMInv ==
    ASSUME MInv, NEW m \in Migrators, Execute(m) PROVE MInv'
<1> USE DEF MInv
<1>1. /\ schema' = schema /\ version' = version /\ late' = late /\ goal' = goal
      /\ \A q \in Migrators : Script(q)' = Script(q)
  BY DEF Execute, Script
<1>2. pc[m] = "running" /\ goal[m] \in {"upgrade", "downgrade"} /\ step[m] \in Nat \ {0}
  BY DEF Execute, TypeInv
<1>3. Len(Script(m)) = IF goal[m] = "upgrade" THEN 8 ELSE 10
  BY ScriptLength
<1>4. step[m] <= Len(Script(m))
  BY DEF Execute
<1>5. CASE Applies(Current(m), View(m))
  <2>1. step' = [step EXCEPT ![m] = @ + 1] /\ pc' = pc
    BY <1>5 DEF Execute
  <2>2. step'[m] \in 1 .. Len(Script(m)) + 1
    BY <2>1, <1>2, <1>3, <1>4 DEF TypeInv
  <2>3. TypeInv'
    BY <2>1, <2>2, <1>1, <1>2 DEF TypeInv
  <2> QED BY <2>1, <2>3, <1>1 DEF SchemaIsWhole, VersionIsCurrent, MigrationsApply
<1>6. CASE ~Applies(Current(m), View(m))
  <2>1. pc' = [pc EXCEPT ![m] = "refused"] /\ step' = step
    BY <1>6 DEF Execute
  <2>2. m \in late
    <3> SUFFICES ASSUME m \notin late PROVE FALSE
      OBVIOUS
    <3>1. CASE goal[m] = "upgrade"
      <4>1. schema = {}
        BY <3>1, <1>2 DEF VersionIsCurrent, SchemaIsWhole
      <4> QED BY <3>1, <4>1, <1>2, <1>3, <1>4, <1>6, UpgradeApplies
    <3>2. CASE goal[m] = "downgrade"
      <4>1. schema = Objects
        BY <3>2, <1>2 DEF VersionIsCurrent, SchemaIsWhole
      <4> QED BY <3>2, <4>1, <1>2, <1>3, <1>4, <1>6, DowngradeApplies
    <3> QED BY <3>1, <3>2, <1>2
  <2>3. TypeInv'
    BY <2>1, <1>1 DEF TypeInv
  <2> QED BY <2>1, <2>2, <2>3, <1>1 DEF SchemaIsWhole, VersionIsCurrent, MigrationsApply, TypeInv
<1> QED BY <1>5, <1>6

LEMMA CommitMInv ==
    ASSUME MInv, NEW m \in Migrators, Commit(m) PROVE MInv'
<1> USE DEF MInv
<1>1. /\ goal' = goal /\ step' = step
      /\ \A q \in Migrators : Script(q)' = Script(q)
  BY DEF Commit, Script
<1>2. pc[m] = "running" /\ goal[m] \in {"upgrade", "downgrade"}
  BY DEF Commit, TypeInv
<1>3. schema' = IF goal[m] = "upgrade" THEN Objects ELSE {}
  BY ViewAtTheEnd DEF Commit
<1>4. version' = IF goal[m] = "upgrade" THEN "head" ELSE "base"
  BY DEF Commit
<1>5. PICK how \in {"done", "aborted"} : pc' = [pc EXCEPT ![m] = how]
  BY DEF Commit, End
<1>6. TypeInv'
  BY <1>1, <1>4, <1>5 DEF TypeInv
<1>7. \A q \in Migrators : pc'[q] = "running" => q \in late'
  BY <1>5 DEF Commit, TypeInv
<1>8. late \subseteq late'
  BY DEF Commit
<1> QED BY <1>3, <1>4, <1>5, <1>6, <1>7, <1>8
        DEF SchemaIsWhole, VersionIsCurrent, MigrationsApply, TypeInv

LEMMA AbortMInv ==
    ASSUME MInv, NEW m \in Migrators, Abort(m) PROVE MInv'
<1> USE DEF MInv
<1>1. /\ goal' = goal /\ step' = step /\ schema' = schema /\ version' = version /\ late' = late
      /\ \A q \in Migrators : Script(q)' = Script(q)
  BY DEF Abort, Script
<1>2. pc' = [pc EXCEPT ![m] = "aborted"]
  BY DEF Abort, End
<1> QED BY <1>1, <1>2 DEF TypeInv, SchemaIsWhole, VersionIsCurrent, MigrationsApply

LEMMA StutterMInv ==
    ASSUME MInv, UNCHANGED <<schema, version, pc, goal, step, late>> PROVE MInv'
<1>1. \A q \in Migrators : Script(q)' = Script(q)
  BY DEF Script
<1> QED BY <1>1 DEF MInv, TypeInv, SchemaIsWhole, VersionIsCurrent, MigrationsApply

-----------------------------------------------------------------------------
(* The rows. *)

RowsFit ==
    /\ Stored \subseteq Ids
    /\ \A j \in Stored : DOMAIN rows[j] = RefsOf(TableOf[j]) /\ Fits(j, rows[j])

(* How many references a table is from a website. *)
Depth(t) ==
    CASE t = "websites" -> 0
      [] t = "pages" -> 2
      [] t = "links" -> 3
      [] OTHER -> 1

LEMMA CascadesDescend ==
    ASSUME RowsFit, NEW i \in Stored, NEW j \in Stored, Pulls(i, j)
    PROVE  Depth(TableOf[i]) < Depth(TableOf[j])
<1>1. PICK r \in DOMAIN rows[j] : rows[j][r] = i /\ r.ondelete = "CASCADE"
  BY DEF Pulls
<1>2. r \in References /\ r.from = TableOf[j]
  BY <1>1 DEF RowsFit, RefsOf
<1>3. TableOf[i] = r.to
  <2>1. ~r.nullable
    BY <1>1, <1>2, ReferenceList
  <2> QED BY <1>1, <2>1 DEF RowsFit, Fits
<1>4. \/ r.to = "websites" /\ r.from # "websites"
      \/ r.to = "crawl_jobs" /\ r.from = "pages"
      \/ r.to = "pages" /\ r.from = "links"
  BY <1>1, <1>2, ReferenceList
<1>5. Depth(r.to) < Depth(r.from)
  BY <1>4 DEF Depth
<1> QED BY <1>2, <1>3, <1>5

LEMMA DepthBounds ==
    ASSUME NEW t PROVE Depth(t) \in 0 .. 3
BY DEF Depth

(* Three rounds of cascading are enough. *)
LEMMA DoomedIsClosed ==
    ASSUME RowsFit, NEW i \in Stored, NEW k \in Doomed(i), NEW j \in Stored, Pulls(k, j)
    PROVE  j \in Doomed(i)
<1> DEFINE S0 == {i}
           S1 == Pulled(S0)
           S2 == Pulled(S1)
           S3 == Pulled(S2)
           D(x) == Depth(TableOf[x])
<1>1. S0 \subseteq S1 /\ S1 \subseteq S2 /\ S2 \subseteq S3 /\ S3 \subseteq Stored /\ Doomed(i) = S3
  BY DEF Pulled, Doomed
<1>2. \A x : D(x) \in 0 .. 3
  BY DepthBounds
<1>3. \A x, y \in Stored : Pulls(x, y) => D(x) < D(y)
  BY CascadesDescend
<1> HIDE DEF D
<1>4. \A y \in S1 \ S0 : D(y) >= 1
  BY <1>1, <1>2, <1>3 DEF Pulled
<1>5. \A y \in S2 \ S1 : D(y) >= 2
  <2> SUFFICES ASSUME NEW y \in Stored, y \in S2, y \notin S1 PROVE D(y) >= 2
    BY <1>1
  <2>1. PICK x \in S1 : Pulls(x, y)
    BY DEF Pulled
  <2>2. x \notin S0
    BY <2>1 DEF Pulled
  <2> QED BY <2>1, <2>2, <1>1, <1>2, <1>3, <1>4
<1>6. \A y \in S3 \ S2 : D(y) >= 3
  <2> SUFFICES ASSUME NEW y \in Stored, y \in S3, y \notin S2 PROVE D(y) >= 3
    BY <1>1
  <2>1. PICK x \in S2 : Pulls(x, y)
    BY DEF Pulled
  <2>2. x \notin S1
    BY <2>1 DEF Pulled
  <2> QED BY <2>1, <2>2, <1>1, <1>2, <1>3, <1>5
<1>7. CASE k \in S2
  BY <1>7, <1>1 DEF Pulled
<1>8. CASE k \notin S2
  <2>1. D(k) >= 3 /\ D(k) < D(j)
    BY <1>8, <1>1, <1>3, <1>6
  <2> QED BY <2>1, <1>2
<1> QED BY <1>7, <1>8

(* A row that stays when i is deleted loses no reference it must have. *)
LEMMA DeleteRows ==
    ASSUME RowsFit, NEW i, Delete(i) PROVE RowsFit'
<1> DEFINE gone == Doomed(i)
<1>1. i \in Stored
  BY DEF Delete
<1>2. rows' = [j \in Stored \ gone |->
                  [r \in DOMAIN rows[j] |-> IF rows[j][r] \in gone THEN Null ELSE rows[j][r]]]
  BY DEF Delete
<1>3. Stored' = Stored \ gone
  BY <1>2 DEF Stored
<1> SUFFICES ASSUME NEW j \in Stored', NEW r \in RefsOf(TableOf[j])
             PROVE  \/ rows'[j][r] = Null /\ r.nullable
                    \/ rows'[j][r] \in Stored' /\ TableOf[rows'[j][r]] = r.to
  <2>1. Stored' \subseteq Ids
    BY <1>3 DEF RowsFit
  <2>2. \A j \in Stored' : DOMAIN rows'[j] = RefsOf(TableOf[j])
    BY <1>2, <1>3 DEF RowsFit
  <2> QED BY <2>1, <2>2 DEF RowsFit, Fits
<1>4. j \in Stored /\ j \notin gone /\ DOMAIN rows[j] = RefsOf(TableOf[j])
  BY <1>3 DEF RowsFit
<1>5. rows'[j][r] = IF rows[j][r] \in gone THEN Null ELSE rows[j][r]
  BY <1>2, <1>3, <1>4
<1>6. \/ rows[j][r] = Null /\ r.nullable
      \/ rows[j][r] \in Stored /\ TableOf[rows[j][r]] = r.to
  BY <1>4 DEF RowsFit, Fits
<1>7. CASE rows[j][r] \in gone
  <2>1. r.ondelete = "SET NULL"
    <3> SUFFICES ASSUME r.ondelete # "SET NULL" PROVE FALSE
      OBVIOUS
    <3>1. r.ondelete = "CASCADE"
      BY ReferenceList DEF RefsOf
    <3>2. Pulls(rows[j][r], j)
      BY <1>4, <3>1 DEF Pulls
    <3> QED BY <3>2, <1>1, <1>4, <1>7, DoomedIsClosed
  <2>2. r.nullable
    BY <2>1, ReferenceList DEF RefsOf
  <2> QED BY <2>2, <1>5, <1>7
<1>8. CASE rows[j][r] \notin gone
  BY <1>8, <1>3, <1>5, <1>6
<1> QED BY <1>7, <1>8

LEMMA InsertRows ==
    ASSUME RowsFit, NEW i, Insert(i) PROVE RowsFit'
<1>1. i \in Ids \ Stored
  BY DEF Insert
<1>2. PICK row \in [RefsOf(TableOf[i]) -> Stored \cup {Null}] :
         /\ Fits(i, row)
         /\ rows' = [j \in Stored \cup {i} |-> IF j = i THEN row ELSE rows[j]]
  BY DEF Insert
<1>3. Stored' = Stored \cup {i}
  BY <1>2 DEF Stored
<1>4. Stored' \subseteq Ids
  BY <1>1, <1>3 DEF RowsFit
<1>5. \A j \in Stored' : DOMAIN rows'[j] = RefsOf(TableOf[j])
  BY <1>2, <1>3 DEF RowsFit
<1>6. ASSUME NEW j \in Stored', NEW r \in RefsOf(TableOf[j])
      PROVE  \/ rows'[j][r] = Null /\ r.nullable
             \/ rows'[j][r] \in Stored' /\ TableOf[rows'[j][r]] = r.to
  <2>1. CASE j = i
    <3>1. rows'[j] = row /\ DOMAIN row = RefsOf(TableOf[i])
      BY <1>2, <1>3, <2>1
    <3> QED BY <3>1, <2>1, <1>2, <1>3, <1>6 DEF Fits
  <2>2. CASE j # i
    <3>1. j \in Stored /\ rows'[j] = rows[j] /\ DOMAIN rows[j] = RefsOf(TableOf[j])
      BY <1>2, <1>3, <1>6, <2>2 DEF RowsFit
    <3>2. \/ rows[j][r] = Null /\ r.nullable
          \/ rows[j][r] \in Stored /\ TableOf[rows[j][r]] = r.to
      BY <3>1, <1>6 DEF RowsFit, Fits
    <3> QED BY <3>1, <3>2, <1>3
  <2> QED BY <2>1, <2>2
<1> QED BY <1>4, <1>5, <1>6 DEF RowsFit, Fits

(* All rows stay with the whole schema, and none with nothing of it. *)
LEMMA CommitRows ==
    ASSUME MInv, RowsFit, NEW m \in Migrators, Commit(m)
    PROVE  /\ RowsFit'
           /\ \/ Stored' = {}
              \/ Stored' = Stored
<1>1. rows' = [i \in {j \in Stored : TableOf[j] \in schema'} |-> rows[i]]
  BY DEF Commit
<1>2. Stored' = {j \in Stored : TableOf[j] \in schema'}
  BY <1>1 DEF Stored
<1>3. schema' = Objects \/ schema' = {}
  BY CommitMInv DEF MInv, SchemaIsWhole
<1>4. CASE schema' = {}
  <2>1. Stored' = {}
    BY <1>2, <1>4
  <2> QED BY <2>1 DEF RowsFit
<1>5. CASE schema' = Objects
  <2>1. \A j \in Stored : TableOf[j] \in Objects
    BY IdAssumption DEF RowsFit, Objects
  <2>2. Stored' = Stored
    BY <1>2, <1>5, <2>1
  <2>3. \A j \in Stored : rows'[j] = rows[j]
    BY <1>1, <1>2, <2>2
  <2>4. ASSUME NEW j \in Stored, NEW r \in DOMAIN rows[j]
        PROVE  \/ rows'[j][r] = Null /\ r.nullable
               \/ rows'[j][r] \in Stored' /\ TableOf[rows'[j][r]] = r.to
    BY <2>2, <2>3, <2>4 DEF RowsFit, Fits
  <2>5. /\ Stored' \subseteq Ids
        /\ \A j \in Stored' : rows'[j] = rows[j] /\ DOMAIN rows'[j] = RefsOf(TableOf[j])
    BY <2>2, <2>3 DEF RowsFit
  <2> QED BY <2>2, <2>4, <2>5 DEF RowsFit, Fits
<1> QED BY <1>3, <1>4, <1>5

LEMMA StutterRows ==
    ASSUME RowsFit, rows' = rows PROVE RowsFit'
BY DEF RowsFit, Fits, Stored

-----------------------------------------------------------------------------
IInv == MInv /\ RowsFit

LEMMA InitIInv == Init => IInv
<1> SUFFICES ASSUME Init PROVE IInv
  OBVIOUS
<1>1. TypeInv
  BY DEF Init, TypeInv
<1>2. SchemaIsWhole /\ VersionIsCurrent /\ MigrationsApply
  BY DEF Init, SchemaIsWhole, VersionIsCurrent, MigrationsApply
<1>3. RowsFit
  BY DEF Init, RowsFit, Stored
<1> QED BY <1>1, <1>2, <1>3 DEF IInv, MInv

LEMMA NextIInv == IInv /\ [Next]_vars => IInv'
<1> SUFFICES ASSUME IInv, [Next]_vars PROVE IInv'
  OBVIOUS
<1>0. MInv /\ RowsFit
  BY DEF IInv
<1>1. ASSUME NEW m \in Migrators, Begin(m) PROVE IInv'
  <2>1. rows' = rows
    BY <1>1 DEF Begin
  <2> QED BY <1>0, <1>1, <2>1, BeginMInv, StutterRows DEF IInv
<1>2. ASSUME NEW m \in Migrators, Execute(m) PROVE IInv'
  <2>1. rows' = rows
    BY <1>2 DEF Execute
  <2> QED BY <1>0, <1>2, <2>1, ExecuteMInv, StutterRows DEF IInv
<1>3. ASSUME NEW m \in Migrators, Commit(m) PROVE IInv'
  BY <1>0, <1>3, CommitMInv, CommitRows DEF IInv
<1>4. ASSUME NEW m \in Migrators, Abort(m) PROVE IInv'
  <2>1. rows' = rows
    BY <1>4 DEF Abort
  <2> QED BY <1>0, <1>4, <2>1, AbortMInv, StutterRows DEF IInv
<1>5. ASSUME NEW i \in Ids, Insert(i) PROVE IInv'
  <2>1. UNCHANGED <<schema, version, pc, goal, step, late>>
    BY <1>5 DEF Insert
  <2> QED BY <1>0, <1>5, <2>1, InsertRows, StutterMInv DEF IInv
<1>6. ASSUME NEW i \in Ids, Delete(i) PROVE IInv'
  <2>1. UNCHANGED <<schema, version, pc, goal, step, late>>
    BY <1>6 DEF Delete
  <2> QED BY <1>0, <1>6, <2>1, DeleteRows, StutterMInv DEF IInv
<1>7. CASE UNCHANGED vars
  BY <1>0, <1>7, StutterMInv, StutterRows DEF IInv, vars
<1> QED BY <1>1, <1>2, <1>3, <1>4, <1>5, <1>6, <1>7 DEF Next, Done

(* The invariant: migrations that know the version they work on, rows that *)
(* fit their foreign keys.                                                 *)
THEOREM Invariance == Spec => []IInv
<1>1. IInv /\ [Next]_vars => IInv'
  BY NextIInv
<1> QED BY <1>1, InitIInv, PTL DEF Spec

(* The committed schema is whole or empty, whatever runs concurrently and  *)
(* wherever it is killed.                                                  *)
THEOREM SchemaStaysWhole == Spec => []SchemaIsWhole
<1>1. IInv => SchemaIsWhole
  BY DEF IInv, MInv
<1> QED BY <1>1, Invariance, PTL

(* upgrade and downgrade undo each other completely: only a run that has   *)
(* been overtaken by another's commit is refused.                          *)
THEOREM MigrationsAlwaysApply == Spec => []MigrationsApply
<1>1. IInv => MigrationsApply
  BY DEF IInv, MInv
<1> QED BY <1>1, Invariance, PTL

(* Every row belongs to a stored one, and refers to no row that is gone.   *)
THEOREM NothingIsOrphaned == Spec => []NoOrphans
<1>1. IInv => NoOrphans
  <2> SUFFICES ASSUME RowsFit, NEW j \in Stored
               PROVE  /\ TableOf[j] # "websites" => \E r \in DOMAIN rows[j] : rows[j][r] # Null
                      /\ \A r \in DOMAIN rows[j] : rows[j][r] # Null =>
                            rows[j][r] \in Stored /\ TableOf[rows[j][r]] = r.to
    BY DEF IInv, NoOrphans
  <2>1. DOMAIN rows[j] = RefsOf(TableOf[j]) /\ Fits(j, rows[j]) /\ TableOf[j] \in TableNames
    BY IdAssumption DEF RowsFit
  <2>2. ASSUME TableOf[j] # "websites" PROVE \E r \in DOMAIN rows[j] : rows[j][r] # Null
    <3>1. PICK r \in RefsOf(TableOf[j]) : r.nullable = FALSE
      BY <2>1, <2>2, Owner
    <3>2. rows[j][r] \in Ids
      BY <2>1, <3>1 DEF Fits, RowsFit
    <3> QED BY <2>1, <3>2, IdAssumption
  <2> QED BY <2>1, <2>2 DEF Fits
<1> QED BY <1>1, Invariance, PTL

-----------------------------------------------------------------------------
(* An e-mail that is deleted with another row is deleted with its website. *)
EmailGoes ==
    LET gone == Stored \ DOMAIN rows'
    IN  \A j \in gone :
           TableOf[j] = "emails" =>
               gone = {j} \/ \A r \in DOMAIN rows[j] : r.to = "websites" => rows[j][r] \in gone

LEMMA DeleteSparesEmails ==
    ASSUME RowsFit, NEW i, Delete(i) PROVE EmailGoes
<1>1. i \in Stored /\ DOMAIN rows' = Stored \ Doomed(i)
  BY DEF Delete
<1>2. i \in Doomed(i) /\ Doomed(i) \subseteq Stored
  BY <1>1 DEF Doomed, Pulled
<1>3. Stored \ DOMAIN rows' = Doomed(i)
  BY <1>1, <1>2
<1> SUFFICES ASSUME NEW j \in Doomed(i), TableOf[j] = "emails", Doomed(i) # {j},
                    NEW r \in DOMAIN rows[j], r.to = "websites"
             PROVE  rows[j][r] \in Doomed(i)
  BY <1>3 DEF EmailGoes
<1>4. \A k \in Stored : TableOf[k] = "emails" => \A l \in Stored : ~Pulls(k, l)
  <2> SUFFICES ASSUME NEW k \in Stored, TableOf[k] = "emails", NEW l \in Stored, Pulls(k, l)
               PROVE  FALSE
    OBVIOUS
  <2>1. PICK q \in DOMAIN rows[l] : rows[l][q] = k /\ q.ondelete = "CASCADE"
    BY DEF Pulls
  <2>2. q \in References /\ ~q.nullable
    BY <2>1, ReferenceList DEF RowsFit, RefsOf
  <2>3. q.to = "emails"
    BY <2>1, <2>2 DEF RowsFit, Fits
  <2> QED BY <2>2, <2>3, ReferenceList
<1>5. j # i
  <2> SUFFICES ASSUME j = i PROVE FALSE
    OBVIOUS
  <2>1. Pulled({i}) = {i}
    BY <1>1, <1>4 DEF Pulled
  <2> QED BY <2>1 DEF Doomed
<1>6. PICK k \in Doomed(i) : Pulls(k, j)
  BY <1>5 DEF Doomed, Pulled
<1>7. PICK q \in DOMAIN rows[j] : rows[j][q] = k /\ q.ondelete = "CASCADE"
  BY <1>6 DEF Pulls
<1>8. r \in References /\ q \in References /\ r.from = "emails" /\ q.from = "emails"
  BY <1>2, <1>7 DEF RowsFit, RefsOf
<1>9. q.to = "websites"
  BY <1>7, <1>8, ReferenceList
<1>10. q = r
  <2>1. q = Ref(q.from, "website_id", "websites", FALSE, "CASCADE")
    BY <1>8, <1>9, ReferenceList
  <2>2. r = Ref(r.from, "website_id", "websites", FALSE, "CASCADE")
    BY <1>8, ReferenceList
  <2> QED BY <2>1, <2>2, <1>8
<1> QED BY <1>7, <1>10

LEMMA CommitSparesEmails ==
    ASSUME MInv, RowsFit, NEW m \in Migrators, Commit(m) PROVE EmailGoes
<1>1. CASE Stored' = Stored
  BY <1>1 DEF EmailGoes, Stored
<1>2. CASE Stored' = {}
  <2> SUFFICES ASSUME NEW j \in Stored, TableOf[j] = "emails",
                      NEW r \in DOMAIN rows[j], r.to = "websites"
               PROVE  rows[j][r] \in Stored
    BY <1>2 DEF EmailGoes, Stored
  <2>1. r \in References
    BY DEF RowsFit, RefsOf
  <2>2. ~r.nullable
    BY <2>1, ReferenceList
  <2> QED BY <2>2 DEF RowsFit, Fits
<1> QED BY <1>1, <1>2, CommitRows

(* Deleting a job or a page leaves the e-mail addresses of its website.    *)
THEOREM EmailsStay == Spec => EmailsOutliveJobs
<1>1. IInv /\ [Next]_vars => [EmailGoes]_vars
  <2> SUFFICES ASSUME IInv, Next PROVE EmailGoes
    OBVIOUS
  <2>0. MInv /\ RowsFit
    BY DEF IInv
  <2>1. CASE rows' = rows
    BY <2>1 DEF EmailGoes, Stored
  <2>2. ASSUME NEW i \in Ids, Insert(i) PROVE EmailGoes
    <3>1. Stored \subseteq DOMAIN rows'
      BY <2>2 DEF Insert
    <3> QED BY <3>1 DEF EmailGoes
  <2>3. ASSUME NEW i \in Ids, Delete(i) PROVE EmailGoes
    BY <2>0, <2>3, DeleteSparesEmails
  <2>4. ASSUME NEW m \in Migrators, Commit(m) PROVE EmailGoes
    BY <2>0, <2>4, CommitSparesEmails
  <2>5. ASSUME NEW m \in Migrators, Begin(m) \/ Execute(m) \/ Abort(m) PROVE rows' = rows
    BY <2>5 DEF Begin, Execute, Abort
  <2>6. ASSUME Done PROVE rows' = rows
    BY <2>6 DEF Done, vars
  <2> QED BY <2>1, <2>2, <2>3, <2>4, <2>5, <2>6 DEF Next
<1> QED BY <1>1, Invariance, PTL DEF Spec, EmailsOutliveJobs, EmailGoes
=============================================================================
