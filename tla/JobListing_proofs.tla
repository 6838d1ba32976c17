-------------------------- MODULE JobListing_proofs --------------------------
(***************************************************************************)
(* Paging through the crawl jobs, for any number of jobs and any sizes of  *)
(* pages.                                                                  *)
(*                                                                         *)
(* In a listing without a status, the matching jobs are only ever added    *)
(* to.  A job that has no equal in time stands in every listing behind     *)
(* exactly the jobs that are newer, whose number never falls: what a page  *)
(* has not shown yet is still ahead of the client.                         *)
(***************************************************************************)
EXTENDS JobListing, FiniteSetTheorems, SequenceTheorems, TLAPS

Jobs == [site : Ids \cup {NoSite}, status : {"absent", "queued", "failed"},
         error : BOOLEAN, finished : BOOLEAN]

TypeInv ==
    /\ website \in [Domains -> SUBSET Ids]
    /\ row \in [Ids -> Jobs]
    /\ stamp \in [Ids -> Nat]
    /\ pc \in {"idle", "reading", "answered", "done"}
    /\ query.limit \in Nat \ {0}
    /\ offset \in Nat /\ turn \in 0 .. 2 /\ total \in Nat
    /\ items \in Seq(Ids) /\ seen \in Seq(Ids)
    /\ pc = "idle" => turn = 0 /\ offset = 0
    /\ pc = "reading" => turn \in {0, 1}
    /\ pc \in {"answered", "done"} => turn = 2

StoredAreStamped == \A j \in StoredJobs : stamp[j] > 0

Base == TypeInv /\ StoredAreStamped

-----------------------------------------------------------------------------
(* The store only adds to a listing without a status. *)

LEMMA MatchingIsFinite == IsFiniteSet(Matching) /\ Cardinality(Matching) \in Nat
<1>1. Matching \subseteq Ids
  BY DEF Matching, StoredJobs
<1> QED BY <1>1, ListingAssumption, FS_Subset, FS_CardinalityType

LEMMA CommitGrows ==
    ASSUME Base, NEW j \in Ids, Commit(j)
    PROVE  /\ Base'
           /\ StoredJobs \subseteq StoredJobs'
           /\ \A k \in StoredJobs : row'[k].site = row[k].site
<1> USE DEF Base
<1>1. UNCHANGED <<stamp, walk>>
  BY DEF Commit
<1>2. /\ website' \in [Domains -> SUBSET Ids]
      /\ row' \in [Ids -> Jobs]
      /\ \A k \in Ids \ {j} : row'[k] = row[k]
      /\ row'[j].status # "absent"
      /\ row[j].status # "absent" => row'[j].site = row[j].site
      /\ row[j].status = "absent" => stamp[j] > 0
  <2>1. CASE stamp[j] > 0 /\ \E d \in Domains : Store!Submit(j, d)
    <3>1. PICK d \in Domains : Store!Submit(j, d)
      BY <2>1
    <3>2. website' \in [Domains -> SUBSET Ids]
      <4>1. website' = website \/ website' = [website EXCEPT ![d] = {j}]
        BY <3>1 DEF Store!Submit
      <4> QED BY <4>1 DEF TypeInv
    <3>3. PICK s \in Ids : row' = [row EXCEPT ![j] = Store!Queued(s)]
      BY <3>1, <3>2 DEF Store!Submit
    <3>4. Store!Queued(s) \in Jobs /\ Store!Queued(s).status = "queued"
      BY DEF Store!Queued, Jobs
    <3>5. row[j].status = "absent"
      BY <3>1 DEF Store!Submit, Store!Known
    <3> QED BY <2>1, <3>2, <3>3, <3>4, <3>5 DEF TypeInv
  <2>2. CASE Store!Fail(j)
    <3>1. /\ website' = website
          /\ row' = [row EXCEPT ![j] = Store!Failed(row[j].site)]
          /\ row[j].status # "absent"
      BY <2>2 DEF Store!Fail, Store!Known
    <3>2. row[j].site \in Ids \cup {NoSite}
      BY DEF TypeInv, Jobs
    <3>3. /\ Store!Failed(row[j].site) \in Jobs
          /\ Store!Failed(row[j].site).status = "failed"
          /\ Store!Failed(row[j].site).site = row[j].site
      BY <3>2 DEF Store!Failed, Jobs
    <3> QED BY <3>1, <3>3 DEF TypeInv
  <2>3. CASE Store!Requeue(j)
    <3>1. /\ website' = website
          /\ row' = [row EXCEPT ![j] = Store!Queued(row[j].site)]
          /\ row[j].status # "absent"
      BY <2>3 DEF Store!Requeue, Store!Known
    <3>2. row[j].site \in Ids \cup {NoSite}
      BY DEF TypeInv, Jobs
    <3>3. /\ Store!Queued(row[j].site) \in Jobs
          /\ Store!Queued(row[j].site).status = "queued"
          /\ Store!Queued(row[j].site).site = row[j].site
      BY <3>2 DEF Store!Queued, Jobs
    <3> QED BY <3>1, <3>3 DEF TypeInv
  <2> QED BY <2>1, <2>2, <2>3 DEF Commit
<1>3. StoredJobs' = StoredJobs \cup {j}
  BY <1>2 DEF StoredJobs, Store!Known
<1>4. \A k \in StoredJobs : row'[k].site = row[k].site
  BY <1>2 DEF StoredJobs, Store!Known
<1>5. TypeInv'
  BY <1>1, <1>2 DEF TypeInv, walk
<1>6. StoredAreStamped'
  BY <1>1, <1>2, <1>3 DEF StoredAreStamped, StoredJobs, Store!Known
<1> QED BY <1>3, <1>4, <1>5, <1>6

LEMMA BeginStamps ==
    ASSUME Base, NEW j \in Ids, Begin(j)
    PROVE  /\ Base'
           /\ StoredJobs' = StoredJobs /\ UNCHANGED <<website, row, walk, quiet>>
           /\ \A k \in StoredJobs : stamp'[k] = stamp[k]
<1> USE DEF Base
<1>1. /\ UNCHANGED <<website, row, walk, quiet>>
      /\ stamp[j] = 0
  BY DEF Begin
<1>2. PICK t \in Nat : stamp' = [stamp EXCEPT ![j] = t]
  <2>1. Clock \subseteq Nat
    BY DEF Clock, TypeInv
  <2>2. PICK now \in Clock : \E t \in {now, now + 1} \ {0} : stamp' = [stamp EXCEPT ![j] = t]
    BY DEF Begin
  <2>3. PICK t \in {now, now + 1} \ {0} : stamp' = [stamp EXCEPT ![j] = t]
    BY <2>2
  <2>4. t \in Nat
    BY <2>1, <2>3
  <2> QED BY <2>3, <2>4
<1>3. StoredJobs' = StoredJobs
  BY <1>1 DEF StoredJobs, Store!Known
<1>4. j \notin StoredJobs
  BY <1>1 DEF StoredAreStamped
<1>5. \A k \in StoredJobs : stamp'[k] = stamp[k]
  BY <1>2, <1>4 DEF TypeInv, StoredJobs
<1>6. TypeInv'
  BY <1>1, <1>2 DEF TypeInv, walk
<1>7. StoredAreStamped'
  BY <1>3, <1>5 DEF StoredAreStamped
<1> QED BY <1>1, <1>3, <1>5, <1>6, <1>7

-----------------------------------------------------------------------------
(* The order of a listing. *)

LEMMA OrdersAreComplete ==
    ASSUME NEW M, IsFiniteSet(M), NEW s \in Orders(M)
    PROVE  /\ s \in [1 .. Cardinality(M) -> M]
           /\ \A i, k \in 1 .. Cardinality(M) : i < k => s[i] # s[k] /\ stamp[s[i]] >= stamp[s[k]]
           /\ \A x \in M : \E i \in 1 .. Cardinality(M) : s[i] = x
<1> DEFINE n == Cardinality(M)
<1>1. n \in Nat
  BY FS_CardinalityType
<1>2. /\ s \in [1 .. n -> M]
      /\ \A i, k \in 1 .. n : i < k => s[i] # s[k] /\ stamp[s[i]] >= stamp[s[k]]
  BY DEF Orders
<1>3. \A i, k \in 1 .. n : s[i] = s[k] => i = k
  BY <1>1, <1>2
<1>4. s \in Injection(1 .. n, M)
  BY <1>2, <1>3 DEF Injection, IsInjective
<1>5. Cardinality(1 .. n) = n
  BY <1>1, FS_Interval
<1>6. s \in Surjection(1 .. n, M)
  BY <1>4, <1>5, FS_Injection
<1> QED BY <1>2, <1>6 DEF Surjection

(* A job without an equal stands behind the newer ones, and only those.    *)
LEMMA RankIsPosition ==
    ASSUME NEW M, IsFiniteSet(M), M \subseteq Ids, stamp \in [Ids -> Nat], NEW s \in Orders(M),
           NEW j \in M, \A k \in M \ {j} : stamp[k] # stamp[j]
    PROVE  \E p \in 1 .. Cardinality(M) :
               s[p] = j /\ Cardinality({k \in M : stamp[k] > stamp[j]}) = p - 1
<1> DEFINE n == Cardinality(M)
           newer == {k \in M : stamp[k] > stamp[j]}
<1>1. PICK p \in 1 .. n : s[p] = j
  BY OrdersAreComplete
<1>2. n \in Nat /\ p \in Nat /\ p <= n
  BY <1>1, FS_CardinalityType
<1>3. ASSUME NEW i \in 1 .. p - 1 PROVE s[i] \in newer
  <2>1. s[i] \in M /\ s[i] # j /\ stamp[s[i]] >= stamp[j] /\ s[i] \in Ids /\ j \in Ids
    BY <1>1, <1>2, OrdersAreComplete
  <2>2. stamp[s[i]] # stamp[j]
    BY <2>1
  <2> QED BY <2>1, <2>2
<1>4. ASSUME NEW k \in newer PROVE \E i \in 1 .. p - 1 : s[i] = k
  <2>1. PICK i \in 1 .. n : s[i] = k
    BY OrdersAreComplete
  <2>2. ~(p < i)
    <3> SUFFICES ASSUME p < i PROVE FALSE
      OBVIOUS
    <3>1. stamp[j] >= stamp[k]
      BY <1>1, <2>1, OrdersAreComplete
    <3> QED BY <3>1
  <2>3. i # p
    BY <1>1, <2>1
  <2> QED BY <2>1, <2>2, <2>3, <1>2
<1> DEFINE f == [i \in 1 .. p - 1 |-> s[i]]
<1>5. f \in [1 .. p - 1 -> newer]
  BY <1>3
<1>6. \A i, k \in 1 .. p - 1 : f[i] = f[k] => i = k
  <2> SUFFICES ASSUME NEW i \in 1 .. p - 1, NEW k \in 1 .. p - 1, s[i] = s[k], i < k PROVE FALSE
    BY <1>2
  <2> QED BY <1>2, OrdersAreComplete
<1>7. f \in Bijection(1 .. p - 1, newer)
  <2>1. f \in Injection(1 .. p - 1, newer)
    BY <1>5, <1>6 DEF Injection, IsInjective
  <2>2. f \in Surjection(1 .. p - 1, newer)
    BY <1>4, <1>5 DEF Surjection
  <2> QED BY <2>1, <2>2 DEF Bijection
<1>8. IsFiniteSet(1 .. p - 1) /\ Cardinality(1 .. p - 1) = p - 1
  <2>1. p >= 1 /\ 1 \in Int /\ p - 1 \in Int
    BY <1>2
  <2>2. /\ IsFiniteSet(1 .. p - 1)
        /\ Cardinality(1 .. p - 1) = IF 1 > p - 1 THEN 0 ELSE p - 1 - 1 + 1
    BY <2>1, FS_Interval
  <2> QED BY <2>1, <2>2, <1>2
<1>9. Cardinality(newer) = Cardinality(1 .. p - 1)
  BY <1>7, <1>8, FS_Bijection DEF ExistsBijection
<1> QED BY <1>1, <1>8, <1>9

LEMMA PageIsWindow ==
    ASSUME NEW n \in Nat, NEW s \in [1 .. n -> Ids], offset \in Nat,
           query.limit \in Nat
    PROVE  LET last == IF offset + query.limit < n THEN offset + query.limit ELSE n
           IN  /\ Page(s) \in Seq(Ids)
               /\ offset <= n => Len(Page(s)) = last - offset
               /\ \A i \in 1 .. last - offset : Page(s)[i] = s[offset + i]
<1> DEFINE last == IF offset + query.limit < n THEN offset + query.limit ELSE n
<1>1. Seq(Ids) = UNION {[1 .. m -> Ids] : m \in Nat}
  OBVIOUS
<1>2. s \in Seq(Ids)
  BY <1>1
<1>3. Len(s) \in Nat /\ 1 .. Len(s) = 1 .. n
  BY <1>2, LenProperties
<1>4. Len(s) = n
  BY <1>3
<1>5. Page(s) = SubSeq(s, offset + 1, last)
  BY <1>4 DEF Page, Least
<1>6. last \in Int /\ offset + 1 \in Int /\ last <= n /\ (offset <= n => offset <= last)
  OBVIOUS
<1> HIDE DEF last
<1>7. \A i \in offset + 1 .. last : s[i] \in Ids
  BY <1>6
<1>8. /\ Page(s) \in Seq(Ids)
      /\ Len(Page(s)) = IF offset + 1 <= last THEN last - (offset + 1) + 1 ELSE 0
      /\ \A i \in 1 .. last - (offset + 1) + 1 : Page(s)[i] = s[offset + 1 + i - 1]
  BY <1>5, <1>6, <1>7, SubSeqProperties
<1>9. offset <= n => Len(Page(s)) = last - offset
  BY <1>6, <1>8
<1>10. \A i \in 1 .. last - offset : Page(s)[i] = s[offset + i]
  BY <1>6, <1>8
<1> QED BY <1>8, <1>9, <1>10 DEF last

-----------------------------------------------------------------------------
(* The walk. *)

Everything == pc # "idle" /\ query.status = Unset

(* Rows that are behind the client. *)
Passed == IF turn = 0 THEN offset ELSE offset + Len(items)

PassedExist == Everything => Passed <= Cardinality(Matching)

Newer(j) == {k \in Matching : stamp[k] > stamp[j]}

(* What has not been shown is not behind the client. *)
NothingIsMissed ==
    Everything =>
        /\ initial \subseteq Matching
        /\ \A j \in initial : Untied(j) => Shown(j) \/ Cardinality(Newer(j)) >= Passed
        /\ turn > 0 /\ Len(items) < query.limit => \A j \in initial : Untied(j) => Shown(j)
        /\ pc = "done" => Len(items) < query.limit

IInv == Base /\ PassedExist /\ TotalCoversItems /\ NothingIsMissed

LEMMA InitIInv == Init => IInv
<1> SUFFICES ASSUME Init PROVE IInv
  OBVIOUS
<1>1. Store!None \in Jobs /\ Store!None.status = "absent"
  BY DEF Store!None, Jobs
<1>2. StoredJobs = {}
  BY <1>1 DEF Init, StoredJobs, Store!Known
<1>3. TypeInv
  BY <1>1 DEF Init, TypeInv
<1>4. StoredAreStamped
  BY <1>2 DEF StoredAreStamped
<1> QED BY <1>3, <1>4 DEF Init, IInv, Base, Everything, PassedExist, TotalCoversItems, NothingIsMissed

LEMMA NewerIsFinite ==
    ASSUME NEW j PROVE IsFiniteSet(Newer(j)) /\ Cardinality(Newer(j)) \in Nat
<1>1. Newer(j) \in SUBSET Matching
  BY DEF Newer
<1> QED BY <1>1, MatchingIsFinite, FS_Subset, FS_CardinalityType

LEMMA BeginIInv ==
    ASSUME IInv, NEW j \in Ids, Begin(j) PROVE IInv'
<1> USE DEF IInv
<1>1. /\ Base' /\ StoredJobs' = StoredJobs /\ UNCHANGED <<website, row, walk>>
      /\ \A k \in StoredJobs : stamp'[k] = stamp[k]
  BY BeginStamps
<1>2. Matching' = Matching /\ Matching \subseteq StoredJobs
  BY <1>1 DEF Matching, walk
<1>3. PassedExist' /\ TotalCoversItems'
  BY <1>1, <1>2 DEF PassedExist, TotalCoversItems, Everything, Passed, walk
<1>4. \A k \in Matching : Newer(k)' = Newer(k) /\ (Untied(k)' <=> Untied(k)) /\ (Shown(k)' <=> Shown(k))
  BY <1>1, <1>2 DEF Newer, Untied, Shown, walk
<1>5. NothingIsMissed'
  BY <1>1, <1>2, <1>4 DEF NothingIsMissed, Everything, Passed, walk
<1> QED BY <1>1, <1>3, <1>5

LEMMA CommitIInv ==
    ASSUME IInv, NEW j \in Ids, Commit(j) PROVE IInv'
<1> USE DEF IInv
<1>1. /\ Base' /\ StoredJobs \subseteq StoredJobs' /\ UNCHANGED <<stamp, walk>>
      /\ \A k \in StoredJobs : row'[k].site = row[k].site
  BY CommitGrows DEF Commit
<1>2. Everything' <=> Everything
  BY <1>1 DEF Everything, walk
<1>3. TotalCoversItems'
  BY <1>1 DEF TotalCoversItems, walk
<1> SUFFICES ASSUME Everything PROVE PassedExist' /\ NothingIsMissed'
  BY <1>1, <1>2, <1>3 DEF PassedExist, NothingIsMissed
<1>4. Matching \subseteq Matching'
  BY <1>1 DEF Matching, Everything, walk
<1>5. Cardinality(Matching) \in Nat /\ Cardinality(Matching)' \in Nat
      /\ Cardinality(Matching) <= Cardinality(Matching)'
  <2>1. (IsFiniteSet(Matching) /\ Cardinality(Matching) \in Nat)'
    BY MatchingIsFinite, PTL
  <2> QED BY <2>1, <1>4, MatchingIsFinite, FS_Subset
<1>6. Passed' = Passed /\ Passed \in Nat
  BY <1>1, LenProperties DEF Passed, walk, Base, TypeInv
<1>7. PassedExist'
  BY <1>2, <1>5, <1>6 DEF PassedExist
<1>8. ASSUME NEW k \in initial, Untied(k)'
      PROVE  Untied(k) /\ (Shown(k)' <=> Shown(k))
             /\ Cardinality(Newer(k)) <= Cardinality(Newer(k))'
  <2>1. Untied(k) /\ (Shown(k)' <=> Shown(k))
    BY <1>1, <1>8 DEF Untied, Shown, walk
  <2>2. Newer(k) \subseteq Newer(k)'
    BY <1>1, <1>4 DEF Newer
  <2>3. IsFiniteSet(Newer(k)')
    <3>1. Newer(k)' \in SUBSET Matching'
      BY <1>1 DEF Newer
    <3>2. IsFiniteSet(Matching)'
      BY MatchingIsFinite, PTL
    <3> QED BY <3>1, <3>2, FS_Subset
  <2> QED BY <2>1, <2>2, <2>3, FS_Subset
<1>9. NothingIsMissed'
  <2>1. initial' = initial /\ turn' = turn /\ items' = items /\ query' = query /\ pc' = pc
    BY <1>1 DEF walk
  <2>2. initial \subseteq Matching'
    BY <1>4 DEF NothingIsMissed
  <2>3. ASSUME NEW k \in initial, Untied(k)'
        PROVE  Shown(k)' \/ Cardinality(Newer(k))' >= Passed'
    <3>1. Shown(k) \/ Cardinality(Newer(k)) >= Passed
      BY <1>8, <2>3 DEF NothingIsMissed
    <3>2. Cardinality(Newer(k)) \in Nat /\ Cardinality(Newer(k))' \in Nat
      <4>1. IsFiniteSet(Newer(k)) /\ Cardinality(Newer(k)) \in Nat
        BY NewerIsFinite
      <4>2. (IsFiniteSet(Newer(k)) /\ Cardinality(Newer(k)) \in Nat)'
        <5>1. Newer(k)' \in SUBSET Matching'
          BY <1>1 DEF Newer
        <5>2. IsFiniteSet(Matching)'
          BY MatchingIsFinite, PTL
        <5> QED BY <5>1, <5>2, FS_Subset, FS_CardinalityType
      <4> QED BY <4>1, <4>2
    <3> QED BY <3>1, <3>2, <1>6, <1>8, <2>3
  <2>4. turn > 0 /\ Len(items) < query.limit => \A k \in initial : Untied(k)' => Shown(k)'
    BY <1>8 DEF NothingIsMissed
  <2> QED BY <2>1, <2>2, <2>3, <2>4 DEF NothingIsMissed
<1> QED BY <1>7, <1>9

LEMMA OpenIInv ==
    ASSUME IInv, Open PROVE IInv'
<1> USE DEF IInv
<1>1. /\ UNCHANGED <<website, row, stamp, offset, turn, items, total, seen>>
      /\ pc' = "reading" /\ initial' = Matching' /\ turn = 0 /\ offset = 0
  BY DEF Open, store, Base, TypeInv
<1>2. query'.limit \in Nat \ {0}
  <2>1. PICK q \in Queries : query' = q
    BY DEF Open
  <2>2. q.limit \in Limits
    BY <2>1 DEF Queries
  <2>3. q.limit \in 1 .. 100
    BY <2>2, ListingAssumption
  <2> QED BY <2>1, <2>3
<1>3. StoredJobs' = StoredJobs
  BY <1>1 DEF StoredJobs, Store!Known
<1>4. Base'
  BY <1>1, <1>2, <1>3 DEF Base, TypeInv, StoredAreStamped
<1>5. Passed' = 0
  BY <1>1 DEF Passed
<1>6. (IsFiniteSet(Matching) /\ Cardinality(Matching) \in Nat)'
  BY MatchingIsFinite, PTL
<1>7. PassedExist' /\ TotalCoversItems'
  BY <1>1, <1>5, <1>6 DEF PassedExist, TotalCoversItems
<1>8. ASSUME NEW j \in initial' PROVE Cardinality(Newer(j))' >= 0
  <2>1. Newer(j)' \in SUBSET Matching'
    BY DEF Newer
  <2>2. Cardinality(Newer(j)') \in Nat
    BY <2>1, <1>6, FS_Subset, FS_CardinalityType
  <2> QED BY <2>2
<1>9. NothingIsMissed'
  BY <1>1, <1>5, <1>8 DEF NothingIsMissed
<1> QED BY <1>4, <1>7, <1>9

LEMMA TurnIInv ==
    ASSUME IInv, Turn PROVE IInv'
<1> USE DEF IInv
<1>1. /\ UNCHANGED <<website, row, stamp, query, items, total, seen, initial>>
      /\ pc = "answered" /\ turn = 2
  BY DEF Turn, store, Base, TypeInv
<1>2. \/ Len(items) = query.limit /\ pc' = "reading" /\ turn' = 0 /\ offset' = offset + query.limit
      \/ Len(items) < query.limit /\ pc' = "done" /\ turn' = turn /\ offset' = offset
  BY DEF Turn
<1>3. StoredJobs' = StoredJobs /\ Matching' = Matching /\ \A j : Newer(j)' = Newer(j)
  BY <1>1 DEF StoredJobs, Matching, Newer, Store!Known
<1>4. Base'
  BY <1>1, <1>2, <1>3 DEF Base, TypeInv, StoredAreStamped
<1>5. Passed' = Passed /\ (Everything' <=> Everything)
  <2>1. Passed = offset + Len(items)
    BY <1>1 DEF Passed
  <2>2. Passed' = offset + Len(items)
    <3>1. CASE turn' = 0
      BY <3>1, <1>1, <1>2 DEF Passed
    <3>2. CASE turn' # 0
      BY <3>2, <1>1, <1>2 DEF Passed
    <3> QED BY <3>1, <3>2
  <2>3. Everything' <=> Everything
    BY <1>1, <1>2 DEF Everything
  <2> QED BY <2>1, <2>2, <2>3
<1>6. PassedExist' /\ TotalCoversItems'
  BY <1>1, <1>2, <1>3, <1>5 DEF PassedExist, TotalCoversItems
<1>7. \A j : (Untied(j)' <=> Untied(j)) /\ (Shown(j)' <=> Shown(j))
  BY <1>1, <1>3 DEF Untied, Shown
<1>8. NothingIsMissed'
  BY <1>1, <1>2, <1>3, <1>5, <1>7 DEF NothingIsMissed
<1> QED BY <1>4, <1>6, <1>8

-----------------------------------------------------------------------------
LEMMA CountIInv ==
    ASSUME IInv, pc = "reading", turn = 1, Count, turn' = 2, pc' = "answered",
           UNCHANGED <<store, query, offset, initial, quiet>>
    PROVE  IInv'
<1> USE DEF IInv
<1>1. UNCHANGED <<website, row, stamp, query, offset, initial, items, seen>>
  BY DEF store, Count
<1>2. StoredJobs' = StoredJobs /\ Matching' = Matching /\ \A j : Newer(j)' = Newer(j)
  BY <1>1 DEF StoredJobs, Matching, Newer, Store!Known
<1>3. total' = Cardinality(Matching) /\ total' \in Nat
  BY MatchingIsFinite DEF Count
<1>4. Base'
  BY <1>1, <1>2, <1>3 DEF Base, TypeInv, StoredAreStamped
<1>5. Passed' = Passed /\ (Everything' <=> Everything) /\ Passed = offset + Len(items)
  BY <1>1 DEF Passed, Everything
<1>6. PassedExist' /\ TotalCoversItems'
  BY <1>1, <1>2, <1>3, <1>5 DEF PassedExist, TotalCoversItems, Everything
<1>7. \A j : (Untied(j)' <=> Untied(j)) /\ (Shown(j)' <=> Shown(j))
  BY <1>1, <1>2 DEF Untied, Shown
<1>8. NothingIsMissed'
  BY <1>1, <1>2, <1>5, <1>7 DEF NothingIsMissed
<1> QED BY <1>4, <1>6, <1>8

(* The page shows what stands at its place, and nothing that it does not   *)
(* show stands before its end.                                             *)
LEMMA ListIInv ==
    ASSUME IInv, pc = "reading", turn = 0, List, turn' = 1, pc' = "reading",
           UNCHANGED <<store, query, offset, initial, quiet>>
    PROVE  IInv'
<1> USE DEF IInv
<1> DEFINE n == Cardinality(Matching)
           last == IF offset + query.limit < n THEN offset + query.limit ELSE n
<1>1. UNCHANGED <<website, row, stamp, query, offset, initial, total>>
  BY DEF store, List
<1>2. StoredJobs' = StoredJobs /\ Matching' = Matching /\ \A j : Newer(j)' = Newer(j)
  BY <1>1 DEF StoredJobs, Matching, Newer, Store!Known
<1>3. PICK s \in Orders(Matching) : items' = Page(s)
  BY DEF List
<1>4. n \in Nat /\ offset \in Nat /\ query.limit \in Nat \ {0} /\ seen \in Seq(Ids)
  BY MatchingIsFinite DEF Base, TypeInv
<1>5. s \in [1 .. n -> Ids]
  <2>1. Matching \subseteq Ids
    BY DEF Matching, StoredJobs
  <2> QED BY <2>1, <1>3, MatchingIsFinite, OrdersAreComplete
<1>6. /\ items' \in Seq(Ids)
      /\ offset <= n => Len(items') = last - offset
      /\ \A i \in 1 .. last - offset : items'[i] = s[offset + i]
  BY <1>3, <1>4, <1>5, PageIsWindow
<1>7. /\ seen' \in Seq(Ids)
      /\ Len(seen') = Len(seen) + Len(items')
      /\ \A i \in 1 .. Len(seen) + Len(items') :
            seen'[i] = IF i <= Len(seen) THEN seen[i] ELSE items'[i - Len(seen)]
  BY <1>4, <1>6, ConcatProperties DEF List
<1>8. Base'
  BY <1>1, <1>2, <1>4, <1>6, <1>7 DEF Base, TypeInv, StoredAreStamped
<1>9. TotalCoversItems'
  BY DEF TotalCoversItems
<1> SUFFICES ASSUME Everything PROVE PassedExist' /\ NothingIsMissed'
  BY <1>1, <1>8, <1>9 DEF PassedExist, NothingIsMissed, Everything
<1>10. offset <= n /\ Passed = offset
  BY DEF PassedExist, Passed
<1>11. Len(items') = last - offset /\ last <= n /\ last >= offset /\ last \in Nat
  BY <1>4, <1>6, <1>10
<1>12. Passed' = last
  BY <1>1, <1>4, <1>11 DEF Passed
<1> HIDE DEF last
<1>13. PassedExist'
  BY <1>2, <1>11, <1>12 DEF PassedExist
<1>14. \A j : Shown(j) => Shown(j)'
  <2> SUFFICES ASSUME NEW j, Shown(j) PROVE Shown(j)'
    OBVIOUS
  <2>1. PICK i \in DOMAIN seen : seen[i] = j
    BY DEF Shown
  <2>2. /\ Len(seen) \in Nat /\ Len(items') \in Nat /\ i \in 1 .. Len(seen)
        /\ DOMAIN seen' = 1 .. Len(seen')
    BY <1>4, <1>6, <1>7, LenProperties
  <2>3. i \in DOMAIN seen' /\ seen'[i] = j
    BY <2>1, <2>2, <1>7
  <2> QED BY <2>3 DEF Shown
<1>15. ASSUME NEW j \in initial, Untied(j), ~Shown(j)'
       PROVE  /\ Cardinality(Newer(j)) >= last
              /\ last = offset + query.limit
  <2>1. /\ j \in Matching /\ Matching \subseteq Ids /\ stamp \in [Ids -> Nat]
        /\ \A k \in Matching \ {j} : stamp[k] # stamp[j]
    BY <1>15 DEF NothingIsMissed, Untied, Matching, StoredJobs, Base, TypeInv
  <2>2. PICK p \in 1 .. n : s[p] = j /\ Cardinality({k \in Matching : stamp[k] > stamp[j]}) = p - 1
    BY <1>3, <2>1, MatchingIsFinite, RankIsPosition
  <2>3. Cardinality(Newer(j)) = p - 1
    BY <2>2 DEF Newer
  <2>4. p - 1 >= offset
    BY <1>10, <1>14, <1>15, <2>3 DEF NothingIsMissed
  <2>5. p > last
    <3> SUFFICES ASSUME p <= last PROVE FALSE
      BY <1>11, <2>2
    <3>1. p - offset \in 1 .. last - offset /\ offset + (p - offset) = p
      BY <2>2, <2>4, <1>4, <1>11
    <3>2. items'[p - offset] = j
      BY <3>1, <2>2, <1>6
    <3> DEFINE i == Len(seen) + (p - offset)
    <3>3. /\ Len(seen) \in Nat /\ i \in 1 .. Len(seen) + Len(items')
          /\ ~(i <= Len(seen)) /\ i - Len(seen) = p - offset
      BY <3>1, <1>4, <1>11, LenProperties
    <3>4. i \in DOMAIN seen'
      BY <3>3, <1>7, LenProperties
    <3>5. seen'[i] = j
      BY <3>2, <3>3, <1>7
    <3> QED BY <3>4, <3>5, <1>15 DEF Shown
  <2>6. last = offset + query.limit
    BY <2>2, <2>5, <1>4 DEF last
  <2> QED BY <2>2, <2>3, <2>5, <2>6, <1>11
<1>16. \A j : Untied(j)' <=> Untied(j)
  BY <1>1, <1>2 DEF Untied
<1>17. NothingIsMissed'
  <2>1. initial' = initial /\ initial \subseteq Matching'
    BY <1>1, <1>2 DEF NothingIsMissed
  <2>2. \A j \in initial : Untied(j)' => Shown(j)' \/ Cardinality(Newer(j))' >= Passed'
    BY <1>2, <1>12, <1>15, <1>16
  <2>3. Len(items') < query.limit => \A j \in initial : Untied(j)' => Shown(j)'
    <3>1. \A j \in initial : Untied(j) /\ ~Shown(j)' => Len(items') = query.limit
      BY <1>4, <1>11, <1>15
    <3> QED BY <3>1, <1>4, <1>16
  <2> QED BY <2>1, <2>2, <2>3, <1>1 DEF NothingIsMissed
<1> QED BY <1>13, <1>17

LEMMA ReadIInv ==
    ASSUME IInv, Read PROVE IInv'
<1>1. pc = "reading" /\ turn \in {0, 1}
  BY DEF Read, IInv, Base, TypeInv
<1>2. turn' = turn + 1 /\ UNCHANGED <<store, query, offset, initial, quiet>>
  BY DEF Read
<1>3. Statements[1] = "list" /\ Statements[2] = "count"
  BY DEF Statements
<1>4. CASE turn = 0
  <2>1. List /\ pc' = "reading"
    BY <1>1, <1>2, <1>3, <1>4 DEF Read
  <2> QED BY <2>1, <1>1, <1>2, <1>4, ListIInv
<1>5. CASE turn = 1
  <2>1. Count /\ pc' = "answered"
    BY <1>1, <1>2, <1>3, <1>5 DEF Read
  <2> QED BY <2>1, <1>1, <1>2, <1>5, CountIInv
<1> QED BY <1>1, <1>4, <1>5

-----------------------------------------------------------------------------
LEMMA StutterIInv ==
    ASSUME IInv, UNCHANGED vars PROVE IInv'
<1>1. UNCHANGED <<store, walk>>
  BY DEF vars
<1>2. UNCHANGED <<website, row, stamp, pc, query, offset, turn, items, total, seen, initial>>
  BY <1>1 DEF store, walk
<1>3. StoredJobs' = StoredJobs /\ Matching' = Matching /\ \A j : Newer(j)' = Newer(j)
  BY <1>2 DEF StoredJobs, Matching, Newer, Store!Known
<1>4. Base'
  BY <1>2, <1>3 DEF IInv, Base, TypeInv, StoredAreStamped
<1>5. PassedExist' /\ TotalCoversItems'
  BY <1>2, <1>3 DEF IInv, PassedExist, TotalCoversItems, Everything, Passed
<1>6. \A j : (Untied(j)' <=> Untied(j)) /\ (Shown(j)' <=> Shown(j))
  BY <1>2, <1>3 DEF Untied, Shown
<1>7. NothingIsMissed'
  BY <1>2, <1>3, <1>6 DEF IInv, NothingIsMissed, Everything, Passed
<1> QED BY <1>4, <1>5, <1>7 DEF IInv

(* The invariant: a listing by website or of everything only grows, and    *)
(* what the client has not been shown is still ahead of it.                *)
THEOREM Invariance == Spec => []IInv
<1>1. IInv /\ [Next]_vars => IInv'
  BY BeginIInv, CommitIInv, OpenIInv, ReadIInv, TurnIInv, StutterIInv DEF Next, Done
<1> QED BY <1>1, InitIInv, PTL DEF Spec

(* The total of a page, which is counted after the page has been read, is  *)
(* never less than what the client has been shown.                         *)
THEOREM TotalsCoverItems == Spec => []TotalCoversItems
<1>1. IInv => TotalCoversItems
  BY DEF IInv
<1> QED BY <1>1, Invariance, PTL

(* A client that turns the pages until one is not full has been shown      *)
(* every job that was there when it began, however many are created in the *)
(* meantime.                                                               *)
THEOREM WalksAreComplete == Spec => []WalkIsComplete
<1>1. IInv => WalkIsComplete
  BY DEF IInv, Base, TypeInv, NothingIsMissed, Everything, WalkIsComplete
<1> QED BY <1>1, Invariance, PTL

-----------------------------------------------------------------------------
(* While the matching jobs stay the same, the pages are windows of one     *)
(* order: the job at a place of the walk is the one that as many are newer *)
(* than.                                                                   *)
InPlace ==
    (\A j \in Matching : Untied(j)) =>
        /\ Len(seen) = Passed
        /\ \A i \in 1 .. Len(seen) : seen[i] \in Matching /\ Cardinality(Newer(seen[i])) = i - 1

AtTheEnd == turn > 0 /\ Len(items) < query.limit

QuietFacts ==
    /\ Matching = initial
    /\ Passed <= Cardinality(Matching)
    /\ AtTheEnd => Passed = Cardinality(Matching)
    /\ InPlace

QInv ==
    /\ pc = "idle" => seen = <<>>
    /\ pc = "done" => AtTheEnd
    /\ quiet /\ pc # "idle" => QuietFacts

LEMMA InitQInv == Init => QInv
  BY DEF Init, QInv

(* A step that leaves the matching jobs and the walk as they are. *)
LEMMA FrameQInv ==
    ASSUME Base, QInv, StoredJobs \subseteq StoredJobs',
           \A k \in StoredJobs : stamp'[k] = stamp[k],
           seen' = seen, initial' = initial, Passed' = Passed,
           quiet' => quiet /\ (pc # "idle" => Matching' = Matching),
           pc' = "idle" <=> pc = "idle", pc' = "done" => AtTheEnd', AtTheEnd' => AtTheEnd
    PROVE  QInv'
<1> SUFFICES ASSUME quiet', pc # "idle" PROVE QuietFacts'
  BY DEF QInv
<1>1. QuietFacts /\ Matching' = Matching /\ Matching \subseteq StoredJobs
  BY DEF QInv, Matching
<1>2. \A k \in Matching : Newer(k)' = Newer(k) /\ (Untied(k)' => Untied(k))
  BY <1>1 DEF Newer, Untied
<1>3. InPlace'
  BY <1>1, <1>2 DEF InPlace, QuietFacts
<1> QED BY <1>1, <1>3 DEF QuietFacts

LEMMA BeginQInv ==
    ASSUME Base, QInv, NEW j \in Ids, Begin(j) PROVE QInv'
<1>1. /\ StoredJobs' = StoredJobs /\ UNCHANGED <<website, row, walk, quiet>>
      /\ \A k \in StoredJobs : stamp'[k] = stamp[k]
  BY BeginStamps
<1>2. UNCHANGED <<pc, query, offset, turn, items, seen, initial, quiet, row>>
  BY <1>1 DEF walk
<1>3. Matching' = Matching /\ Passed' = Passed /\ (AtTheEnd' <=> AtTheEnd)
  BY <1>1, <1>2 DEF Matching, Passed, AtTheEnd
<1> QED BY <1>1, <1>2, <1>3, FrameQInv DEF QInv

LEMMA CommitQInv ==
    ASSUME Base, QInv, NEW j \in Ids, Commit(j) PROVE QInv'
<1>1. /\ StoredJobs \subseteq StoredJobs' /\ UNCHANGED <<stamp, walk>>
      /\ quiet' = (quiet /\ Matching' = Matching)
  BY CommitGrows DEF Commit
<1>2. UNCHANGED <<pc, query, offset, turn, items, seen, initial, stamp>>
  BY <1>1 DEF walk
<1>3. Passed' = Passed /\ (AtTheEnd' <=> AtTheEnd)
  BY <1>2 DEF Passed, AtTheEnd
<1> QED BY <1>1, <1>2, <1>3, FrameQInv DEF QInv

LEMMA OpenQInv ==
    ASSUME Base, QInv, Open PROVE QInv'
<1>1. /\ UNCHANGED <<offset, turn, items, seen>>
      /\ pc' = "reading" /\ initial' = Matching' /\ turn = 0 /\ offset = 0 /\ seen = <<>>
  BY DEF Open, Base, TypeInv, QInv
<1>2. Passed' = 0 /\ ~AtTheEnd' /\ Len(seen') = 0
  BY <1>1 DEF Passed, AtTheEnd
<1>3. (IsFiniteSet(Matching) /\ Cardinality(Matching) \in Nat)'
  BY MatchingIsFinite, PTL
<1>4. QuietFacts'
  BY <1>1, <1>2, <1>3 DEF QuietFacts, InPlace
<1> QED BY <1>1, <1>4 DEF QInv

LEMMA TurnQInv ==
    ASSUME Base, QInv, Turn PROVE QInv'
<1>1. /\ UNCHANGED <<website, row, stamp, query, items, seen, initial, quiet>>
      /\ pc = "answered" /\ turn = 2
  BY DEF Turn, store, Base, TypeInv
<1>2. \/ Len(items) = query.limit /\ pc' = "reading" /\ turn' = 0 /\ offset' = offset + query.limit
      \/ Len(items) < query.limit /\ pc' = "done" /\ turn' = turn /\ offset' = offset
  BY DEF Turn
<1>3. StoredJobs' = StoredJobs /\ Matching' = Matching
  BY <1>1 DEF StoredJobs, Matching, Store!Known
<1>4. Passed = offset + Len(items)
  BY <1>1 DEF Passed
<1>5. CASE turn' = 0
  <2>1. pc' = "reading" /\ Passed' = Passed /\ ~AtTheEnd'
    BY <1>1, <1>2, <1>4, <1>5 DEF Passed, AtTheEnd
  <2> QED BY <1>1, <1>3, <2>1, FrameQInv
<1>6. CASE turn' # 0
  <2>1. pc' = "done" /\ Passed' = Passed /\ AtTheEnd' /\ AtTheEnd
    BY <1>1, <1>2, <1>4, <1>6 DEF Passed, AtTheEnd
  <2> QED BY <1>1, <1>3, <2>1, FrameQInv
<1> QED BY <1>5, <1>6

LEMMA CountQInv ==
    ASSUME Base, QInv, pc = "reading", turn = 1, Count, turn' = 2, pc' = "answered",
           UNCHANGED <<store, query, offset, initial, quiet>>
    PROVE  QInv'
<1>1. UNCHANGED <<website, row, stamp, query, offset, initial, items, seen, quiet>>
  BY DEF store, Count
<1>2. StoredJobs' = StoredJobs /\ Matching' = Matching
  BY <1>1 DEF StoredJobs, Matching, Store!Known
<1>3. Passed' = Passed /\ (AtTheEnd' <=> AtTheEnd)
  BY <1>1 DEF Passed, AtTheEnd
<1> QED BY <1>1, <1>2, <1>3, FrameQInv

LEMMA ListQInv ==
    ASSUME Base, QInv, pc = "reading", turn = 0, List, turn' = 1, pc' = "reading",
           UNCHANGED <<store, query, offset, initial, quiet>>
    PROVE  QInv'
<1> SUFFICES ASSUME quiet' PROVE QuietFacts'
  BY DEF QInv
<1> DEFINE n == Cardinality(Matching)
           last == IF offset + query.limit < n THEN offset + query.limit ELSE n
<1>1. UNCHANGED <<website, row, stamp, query, offset, initial, quiet>>
  BY DEF store
<1>2. StoredJobs' = StoredJobs /\ Matching' = Matching /\ \A j : Newer(j)' = Newer(j)
  BY <1>1 DEF StoredJobs, Matching, Newer, Store!Known
<1>3. PICK s \in Orders(Matching) : items' = Page(s)
  BY DEF List
<1>4. /\ n \in Nat /\ offset \in Nat /\ query.limit \in Nat \ {0} /\ seen \in Seq(Ids)
      /\ Matching \subseteq Ids /\ stamp \in [Ids -> Nat]
  BY MatchingIsFinite DEF Base, TypeInv, Matching, StoredJobs
<1>5. /\ s \in [1 .. n -> Matching] /\ s \in [1 .. n -> Ids]
      /\ \A i, k \in 1 .. n : i < k => s[i] # s[k]
  BY <1>3, <1>4, MatchingIsFinite, OrdersAreComplete
<1>6. /\ items' \in Seq(Ids)
      /\ offset <= n => Len(items') = last - offset
      /\ \A i \in 1 .. last - offset : items'[i] = s[offset + i]
  BY <1>3, <1>4, <1>5, PageIsWindow
<1>7. /\ Len(seen') = Len(seen) + Len(items')
      /\ \A i \in 1 .. Len(seen) + Len(items') :
            seen'[i] = IF i <= Len(seen) THEN seen[i] ELSE items'[i - Len(seen)]
  BY <1>4, <1>6, ConcatProperties DEF List
<1>8. QuietFacts /\ Passed = offset /\ offset <= n
  BY <1>1 DEF QInv, QuietFacts, Passed
<1>9. Len(items') = last - offset /\ last <= n /\ last >= offset /\ last \in Nat
  BY <1>4, <1>6, <1>8
<1>10. Passed' = last
  BY <1>1, <1>4, <1>9 DEF Passed
<1>11. AtTheEnd' => last = n
  BY <1>1, <1>4, <1>9 DEF AtTheEnd
<1> HIDE DEF last
<1>12. InPlace'
  <2> SUFFICES ASSUME \A j \in Matching : Untied(j)
               PROVE  /\ Len(seen') = last
                      /\ \A i \in 1 .. Len(seen') :
                            seen'[i] \in Matching /\ Cardinality(Newer(seen'[i])) = i - 1
    BY <1>1, <1>2, <1>10 DEF InPlace, Untied
  <2>1. Len(seen) = offset /\ Len(seen') = last
    BY <1>4, <1>7, <1>8, <1>9 DEF QuietFacts, InPlace
  <2>2. ASSUME NEW i \in 1 .. last
        PROVE  seen'[i] \in Matching /\ Cardinality(Newer(seen'[i])) = i - 1
    <3>1. CASE i <= offset
      BY <3>1, <2>1, <1>4, <1>7, <1>8, <1>9 DEF QuietFacts, InPlace
    <3>2. CASE ~(i <= offset)
      <4>1. i - offset \in 1 .. last - offset /\ offset + (i - offset) = i /\ i \in 1 .. n
        BY <3>2, <1>4, <1>9
      <4>2. seen'[i] = s[i]
        BY <4>1, <3>2, <2>1, <1>6, <1>7, <1>9
      <4>3. s[i] \in Matching /\ \A k \in Matching \ {s[i]} : stamp[k] # stamp[s[i]]
        BY <4>1, <1>5 DEF Untied, Matching
      <4>4. PICK p \in 1 .. n :
              s[p] = s[i] /\ Cardinality({k \in Matching : stamp[k] > stamp[s[i]]}) = p - 1
        <5>1. \A j \in Matching : (\A k \in Matching \ {j} : stamp[k] # stamp[j]) =>
                \E p \in 1 .. n :
                    s[p] = j /\ Cardinality({k \in Matching : stamp[k] > stamp[j]}) = p - 1
          BY <1>3, <1>4, MatchingIsFinite, RankIsPosition
        <5> QED BY <5>1, <4>3
      <4>5. p = i
        BY <4>1, <4>4, <1>4, <1>5
      <4> QED BY <4>2, <4>3, <4>4, <4>5 DEF Newer
    <3> QED BY <3>1, <3>2
  <2> QED BY <2>1, <2>2
<1> QED BY <1>1, <1>2, <1>8, <1>9, <1>10, <1>11, <1>12 DEF QuietFacts

LEMMA ReadQInv ==
    ASSUME Base, QInv, Read PROVE QInv'
<1>1. pc = "reading" /\ turn \in {0, 1}
  BY DEF Read, Base, TypeInv
<1>2. turn' = turn + 1 /\ UNCHANGED <<store, query, offset, initial, quiet>>
  BY DEF Read
<1>3. Statements[1] = "list" /\ Statements[2] = "count"
  BY DEF Statements
<1>4. CASE turn = 0
  <2>1. List /\ pc' = "reading"
    BY <1>1, <1>2, <1>3, <1>4 DEF Read
  <2> QED BY <2>1, <1>1, <1>2, <1>4, ListQInv
<1>5. CASE turn = 1
  <2>1. Count /\ pc' = "answered"
    BY <1>1, <1>2, <1>3, <1>5 DEF Read
  <2> QED BY <2>1, <1>1, <1>2, <1>5, CountQInv
<1> QED BY <1>1, <1>4, <1>5

LEMMA StutterQInv ==
    ASSUME Base, QInv, UNCHANGED vars PROVE QInv'
<1>1. UNCHANGED <<website, row, stamp, pc, query, offset, turn, items, seen, initial, quiet>>
  BY DEF vars, store, walk
<1>2. StoredJobs' = StoredJobs /\ Matching' = Matching
  BY <1>1 DEF StoredJobs, Matching, Store!Known
<1>3. Passed' = Passed /\ (AtTheEnd' <=> AtTheEnd)
  BY <1>1 DEF Passed, AtTheEnd
<1> QED BY <1>1, <1>2, <1>3, FrameQInv DEF QInv

LEMMA QuietWalkFollows ==
    ASSUME Base, QInv, quiet, \A j \in initial : Untied(j)
    PROVE  /\ \A i, k \in DOMAIN seen : i < k => stamp[seen[i]] > stamp[seen[k]]
           /\ pc = "done" => \A j \in initial : Shown(j)
<1>1. CASE pc = "idle"
  BY <1>1 DEF QInv
<1>2. CASE pc # "idle"
  <2> DEFINE n == Cardinality(Matching)
  <2>1. /\ Matching = initial /\ Matching \subseteq Ids /\ stamp \in [Ids -> Nat]
        /\ seen \in Seq(Ids) /\ DOMAIN seen = 1 .. Len(seen)
        /\ IsFiniteSet(Matching) /\ n \in Nat
    BY <1>2, MatchingIsFinite, LenProperties DEF QInv, QuietFacts, Matching, StoredJobs, Base, TypeInv
  <2>2. /\ Len(seen) = Passed
        /\ \A i \in 1 .. Len(seen) : seen[i] \in Matching /\ Cardinality(Newer(seen[i])) = i - 1
    BY <1>2 DEF QInv, QuietFacts, InPlace
  <2>3. ASSUME NEW i \in DOMAIN seen, NEW k \in DOMAIN seen, i < k
        PROVE  stamp[seen[i]] > stamp[seen[k]]
    <3>1. seen[i] \in Ids /\ seen[k] \in Ids /\ stamp[seen[i]] \in Nat /\ stamp[seen[k]] \in Nat
      BY <2>1, <2>2
    <3> SUFFICES ASSUME stamp[seen[k]] >= stamp[seen[i]] PROVE FALSE
      BY <3>1
    <3>2. Newer(seen[k]) \subseteq Newer(seen[i])
      BY <3>1, <2>1 DEF Newer
    <3>3. Cardinality(Newer(seen[k])) <= Cardinality(Newer(seen[i]))
      BY <3>2, NewerIsFinite, FS_Subset
    <3> QED BY <2>1, <2>2, <2>3, <3>3
  <2>4. ASSUME pc = "done", NEW j \in initial PROVE Shown(j)
    <3>1. Len(seen) = n
      BY <1>2, <2>2, <2>4 DEF QInv, QuietFacts
    <3>2. seen \in [1 .. n -> Matching]
      BY <3>1, <2>1, <2>2
    <3>3. \A i, k \in 1 .. n : seen[i] = seen[k] => i = k
      BY <3>1, <2>1, <2>2
    <3>4. seen \in Injection(1 .. n, Matching)
      BY <3>2, <3>3 DEF Injection, IsInjective
    <3>5. Cardinality(1 .. n) = n
      BY <2>1, FS_Interval
    <3>6. seen \in Surjection(1 .. n, Matching)
      BY <3>4, <3>5, <2>1, FS_Injection
    <3> QED BY <3>1, <3>6, <2>1 DEF Surjection, Shown
  <2> QED BY <2>3, <2>4
<1> QED BY <1>1, <1>2

(* While the matching jobs stay the same, the pages show each of them      *)
(* once, newest first, whatever the filters and the size of the pages.     *)
THEOREM QuietWalksAreExact == Spec => []QuietWalkIsExact
<1>1. Base /\ QInv /\ [Next]_vars => QInv'
  BY BeginQInv, CommitQInv, OpenQInv, ReadQInv, TurnQInv, StutterQInv DEF Next, Done
<1>2. IInv => Base
  BY DEF IInv
<1>3. Base /\ QInv => QuietWalkIsExact
  BY QuietWalkFollows DEF QuietWalkIsExact
<1> QED BY <1>1, <1>2, <1>3, Invariance, InitQInv, PTL DEF Spec
=============================================================================
