------------------------- MODULE PageExtraction_proofs -------------------------
(***************************************************************************)
(* For all pages: the links are in normal form and are fetched as they     *)
(* were extracted; two absolute anchors share a link exactly when they     *)
(* name the same resource; relative anchors are resolved in the directory  *)
(* of the base; hubs and profiles are found by what they are, and each     *)
(* e-mail address is listed once.                                          *)
(***************************************************************************)
EXTENDS PageExtraction, UrlNormalizer_proofs

Target(i) == Resolve(Unescaped(page.anchors[i]), DocumentBase(page), FALSE)

Linked(i) == \E l \in DOMAIN links : links[l].anchor = i

PageOk ==
    /\ page.url \in Urls /\ page.base \in Hrefs \cup {NoUrl}
    /\ page.anchors \in Seq(Hrefs)

LinksOk ==
    /\ links \in Seq([url : Urls, anchor : Nat, internal : BOOLEAN])
    /\ \A l \in DOMAIN links :
           LET i == links[l].anchor
           IN  /\ i \in 1 .. next - 1 /\ page.anchors[i] \in References
               /\ links[l].url = Target(i) /\ Target(i) # NoUrl
               /\ links[l].internal = Internal(Target(i))

(* An anchor has a link if it can be resolved and no anchor before it has  *)
(* the same target.                                                        *)
AllLinked ==
    \A i \in 1 .. next - 1 :
        /\ page.anchors[i] \in References
        /\ Target(i) # NoUrl => Known(Target(i))
        /\ Linked(i) <=> Target(i) # NoUrl /\ \A k \in 1 .. i - 1 : Target(k) # Target(i)

VisitedOk ==
    /\ visited \in Seq(Urls \cup {NoUrl}) /\ Len(visited) <= Len(links)
    /\ \A i \in DOMAIN visited : visited[i] = Canonical(links[i].url, TRUE)

IInv ==
    /\ PageOk
    /\ pc \in {"extract", "visit", "raised"}
    /\ next \in 1 .. Len(page.anchors) + 1
    /\ pc = "visit" => Accepted /\ next = Len(page.anchors) + 1
    /\ pc = "visit" \/ next # 1 => page.base # Malformed
    /\ LinksOk
    /\ pc # "raised" => AllLinked
    /\ VisitedOk
    /\ pc # "visit" => visited = <<>>

LEMMA BaseType ==
    ASSUME PageOk, page.base # Malformed
    PROVE  DocumentBase(page) \in Urls
<1>1. page.base # NoUrl => Join(page.url, Unescaped(page.base)) \in Urls
  BY UnescapedRef, JoinType DEF PageOk, Hrefs
<1> QED BY <1>1 DEF PageOk, DocumentBase

LEMMA TargetIsNormal ==
    ASSUME PageOk, page.base # Malformed, NEW i, page.anchors[i] \in References, Target(i) # NoUrl
    PROVE  NormalUrl(Target(i)) /\ Target(i) \in Urls
<1>1. Unescaped(page.anchors[i]) \in References /\ DocumentBase(page) \in Urls
  BY BaseType, UnescapedRef
<1>2. NormalUrl(Target(i))
  BY <1>1, ResolvedIsNormal DEF Target
<1> QED BY <1>2 DEF NormalUrl

LEMMA Unchanged ==
    ASSUME UNCHANGED <<page, next, links>>
    PROVE  PageOk' = PageOk /\ LinksOk' = LinksOk /\ AllLinked' = AllLinked /\ Accepted' = Accepted
<1>1. page' = page /\ next' = next /\ links' = links
  OBVIOUS
<1>2. \A i : Target(i)' = Target(i)
  BY <1>1 DEF Target, DocumentBase
<1>3. /\ \A i : Linked(i)' = Linked(i)
      /\ \A u : Known(u)' = Known(u)
  BY <1>1 DEF Linked, Known
<1>4. PageOk' = PageOk /\ Accepted' = Accepted
  BY <1>1 DEF PageOk, Accepted
<1>5. LinksOk' = LinksOk
  BY <1>1, <1>2 DEF LinksOk
<1>6. AllLinked' = AllLinked
  BY <1>1, <1>2, <1>3 DEF AllLinked
<1> QED BY <1>4, <1>5, <1>6

LEMMA InitInv == Init => IInv
<1> SUFFICES ASSUME Init PROVE IInv
  OBVIOUS
<1> USE DEF Init
<1>1. PageOk
  BY PagesAssumption DEF PageOk
<1>2. next \in 1 .. Len(page.anchors) + 1
  BY <1>1 DEF PageOk
<1>3. LinksOk
  BY DEF LinksOk
<1>4. AllLinked
  BY DEF AllLinked
<1>5. VisitedOk
  BY DEF VisitedOk
<1> QED BY <1>1, <1>2, <1>3, <1>4, <1>5 DEF IInv

(* The invariant says nothing about an anchor that has not been reached.   *)
LEMMA ExtractInv ==
    ASSUME IInv, Extract
    PROVE  IInv'
<1> USE DEF Extract
<1> DEFINE url == Resolve(Unescaped(Anchor), DocumentBase(page), FALSE)
<1>1. /\ PageOk /\ pc = "extract" /\ Accepted /\ LinksOk /\ AllLinked
      /\ visited = <<>> /\ UNCHANGED <<page, pc, visited>> /\ page.base # Malformed
  BY DEF IInv
<1>2. /\ next \in Nat \ {0} /\ next <= Len(page.anchors) /\ next' = next + 1
      /\ Len(page.anchors) \in Nat
  BY DEF IInv, PageOk
<1>3. PageOk' /\ Accepted' /\ \A i : Target(i)' = Target(i)
  <2>1. page' = page
    BY <1>1
  <2>2. PageOk' /\ Accepted'
    BY <1>1, <2>1 DEF PageOk, Accepted
  <2>3. \A i : Target(i)' = Target(i)
    BY <2>1 DEF Target, DocumentBase
  <2> QED BY <2>2, <2>3
<1>4. url = Target(next) /\ page.anchors[next] \in References
  BY <1>1, <1>2 DEF PageOk, Target, Anchor, Hrefs
<1>5. url # NoUrl => url \in Urls
  BY <1>1, <1>4, TargetIsNormal
<1> DEFINE new == [url |-> url, anchor |-> next, internal |-> Internal(url)]
<1>6. \/ (url = NoUrl \/ Known(url)) /\ links' = links
      \/ url # NoUrl /\ ~Known(url) /\ links' = Append(links, new)
  BY DEF Add
<1> HIDE DEF url
<1>7. new.url = url /\ new.anchor = next /\ new.internal = Internal(url)
  OBVIOUS
<1>8. url # NoUrl => new \in [url : Urls, anchor : Nat, internal : BOOLEAN]
  BY <1>2, <1>5 DEF Internal
<1> HIDE DEF new
<1> HIDE DEF Extract
<1>9. /\ Len(links) \in Nat /\ DOMAIN links = 1 .. Len(links)
      /\ \A l \in 1 .. Len(links) :
             /\ links[l].anchor \in 1 .. next - 1 /\ page.anchors[links[l].anchor] \in References
             /\ links[l].url = Target(links[l].anchor) /\ Target(links[l].anchor) # NoUrl
             /\ links[l].internal = Internal(Target(links[l].anchor))
  BY <1>1 DEF LinksOk
<1>10. CASE (url = NoUrl \/ Known(url)) /\ links' = links
  <2>1. LinksOk'
    BY <1>1, <1>2, <1>3, <1>9, <1>10 DEF LinksOk
  <2>2. AllLinked'
    <3> SUFFICES ASSUME NEW i \in 1 .. next
                 PROVE  /\ page.anchors[i] \in References
                        /\ Target(i) # NoUrl => Known(Target(i))
                        /\ Linked(i) <=> Target(i) # NoUrl /\ \A k \in 1 .. i - 1 : Target(k) # Target(i)
      BY <1>1, <1>2, <1>3, <1>10 DEF AllLinked, Known, Linked
    <3>1. CASE i \in 1 .. next - 1
      BY <1>1, <3>1 DEF AllLinked
    <3>2. CASE i = next
      <4>1. ~Linked(next)
        BY <1>2, <1>9 DEF Linked
      <4>2. ASSUME url # NoUrl PROVE \E k \in 1 .. next - 1 : Target(k) = url
        BY <1>9, <1>10, <4>2 DEF Known
      <4> QED BY <1>4, <1>10, <3>2, <4>1, <4>2
    <3> QED BY <1>2, <3>1, <3>2
  <2>3. VisitedOk'
    BY <1>1, <1>9, <1>10 DEF VisitedOk
  <2> QED BY <1>1, <1>2, <1>3, <2>1, <2>2, <2>3 DEF IInv
<1>11. CASE url # NoUrl /\ ~Known(url) /\ links' = Append(links, new)
  <2>1. /\ links' \in Seq([url : Urls, anchor : Nat, internal : BOOLEAN])
        /\ Len(links') = Len(links) + 1 /\ DOMAIN links' = 1 .. Len(links) + 1
        /\ links'[Len(links) + 1] = new
        /\ \A l \in 1 .. Len(links) : links'[l] = links[l]
    <3> DEFINE R == [url : Urls, anchor : Nat, internal : BOOLEAN]
    <3>1. links \in Seq(R) /\ new \in R
      BY <1>1, <1>8, <1>11 DEF LinksOk
    <3> HIDE DEF R
    <3> QED BY <1>11, <3>1, AppendProperties DEF R
  <2>a. \A l \in 1 .. Len(links) : links'[l] = links[l]
    BY <2>1
  <2>b. links'[Len(links) + 1] = new /\ DOMAIN links' = 1 .. Len(links) + 1
    BY <2>1
  <2>c. \A l \in 1 .. Len(links) : links[l].anchor \in 1 .. next - 1
    BY <1>9
  <2>2. LinksOk'
    <3> SUFFICES ASSUME NEW l \in 1 .. Len(links) + 1
                 PROVE  /\ links'[l].anchor \in 1 .. next
                        /\ page.anchors[links'[l].anchor] \in References
                        /\ links'[l].url = Target(links'[l].anchor)
                        /\ Target(links'[l].anchor) # NoUrl
                        /\ links'[l].internal = Internal(Target(links'[l].anchor))
      BY <1>1, <1>2, <1>3, <2>1 DEF LinksOk
    <3>1. CASE l \in 1 .. Len(links)
      <4>1. links'[l] = links[l] /\ links[l].anchor \in 1 .. next
        BY <1>2, <2>a, <2>c, <3>1
      <4> QED BY <1>9, <3>1, <4>1
    <3>2. CASE l = Len(links) + 1
      BY <1>2, <1>4, <1>7, <1>11, <2>1, <3>2
    <3> QED BY <1>9, <3>1, <3>2
  <2>3. AllLinked'
    <3>1. \A i \in 1 .. next - 1 : Linked(i)' <=> Linked(i)
      <4> SUFFICES ASSUME NEW i \in 1 .. next - 1 PROVE Linked(i)' <=> Linked(i)
        OBVIOUS
      <4>1. Linked(i)' <=> \E l \in 1 .. Len(links) + 1 : links'[l].anchor = i
        BY <2>b DEF Linked
      <4>2. Linked(i) <=> \E l \in 1 .. Len(links) : links[l].anchor = i
        BY <1>9 DEF Linked
      <4>3. links'[Len(links) + 1].anchor # i
        BY <1>2, <1>7, <2>b
      <4> QED BY <1>9, <2>a, <4>1, <4>2, <4>3
    <3>2. \A i \in 1 .. next - 1 : Known(Target(i)) => Known(Target(i))'
      BY <1>3, <1>9, <2>1 DEF Known
    <3>3. ASSUME NEW i, i = next PROVE Linked(i)' /\ Known(Target(i))'
      <4>1. Len(links) + 1 \in DOMAIN links' /\ links'[Len(links) + 1] = new
        BY <1>9, <2>b
      <4>2. links'[Len(links) + 1].anchor = i /\ links'[Len(links) + 1].url = Target(i)'
        BY <1>3, <1>4, <1>7, <3>3, <4>1
      <4>3. Linked(i)'
        BY <4>1, <4>2 DEF Linked
      <4>4. Known(Target(i))'
        BY <4>1, <4>2 DEF Known
      <4> QED BY <4>3, <4>4
    <3>4. \A k \in 1 .. next - 1 : Target(k) # Target(next)
      BY <1>1, <1>4, <1>11 DEF AllLinked
    <3> SUFFICES ASSUME NEW i \in 1 .. next
                 PROVE  /\ page.anchors[i] \in References
                        /\ Target(i) # NoUrl => Known(Target(i))'
                        /\ Linked(i)' <=> Target(i) # NoUrl
                                          /\ \A k \in 1 .. i - 1 : Target(k) # Target(i)
      BY <1>1, <1>2, <1>3 DEF AllLinked
    <3>5. CASE i \in 1 .. next - 1
      BY <1>1, <3>1, <3>2, <3>5 DEF AllLinked
    <3>6. CASE i = next
      BY <1>4, <1>11, <3>3, <3>4, <3>6
    <3> QED BY <1>2, <3>5, <3>6
  <2>4. VisitedOk'
    BY <1>1, <1>9, <2>1 DEF VisitedOk
  <2> QED BY <1>1, <1>2, <1>3, <2>2, <2>3, <2>4 DEF IInv
<1> QED BY <1>6, <1>10, <1>11

LEMMA NextInv == IInv /\ [Next]_vars => IInv'
<1> SUFFICES ASSUME IInv, [Next]_vars PROVE IInv'
  OBVIOUS
<1>1. CASE Refuse
  <2>1. UNCHANGED <<page, next, links, visited>> /\ pc' = "raised" /\ pc = "extract"
    BY <1>1 DEF Refuse
  <2>2. PageOk' /\ LinksOk' /\ VisitedOk'
    BY <2>1, Unchanged DEF IInv, VisitedOk
  <2> QED BY <2>1, <2>2 DEF IInv
<1>2. CASE Extract
  BY <1>2, ExtractInv
<1>3. CASE Raise
  <2>1. UNCHANGED <<page, next, visited>> /\ pc' = "raised" /\ pc = "extract" /\ links' = <<>>
    BY <1>3 DEF Raise
  <2>2. PageOk'
    BY <2>1 DEF IInv, PageOk
  <2>3. LinksOk'
    BY <2>1 DEF LinksOk
  <2>4. VisitedOk'
    BY <2>1 DEF IInv, VisitedOk
  <2> QED BY <2>1, <2>2, <2>3, <2>4 DEF IInv
<1>4. CASE Return
  <2>1. /\ UNCHANGED <<page, next, links, visited>> /\ pc' = "visit" /\ pc = "extract"
        /\ Accepted /\ next > Len(page.anchors) /\ page.base # Malformed
    BY <1>4 DEF Return
  <2>2. PageOk' /\ LinksOk' /\ VisitedOk' /\ AllLinked' /\ Accepted'
    BY <2>1, Unchanged DEF IInv, VisitedOk
  <2>3. next = Len(page.anchors) + 1
    BY <2>1 DEF IInv, PageOk
  <2> QED BY <2>1, <2>2, <2>3 DEF IInv
<1>5. CASE Visit
  <2> DEFINE n == Len(visited)
             v == Canonical(links[n + 1].url, TRUE)
  <2>1. /\ UNCHANGED <<page, pc, next, links>> /\ pc = "visit" /\ n < Len(links)
        /\ visited' = Append(visited, v)
    BY <1>5 DEF Visit
  <2>2. PageOk' /\ LinksOk' /\ AllLinked' /\ Accepted'
    BY <2>1, Unchanged DEF IInv
  <2>3. VisitedOk'
    <3> DEFINE W == Urls \cup {NoUrl}
    <3>1. visited \in Seq(W) /\ \A i \in DOMAIN visited : visited[i] = Canonical(links[i].url, TRUE)
      BY DEF IInv, VisitedOk
    <3>2. links \in Seq([url : Urls, anchor : Nat, internal : BOOLEAN])
      BY DEF IInv, LinksOk
    <3>3. v \in W
      <4>1. n + 1 \in 1 .. Len(links)
        BY <2>1, <3>1, <3>2
      <4>2. links[n + 1] \in [url : Urls, anchor : Nat, internal : BOOLEAN]
        <5> HIDE DEF n
        <5> QED BY <3>2, <4>1, ElementOfSeq
      <4>3. links[n + 1].url \in Urls
        BY <4>2
      <4> QED BY <4>3, CanonicalType
    <3> HIDE DEF W, v
    <3>4. /\ n \in Nat /\ DOMAIN visited = 1 .. n /\ Len(links) \in Nat
          /\ visited' \in Seq(W) /\ Len(visited') = n + 1 /\ DOMAIN visited' = 1 .. n + 1
          /\ visited'[n + 1] = v /\ \A i \in 1 .. n : visited'[i] = visited[i]
      BY <2>1, <3>1, <3>2, <3>3, AppendProperties
    <3> HIDE DEF n
    <3>5. \A i \in 1 .. n + 1 : visited'[i] = Canonical(links[i].url, TRUE)
      <4> SUFFICES ASSUME NEW i \in 1 .. n + 1
                   PROVE  visited'[i] = Canonical(links[i].url, TRUE)
        OBVIOUS
      <4>1. CASE i \in 1 .. n
        BY <3>1, <3>4, <4>1
      <4>2. CASE i = n + 1
        BY <3>4, <4>2 DEF v
      <4>3. i \in 1 .. n \/ i = n + 1
        <5>1. n \in Nat
          BY <3>4
        <5> QED BY <5>1
      <4> QED BY <4>1, <4>2, <4>3
    <3>6. Len(visited') <= Len(links') /\ links' = links
      BY <2>1, <3>4
    <3> QED BY <3>4, <3>5, <3>6 DEF VisitedOk, W
  <2> QED BY <2>1, <2>2, <2>3 DEF IInv
<1>6. CASE UNCHANGED vars
  <2>1. UNCHANGED <<page, pc, next, links, visited>>
    BY <1>6 DEF vars
  <2>2. PageOk' = PageOk /\ LinksOk' = LinksOk /\ AllLinked' = AllLinked /\ Accepted' = Accepted
    BY <2>1, Unchanged
  <2>3. VisitedOk' = VisitedOk
    BY <2>1 DEF VisitedOk
  <2> QED BY <2>1, <2>2, <2>3 DEF IInv
<1> QED BY <1>1, <1>2, <1>3, <1>4, <1>5, <1>6 DEF Next, Done

(* The inductive invariant holds on every page, in whatever order its      *)
(* anchors come: each link belongs to the first anchor with its target.    *)
THEOREM InvariantHolds == Spec => []IInv
<1>1. Init => IInv
  BY InitInv
<1>2. IInv /\ [Next]_vars => IInv'
  BY NextInv
<1> QED BY <1>1, <1>2, PTL DEF Spec

LEMMA LinkIsNormal ==
    ASSUME IInv, NEW l \in DOMAIN links
    PROVE  NormalUrl(links[l].url)
<1> DEFINE i == links[l].anchor
<1>1. /\ i \in 1 .. next - 1 /\ page.anchors[i] \in References
      /\ links[l].url = Target(i) /\ Target(i) # NoUrl /\ PageOk
  BY DEF IInv, LinksOk
<1> HIDE DEF i
<1>2. next # 1
  BY <1>1 DEF IInv
<1> QED BY <1>1, <1>2, TargetIsNormal DEF IInv

(* The links that are returned are in normal form. *)
THEOREM NormalLinks == Spec => []LinksAreNormal
<1>1. IInv => LinksAreNormal
  <2> SUFFICES ASSUME IInv, NEW l \in DOMAIN links
               PROVE  LET u == links[l].url
                      IN  /\ \A k \in DOMAIN u.path :
                                 Ordinary(u.path[k]) \/ (k = 1 /\ u.path[k] = "")
                          /\ \A k \in DOMAIN u.query : u.query[k].key \notin Tracking
                          /\ \A k \in 2 .. Len(u.query) : ~Before(u.query[k], u.query[k - 1])
                          /\ u.port # DefaultPort(u.scheme) /\ u.host \notin Refused
    BY DEF LinksAreNormal
  <2> DEFINE u == links[l].url
  <2>1. NormalUrl(u)
    BY LinkIsNormal
  <2> HIDE DEF u
  <2>2. DOMAIN u.query = 1 .. Len(u.query) /\ Len(u.query) \in Nat
    <3>1. u \in Urls
      BY <2>1 DEF NormalUrl
    <3>2. u.query \in Seq(Params)
      BY <3>1, UrlFields
    <3> QED BY <3>2
  <2>3. \A i, k \in DOMAIN u.query : i < k => ~Before(u.query[k], u.query[i])
    BY <2>1 DEF NormalUrl
  <2>4. ASSUME NEW k \in 2 .. Len(u.query) PROVE ~Before(u.query[k], u.query[k - 1])
    <3>1. k \in DOMAIN u.query /\ k - 1 \in DOMAIN u.query /\ k - 1 < k
      BY <2>2
    <3> QED BY <2>3, <3>1
  <2>5. \A k \in DOMAIN u.path : Ordinary(u.path[k]) \/ (k = 1 /\ u.path[k] = "")
    BY <2>1 DEF NormalUrl, Ordinary, Dots
  <2>6. /\ \A k \in DOMAIN u.query : u.query[k].key \notin Tracking
        /\ u.port # DefaultPort(u.scheme) /\ u.host \notin Refused
    BY <2>1 DEF NormalUrl
  <2> QED BY <2>4, <2>5, <2>6 DEF u
<1> QED BY <1>1, InvariantHolds, PTL

(* validate_public_url changes no link that extract_links has returned,    *)
(* unless it is too long, its host is not public, or something in its path *)
(* or its query looks like an entity and is unescaped once more.           *)
THEOREM LinksAreFetchedAsExtracted == Spec => []FetchedAsExtracted
<1>1. IInv => FetchedAsExtracted
  <2> SUFFICES ASSUME IInv, NEW i \in DOMAIN visited, Literal(links[i].url),
                      ~Unfit(links[i].url), links[i].url.host \notin Private
               PROVE  visited[i] = links[i].url
    BY DEF FetchedAsExtracted
  <2>1. visited[i] = Canonical(links[i].url, TRUE) /\ i \in DOMAIN links
    <3>1. visited[i] = Canonical(links[i].url, TRUE)
      BY DEF IInv, VisitedOk
    <3>2. /\ visited \in Seq(Urls \cup {NoUrl}) /\ Len(visited) <= Len(links)
          /\ links \in Seq([url : Urls, anchor : Nat, internal : BOOLEAN])
      BY DEF IInv, VisitedOk, LinksOk
    <3>3. /\ i \in 1 .. Len(visited) /\ Len(visited) \in Nat /\ Len(links) \in Nat
          /\ DOMAIN links = 1 .. Len(links)
      BY <3>2
    <3>4. i \in 1 .. Len(links)
      BY <3>2, <3>3
    <3> QED BY <3>1, <3>3, <3>4
  <2> DEFINE u == links[i].url
  <2>2. NormalUrl(u)
    BY <2>1, LinkIsNormal
  <2>3. /\ \A k \in 2 .. Len(u.query) : u.query[k].key \notin EntityKeys
        /\ \A k \in DOMAIN u.path : Entities[u.path[k]] = u.path[k]
    BY DEF Literal, Plain
  <2>4. u.host \notin Private /\ ~Unfit(u)
    OBVIOUS
  <2> HIDE DEF u
  <2>5. Canonical(u, TRUE) = u
    BY <2>2, <2>3, <2>4, CanonicalIsFixed
  <2> QED BY <2>1, <2>5 DEF u
<1> QED BY <1>1, InvariantHolds, PTL

-----------------------------------------------------------------------------
(* Which segments normpath keeps.  O and N are sets of indices: of the      *)
(* ordinary segments, and of those that go up.                              *)
In(S, i, j) == Cardinality({k \in i .. j : k \in S})

LEMMA InOne ==
    ASSUME NEW S, NEW j \in Nat, NEW i \in 1 .. j + 1
    PROVE  /\ In(S, i, j) \in Nat
           /\ In(S, i, j + 1) = In(S, i, j) + IF j + 1 \in S THEN 1 ELSE 0
<1> DEFINE T == {k \in i .. j : k \in S}
           U == {k \in i .. j + 1 : k \in S}
<1>1. IsFiniteSet(T)
  <2>1. IsFiniteSet(i .. j) /\ T \in SUBSET (i .. j)
    BY FS_Interval
  <2> QED BY <2>1, FS_Subset
<1>2. j + 1 \notin T /\ U = IF j + 1 \in S THEN T \cup {j + 1} ELSE T
  OBVIOUS
<1> HIDE DEF T, U
<1>3. Cardinality(T) \in Nat /\ Cardinality(T \cup {j + 1}) = Cardinality(T) + 1
  BY <1>1, <1>2, FS_AddElement, FS_CardinalityType
<1>4. Cardinality(U) = Cardinality(T) + IF j + 1 \in S THEN 1 ELSE 0
  BY <1>2, <1>3
<1> QED BY <1>3, <1>4 DEF T, U, In

LEMMA InNone ==
    ASSUME NEW S, NEW j \in Nat
    PROVE  In(S, j + 1, j) = 0
<1>1. {k \in j + 1 .. j : k \in S} = {}
  OBVIOUS
<1> QED BY <1>1, FS_EmptySet DEF In

(* Index i stays as far as the first k segments tell. *)
UpTo(O, N, k, i) ==
    /\ i \in 1 .. k /\ i \in O
    /\ \A j \in i + 1 .. k : In(N, i + 1, j) <= In(O, i + 1, j)

LEMMA UpToOne ==
    ASSUME NEW O, NEW N, NEW k \in Nat, NEW i \in 1 .. k
    PROVE  UpTo(O, N, k + 1, i)
           <=> UpTo(O, N, k, i) /\ In(N, i + 1, k + 1) <= In(O, i + 1, k + 1)
<1>1. i + 1 .. k + 1 = (i + 1 .. k) \cup {k + 1}
  OBVIOUS
<1> QED BY <1>1 DEF UpTo

(* The indices of the path that is kept after k segments, and for each how *)
(* many of those after it are left.                                        *)
Tracks(O, N, k, h) ==
    /\ h \in Seq(1 .. k)
    /\ \A m, l \in 1 .. Len(h) : m < l => h[m] < h[l]
    /\ \A i \in 1 .. k : UpTo(O, N, k, i) <=> \E m \in 1 .. Len(h) : h[m] = i
    /\ \A m \in 1 .. Len(h) : In(O, h[m] + 1, k) = In(N, h[m] + 1, k) + (Len(h) - m)

(* An index that stays is followed by no more steps up than segments.      *)
LEMMA UpToBound ==
    ASSUME NEW O, NEW N, NEW k \in Nat, NEW i, UpTo(O, N, k, i)
    PROVE  In(N, i + 1, k) <= In(O, i + 1, k)
<1>1. i \in 1 .. k
  BY DEF UpTo
<1>2. CASE i = k
  BY <1>2, InNone
<1>3. CASE i < k
  <2>1. k \in i + 1 .. k
    BY <1>1, <1>3
  <2> QED BY <2>1 DEF UpTo
<1> QED BY <1>1, <1>2, <1>3

LEMMA TracksNeither ==
    ASSUME NEW O, NEW N, NEW k \in Nat, NEW h, Tracks(O, N, k, h), k + 1 \notin O, k + 1 \notin N
    PROVE  Tracks(O, N, k + 1, h)
<1>1. /\ h \in Seq(1 .. k) /\ Len(h) \in Nat
      /\ \A m \in 1 .. Len(h) : h[m] \in 1 .. k
      /\ \A m, l \in 1 .. Len(h) : m < l => h[m] < h[l]
      /\ \A i \in 1 .. k : UpTo(O, N, k, i) <=> \E m \in 1 .. Len(h) : h[m] = i
      /\ \A m \in 1 .. Len(h) : In(O, h[m] + 1, k) = In(N, h[m] + 1, k) + (Len(h) - m)
  BY DEF Tracks
<1>2. \A i \in 1 .. k : /\ In(O, i + 1, k + 1) = In(O, i + 1, k)
                        /\ In(N, i + 1, k + 1) = In(N, i + 1, k)
  <2> SUFFICES ASSUME NEW i \in 1 .. k
               PROVE  /\ In(O, i + 1, k + 1) = In(O, i + 1, k)
                      /\ In(N, i + 1, k + 1) = In(N, i + 1, k)
    OBVIOUS
  <2>1. i + 1 \in 1 .. k + 1
    OBVIOUS
  <2> QED BY <2>1, InOne
<1>3. h \in Seq(1 .. k + 1)
  BY <1>1
<1>4. \A i \in 1 .. k : UpTo(O, N, k + 1, i) <=> UpTo(O, N, k, i)
  BY <1>2, UpToOne, UpToBound
<1>5. ~UpTo(O, N, k + 1, k + 1)
  BY DEF UpTo
<1>6. \A i \in 1 .. k + 1 : UpTo(O, N, k + 1, i) <=> \E m \in 1 .. Len(h) : h[m] = i
  <2> SUFFICES ASSUME NEW i \in 1 .. k + 1
               PROVE  UpTo(O, N, k + 1, i) <=> \E m \in 1 .. Len(h) : h[m] = i
    OBVIOUS
  <2>1. CASE i = k + 1
    BY <1>1, <1>5, <2>1
  <2>2. CASE i \in 1 .. k
    BY <1>1, <1>4, <2>2
  <2> QED BY <2>1, <2>2
<1>7. \A m \in 1 .. Len(h) : In(O, h[m] + 1, k + 1) = In(N, h[m] + 1, k + 1) + (Len(h) - m)
  BY <1>1, <1>2
<1> QED BY <1>1, <1>3, <1>6, <1>7 DEF Tracks

LEMMA TracksOrdinary ==
    ASSUME NEW O, NEW N, NEW k \in Nat, NEW h, Tracks(O, N, k, h), k + 1 \in O, k + 1 \notin N
    PROVE  Tracks(O, N, k + 1, Append(h, k + 1))
<1> DEFINE n == Len(h)
           a == Append(h, k + 1)
<1>1. h \in Seq(1 .. k)
  BY DEF Tracks
<1>n. n \in Nat /\ \A m \in 1 .. n : h[m] \in 1 .. k
  BY <1>1
<1>i. \A m, l \in 1 .. n : m < l => h[m] < h[l]
  BY DEF Tracks
<1>u. \A i \in 1 .. k : UpTo(O, N, k, i) <=> \E m \in 1 .. n : h[m] = i
  BY DEF Tracks
<1>e. \A m \in 1 .. n : In(O, h[m] + 1, k) = In(N, h[m] + 1, k) + (n - m)
  BY DEF Tracks
<1>2. \A i \in 1 .. k : /\ In(O, i + 1, k + 1) = In(O, i + 1, k) + 1
                        /\ In(N, i + 1, k + 1) = In(N, i + 1, k)
                        /\ In(O, i + 1, k) \in Nat /\ In(N, i + 1, k) \in Nat
  <2> SUFFICES ASSUME NEW i \in 1 .. k
               PROVE  /\ In(O, i + 1, k + 1) = In(O, i + 1, k) + 1
                      /\ In(N, i + 1, k + 1) = In(N, i + 1, k)
                      /\ In(O, i + 1, k) \in Nat /\ In(N, i + 1, k) \in Nat
    OBVIOUS
  <2>1. i + 1 \in 1 .. k + 1
    OBVIOUS
  <2> QED BY <2>1, InOne
<1>3. /\ a \in Seq(1 .. k + 1) /\ Len(a) = n + 1 /\ a[n + 1] = k + 1
      /\ \A m \in 1 .. n : a[m] = h[m]
  <2>1. h \in Seq(1 .. k + 1) /\ k + 1 \in 1 .. k + 1
    BY <1>1
  <2> QED BY <2>1, AppendProperties
<1> HIDE DEF n, a
<1>a. a[n + 1] = k + 1 /\ \A m \in 1 .. n : a[m] = h[m]
  BY <1>3
<1>4. \A m, l \in 1 .. n + 1 : m < l => a[m] < a[l]
  BY <1>n, <1>i, <1>a
<1>5. \A i \in 1 .. k : UpTo(O, N, k + 1, i) <=> UpTo(O, N, k, i)
  BY <1>2, UpToOne, UpToBound
<1>6. UpTo(O, N, k + 1, k + 1)
  BY DEF UpTo
<1>7. \A i \in 1 .. k + 1 : UpTo(O, N, k + 1, i) <=> \E m \in 1 .. n + 1 : a[m] = i
  <2> SUFFICES ASSUME NEW i \in 1 .. k + 1
               PROVE  UpTo(O, N, k + 1, i) <=> \E m \in 1 .. n + 1 : a[m] = i
    OBVIOUS
  <2>1. CASE i = k + 1
    BY <1>n, <1>a, <1>6, <2>1
  <2>2. CASE i \in 1 .. k
    BY <1>n, <1>a, <1>u, <1>5, <2>2
  <2> QED BY <2>1, <2>2
<1>8. \A m \in 1 .. n + 1 : In(O, a[m] + 1, k + 1) = In(N, a[m] + 1, k + 1) + (n + 1 - m)
  <2> SUFFICES ASSUME NEW m \in 1 .. n + 1
               PROVE  In(O, a[m] + 1, k + 1) = In(N, a[m] + 1, k + 1) + (n + 1 - m)
    OBVIOUS
  <2>1. CASE m = n + 1
    <3>1. In(O, k + 1 + 1, k + 1) = 0 /\ In(N, k + 1 + 1, k + 1) = 0
      BY InNone
    <3> QED BY <1>n, <1>a, <2>1, <3>1
  <2>2. CASE m \in 1 .. n
    BY <1>n, <1>e, <1>2, <1>a, <2>2
  <2> QED BY <1>n, <2>1, <2>2
<1>9. Tracks(O, N, k + 1, a)
  <2>1. a \in Seq(1 .. k + 1) /\ Len(a) = n + 1
    BY <1>3
  <2>2. \A m, l \in 1 .. Len(a) : m < l => a[m] < a[l]
    BY <1>4, <2>1
  <2>3. \A i \in 1 .. k + 1 : UpTo(O, N, k + 1, i) <=> \E m \in 1 .. Len(a) : a[m] = i
    BY <1>7, <2>1
  <2>4. \A m \in 1 .. Len(a) :
            In(O, a[m] + 1, k + 1) = In(N, a[m] + 1, k + 1) + (Len(a) - m)
    BY <1>8, <1>n, <2>1
  <2> QED BY <2>1, <2>2, <2>3, <2>4 DEF Tracks
<1> QED BY <1>9 DEF a

LEMMA TracksUp ==
    ASSUME NEW O, NEW N, NEW k \in Nat, NEW h, Tracks(O, N, k, h), k + 1 \notin O, k + 1 \in N
    PROVE  Tracks(O, N, k + 1, IF h = <<>> THEN <<>> ELSE Front(h))
<1> DEFINE n == Len(h)
           f == Front(h)
<1>1. h \in Seq(1 .. k)
  BY DEF Tracks
<1>n. n \in Nat /\ \A m \in 1 .. n : h[m] \in 1 .. k
  BY <1>1
<1>i. \A m, l \in 1 .. n : m < l => h[m] < h[l]
  BY DEF Tracks
<1>u. \A i \in 1 .. k : UpTo(O, N, k, i) <=> \E m \in 1 .. n : h[m] = i
  BY DEF Tracks
<1>e. \A m \in 1 .. n : In(O, h[m] + 1, k) = In(N, h[m] + 1, k) + (n - m)
  BY DEF Tracks
<1>2. \A i \in 1 .. k : /\ In(O, i + 1, k + 1) = In(O, i + 1, k)
                        /\ In(N, i + 1, k + 1) = In(N, i + 1, k) + 1
                        /\ In(O, i + 1, k) \in Nat /\ In(N, i + 1, k) \in Nat
  <2> SUFFICES ASSUME NEW i \in 1 .. k
               PROVE  /\ In(O, i + 1, k + 1) = In(O, i + 1, k)
                      /\ In(N, i + 1, k + 1) = In(N, i + 1, k) + 1
                      /\ In(O, i + 1, k) \in Nat /\ In(N, i + 1, k) \in Nat
    OBVIOUS
  <2>1. i + 1 \in 1 .. k + 1
    OBVIOUS
  <2> QED BY <2>1, InOne
<1>3. ~UpTo(O, N, k + 1, k + 1)
  BY DEF UpTo
<1>4. CASE h = <<>>
  <2>1. n = 0
    BY <1>4
  <2>2. \A i \in 1 .. k + 1 : ~UpTo(O, N, k + 1, i)
    BY <1>n, <1>u, <1>3, <2>1, UpToOne
  <2>3. <<>> \in Seq(1 .. k + 1) /\ Len(<<>>) = 0
    OBVIOUS
  <2>4. Tracks(O, N, k + 1, <<>>)
    BY <2>2, <2>3 DEF Tracks
  <2> QED BY <1>4, <2>4
<1>5. CASE h # <<>>
  <2>1. n # 0
    BY <1>1, <1>n, <1>5
  <2>2. h \in Seq(1 .. k + 1)
    BY <1>1
  <2>3. /\ f \in Seq(1 .. k + 1) /\ Len(f) = n - 1
        /\ \A m \in 1 .. n - 1 : f[m] = h[m]
    BY <1>5, <2>2, FrontProperties
  <2> HIDE DEF n, f
  <2>f. \A m \in 1 .. n - 1 : f[m] = h[m]
    BY <2>3
  <2>4. \A m, l \in 1 .. n - 1 : m < l => f[m] < f[l]
    BY <1>n, <1>i, <2>f
  <2>5. \A i \in 1 .. k + 1 : UpTo(O, N, k + 1, i) <=> \E m \in 1 .. n - 1 : f[m] = i
    <3> SUFFICES ASSUME NEW i \in 1 .. k + 1
                 PROVE  UpTo(O, N, k + 1, i) <=> \E m \in 1 .. n - 1 : f[m] = i
      OBVIOUS
    <3>1. CASE i = k + 1
      BY <1>n, <1>3, <2>f, <3>1
    <3>2. CASE i \in 1 .. k
      <4>1. UpTo(O, N, k + 1, i)
            <=> UpTo(O, N, k, i) /\ In(N, i + 1, k) + 1 <= In(O, i + 1, k)
        BY <1>2, <3>2, UpToOne
      <4>2. ASSUME NEW m \in 1 .. n, h[m] = i
            PROVE  In(N, i + 1, k) + 1 <= In(O, i + 1, k) <=> m \in 1 .. n - 1
        BY <1>n, <1>e, <1>2, <3>2, <4>2
      <4>3. ASSUME UpTo(O, N, k + 1, i) PROVE \E m \in 1 .. n - 1 : f[m] = i
        <5>1. PICK m \in 1 .. n : h[m] = i
          BY <1>u, <3>2, <4>1, <4>3
        <5> QED BY <2>f, <4>1, <4>2, <4>3, <5>1
      <4>4. ASSUME NEW m \in 1 .. n - 1, f[m] = i PROVE UpTo(O, N, k + 1, i)
        <5>1. m \in 1 .. n /\ h[m] = i
          BY <1>n, <2>f, <4>4
        <5> QED BY <1>u, <3>2, <4>1, <4>2, <4>4, <5>1
      <4> QED BY <4>3, <4>4
    <3> QED BY <3>1, <3>2
  <2>6. \A m \in 1 .. n - 1 : In(O, f[m] + 1, k + 1) = In(N, f[m] + 1, k + 1) + (n - 1 - m)
    BY <1>n, <1>e, <1>2, <2>f
  <2>7. Tracks(O, N, k + 1, f)
    BY <2>3, <2>4, <2>5, <2>6 DEF Tracks
  <2> QED BY <1>5, <2>7 DEF f
<1> QED BY <1>4, <1>5

(* A path is what a sequence of indices of d picks. *)
Picks(d, h, p) == Len(h) = Len(p) /\ \A m \in 1 .. Len(h) : p[m] = d[h[m]]

LEMMA PicksMore ==
    ASSUME NEW A, NEW d \in Seq(A), NEW k \in 1 .. Len(d), NEW p \in Seq(A), NEW h \in Seq(1 .. Len(d)),
           Picks(d, h, p)
    PROVE  Picks(d, Append(h, k), Append(p, d[k]))
<1> DEFINE n == Len(h)
           H == Append(h, k)
           P == Append(p, d[k])
<1>1. n \in Nat /\ Len(p) = n /\ \A m \in 1 .. n : p[m] = d[h[m]]
  BY DEF Picks
<1>2. Len(H) = n + 1 /\ H[n + 1] = k /\ \A m \in 1 .. n : H[m] = h[m]
  BY AppendProperties
<1>3. d[k] \in A
  OBVIOUS
<1>4. Len(P) = n + 1 /\ P[n + 1] = d[k] /\ \A m \in 1 .. n : P[m] = p[m]
  BY <1>1, <1>3, AppendProperties
<1> HIDE DEF n, H, P
<1>5. \A m \in 1 .. n + 1 : P[m] = d[H[m]]
  <2>1. \A m \in 1 .. n + 1 : m = n + 1 \/ m \in 1 .. n
    BY <1>1
  <2> QED BY <1>1, <1>2, <1>4, <2>1
<1>6. Picks(d, H, P)
  BY <1>2, <1>4, <1>5 DEF Picks
<1> QED BY <1>6 DEF H, P

LEMMA PicksFront ==
    ASSUME NEW A, NEW d \in Seq(A), NEW p \in Seq(A), NEW h \in Seq(1 .. Len(d)), h # <<>>,
           Picks(d, h, p)
    PROVE  p # <<>> /\ Picks(d, Front(h), Front(p))
<1> DEFINE n == Len(h)
           H == Front(h)
           P == Front(p)
<1>1. n \in Nat \ {0} /\ Len(p) = n /\ \A m \in 1 .. n : p[m] = d[h[m]]
  BY DEF Picks
<1>2. Len(H) = n - 1 /\ \A m \in 1 .. n - 1 : H[m] = h[m]
  BY FrontProperties
<1>3. p # <<>>
  BY <1>1
<1>4. Len(P) = n - 1 /\ \A m \in 1 .. n - 1 : P[m] = p[m]
  BY <1>1, <1>3, FrontProperties
<1> HIDE DEF n, H, P
<1>5. \A m \in 1 .. n - 1 : P[m] = d[H[m]]
  <2>1. \A m \in 1 .. n - 1 : m \in 1 .. n
    BY <1>1
  <2> QED BY <1>1, <1>2, <1>4, <2>1
<1>6. Picks(d, H, P)
  BY <1>2, <1>4, <1>5 DEF Picks
<1> QED BY <1>3, <1>6 DEF H, P

Stay(d) == {i \in 1 .. Len(d) : Ordinary(d[i])}
Climb(d) == {i \in 1 .. Len(d) : IsUp(d[i])}

(* What is kept of a path is picked by the indices that stay. *)
LEMMA DownTracks ==
    ASSUME NEW A, NEW d \in Seq(A)
    PROVE  \E h : Tracks(Stay(d), Climb(d), Len(d), h) /\ Picks(d, h, FoldLeft(Down, <<>>, d))
<1> DEFINE n == Len(d)
           O == Stay(d)
           N == Climb(d)
<1>1. PICK g \in [0 .. n -> Seq(A)] :
          /\ g[0] = <<>> /\ FoldLeft(Down, <<>>, d) = g[n]
          /\ \A k \in 1 .. n : g[k] = Down(g[k - 1], d[k])
  BY DownHistory
<1>2. n \in Nat
  OBVIOUS
<1> DEFINE I == {k \in 0 .. n : \E h : Tracks(O, N, k, h) /\ Picks(d, h, g[k])}
<1>3. 0 \in I
  <2>1. Tracks(O, N, 0, <<>>)
    BY DEF Tracks
  <2>2. Picks(d, <<>>, <<>>)
    BY DEF Picks
  <2> HIDE DEF O, N
  <2> QED BY <1>1, <1>2, <2>1, <2>2
<1>4. \A k \in 1 .. n : k - 1 \in I => k \in I
  <2> SUFFICES ASSUME NEW k \in 1 .. n, k - 1 \in I PROVE k \in I
    OBVIOUS
  <2> DEFINE j == k - 1
             p == g[j]
  <2>1. j \in Nat /\ j + 1 = k /\ j \in 0 .. n
    BY <1>2
  <2>2. PICK h : Tracks(O, N, j, h) /\ Picks(d, h, p)
    OBVIOUS
  <2>3. p \in Seq(A) /\ g[k] = Down(p, d[k])
    BY <1>1, <2>1
  <2>4. /\ k \in O <=> Ordinary(d[k])
        /\ k \in N <=> d[k] = ".."
    BY DEF Stay, Climb, IsUp
  <2>5. h \in Seq(1 .. n)
    <3>1. h \in Seq(1 .. j)
      <4> HIDE DEF j
      <4> QED BY <2>2 DEF Tracks
    <3>2. 1 .. j \subseteq 1 .. n
      BY <1>2, <2>1
    <3> HIDE DEF j, n
    <3> QED BY <3>1, <3>2, SeqMonotonic
  <2> HIDE DEF I, O, N, j, p
  <2>6. \E e : Tracks(O, N, k, e) /\ Picks(d, e, g[k])
    <3>1. CASE d[k] \in {"", "."}
      <4>1. k \notin O /\ k \notin N /\ g[k] = p
        BY <2>3, <2>4, <3>1 DEF Ordinary, Down
      <4>2. Tracks(O, N, j + 1, h)
        BY <2>1, <2>2, <4>1, TracksNeither
      <4> QED BY <2>1, <2>2, <4>1, <4>2
    <3>2. CASE Ordinary(d[k])
      <4>1. k \in O /\ k \notin N /\ g[k] = Append(p, d[k])
        BY <2>3, <2>4, <3>2 DEF Ordinary, Down
      <4>2. Tracks(O, N, j + 1, Append(h, j + 1))
        BY <2>1, <2>2, <4>1, TracksOrdinary
      <4>3. Picks(d, Append(h, k), Append(p, d[k]))
        BY <2>2, <2>3, <2>5, PicksMore
      <4> QED BY <2>1, <4>1, <4>2, <4>3
    <3>3. CASE d[k] = ".."
      <4>1. k \notin O /\ k \in N /\ g[k] = IF p = <<>> THEN <<>> ELSE Front(p)
        BY <2>3, <2>4, <3>3 DEF Ordinary, Down
      <4>2. Tracks(O, N, j + 1, IF h = <<>> THEN <<>> ELSE Front(h))
        BY <2>1, <2>2, <4>1, TracksUp
      <4>3. CASE h = <<>>
        <5>1. p = <<>>
          BY <2>2, <2>3, <4>3 DEF Picks
        <5> QED BY <2>1, <2>2, <4>1, <4>2, <4>3, <5>1
      <4>4. CASE h # <<>>
        <5>1. p # <<>> /\ Picks(d, Front(h), Front(p))
          BY <2>2, <2>3, <2>5, <4>4, PicksFront
        <5> QED BY <2>1, <4>1, <4>2, <4>4, <5>1
      <4> QED BY <4>3, <4>4
    <3> QED BY <3>1, <3>2, <3>3 DEF Ordinary
  <2> QED BY <2>1, <2>6 DEF I
<1> HIDE DEF I
<1>5. n \in I
  <2>1. \A k \in 0 .. n : k \in I
    <3> HIDE DEF n
    <3> QED BY <1>2, <1>3, <1>4, Induction
  <2> QED BY <1>2, <2>1
<1> QED BY <1>1, <1>5 DEF I

Increasing(s) == \A m, l \in 1 .. Len(s) : m < l => s[m] < s[l]

Members(s) == {s[m] : m \in 1 .. Len(s)}

Good(S, k, p) == Increasing(p) /\ Members(p) = {i \in 1 .. k : i \in S}

LEMMA AmongIndices ==
    ASSUME NEW A, NEW s \in Seq(A), NEW S
    PROVE  (\A i \in 1 .. Len(s) : s[i] = i)
           => Among(s, S) \in Seq(A) /\ Good(S, Len(s), Among(s, S))
<1> DEFINE a == Among(s, S)
<1>1. PICK g \in [0 .. Len(s) -> Seq(A)] :
          /\ g[0] = <<>> /\ a = g[Len(s)]
          /\ \A k \in 1 .. Len(s) :
                 g[k] = IF s[k] \in S THEN Append(g[k - 1], s[k]) ELSE g[k - 1]
  BY AmongHistory
<1> HIDE DEF a
<1> DEFINE n == Len(s)
           I == {k \in 0 .. n : Good(S, k, g[k])}
<1>n. n \in Nat
  OBVIOUS
<1>0. SUFFICES ASSUME \A i \in 1 .. n : s[i] = i
               PROVE  a \in Seq(A) /\ Good(S, n, a)
  BY DEF a
<1> HIDE DEF n
<1>2. Good(S, 0, g[0])
  BY <1>1 DEF Increasing, Members, Good
<1>3. ASSUME NEW k \in 1 .. n, Good(S, k - 1, g[k - 1])
      PROVE  Good(S, k, g[k])
  <2> DEFINE j == k - 1
             p == g[j]
             t == Append(p, k)
             m == Len(p)
  <2>1. j \in Nat /\ j + 1 = k /\ j \in 0 .. n /\ k \in Int
    BY <1>n
  <2>2. p \in Seq(A) /\ s[k] = k /\ k \in A /\ g[k] = IF k \in S THEN t ELSE p
    <3>1. s[k] = k /\ s[k] \in A
      BY <1>0 DEF n
    <3> QED BY <1>1, <2>1, <3>1 DEF n
  <2>3. Increasing(p) /\ Members(p) = {i \in 1 .. j : i \in S}
    BY <1>3 DEF Good
  <2>4. CASE k \notin S
    <3>1. {i \in 1 .. j : i \in S} = {i \in 1 .. k : i \in S}
      BY <2>1, <2>4
    <3> QED BY <2>2, <2>3, <2>4, <3>1 DEF Good
  <2>5. CASE k \in S
    <3>1. m \in Nat /\ Len(t) = m + 1 /\ t[m + 1] = k /\ \A i \in 1 .. m : t[i] = p[i]
      BY <2>2, AppendProperties
    <3>2. \A i \in 1 .. m : p[i] \in 1 .. j
      BY <2>3 DEF Members
    <3> HIDE DEF p, j, t
    <3>3. \A i, l \in 1 .. m : i < l => p[i] < p[l]
      BY <2>3 DEF Increasing, m
    <3>4. Members(p) = {p[i] : i \in 1 .. m}
      BY DEF Members, m
    <3> HIDE DEF m
    <3>5. \A i \in 1 .. m + 1 : i = m + 1 \/ i \in 1 .. m
      BY <3>1
    <3>6. ASSUME NEW i \in 1 .. m + 1, NEW l \in 1 .. m + 1, i < l
          PROVE  t[i] < t[l]
      <4>1. i \in 1 .. m
        BY <3>1, <3>6
      <4>2. CASE l \in 1 .. m
        BY <3>1, <3>3, <3>6, <4>1, <4>2
      <4>3. CASE l = m + 1
        <5>1. t[i] = p[i] /\ t[l] = k /\ p[i] \in 1 .. j
          BY <3>1, <3>2, <4>1, <4>3
        <5> QED BY <2>1, <5>1
      <4> QED BY <3>5, <4>2, <4>3
    <3>7. {t[i] : i \in 1 .. m + 1} = Members(p) \cup {k}
      <4>1. \A x : (\E i \in 1 .. m + 1 : x = t[i]) <=> x = k \/ \E i \in 1 .. m : x = p[i]
        <5>1. m + 1 \in 1 .. m + 1 /\ \A i \in 1 .. m : i \in 1 .. m + 1
          BY <3>1
        <5> QED BY <3>1, <3>5, <5>1
      <4>2. \A x : x \in {t[i] : i \in 1 .. m + 1} <=> \E i \in 1 .. m + 1 : x = t[i]
        OBVIOUS
      <4>3. \A x : x \in Members(p) <=> \E i \in 1 .. m : x = p[i]
        BY <3>4
      <4> QED BY <4>1, <4>2, <4>3
    <3>8. Members(p) \cup {k} = {i \in 1 .. k : i \in S}
      <4>1. \A i : i \in 1 .. k <=> i \in 1 .. j \/ i = k
        BY <2>1
      <4> QED BY <2>3, <2>5, <4>1
    <3>9. Good(S, k, t)
      BY <3>1, <3>6, <3>7, <3>8 DEF Increasing, Members, Good
    <3> QED BY <2>2, <2>5, <3>9
  <2> QED BY <2>4, <2>5
<1>4. Good(S, n, g[n])
  <2>1. 0 \in I
    BY <1>n, <1>2
  <2>2. \A k \in 1 .. n : k - 1 \in I => k \in I
    BY <1>3
  <2>3. \A k \in 0 .. n : k \in I
    <3> HIDE DEF I
    <3> QED BY <1>n, <2>1, <2>2, Induction
  <2> QED BY <1>n, <2>3
<1>5. a \in Seq(A)
  <2>1. n \in 0 .. n
    BY <1>n
  <2> QED BY <1>1, <2>1 DEF n
<1> QED BY <1>1, <1>4, <1>5 DEF n

LEMMA IncreasingDiffer ==
    ASSUME NEW s \in Seq(Nat), NEW t \in Seq(Nat), Increasing(s), Increasing(t),
           NEW m \in 1 .. Len(s),
           \A k \in 1 .. m - 1 : k <= Len(t) /\ s[k] = t[k],
           m > Len(t) \/ s[m] < t[m]
    PROVE  Members(s) # Members(t)
<1>1. Len(s) \in Nat /\ Len(t) \in Nat
  OBVIOUS
<1>2. (\A k \in 1 .. Len(s) : s[k] \in Nat) /\ \A k \in 1 .. Len(t) : t[k] \in Nat
  OBVIOUS
<1>3. ASSUME NEW l \in 1 .. Len(t), t[l] = s[m] PROVE FALSE
  <2>1. CASE l < m
    <3>1. s[l] = s[m]
      BY <1>1, <1>3, <2>1
    <3>2. l \in 1 .. Len(s)
      BY <1>1, <2>1
    <3>3. s[l] < s[m]
      BY <2>1, <3>2 DEF Increasing
    <3> QED BY <1>2, <3>1, <3>3
  <2>2. CASE l >= m
    <3>1. m \in 1 .. Len(t) /\ s[m] < t[m]
      BY <1>1, <2>2
    <3>2. m = l \/ t[m] < t[l]
      BY <1>1, <2>2, <3>1 DEF Increasing
    <3> QED BY <1>2, <1>3, <3>1, <3>2
  <2> QED BY <1>1, <2>1, <2>2
<1>4. s[m] \in Members(s) /\ s[m] \notin Members(t)
  BY <1>3 DEF Members
<1> QED BY <1>4

LEMMA IncreasingUnique ==
    ASSUME NEW s \in Seq(Nat), NEW t \in Seq(Nat), Increasing(s), Increasing(t),
           Members(s) = Members(t)
    PROVE  s = t
<1> SUFFICES ASSUME s # t PROVE FALSE
  OBVIOUS
<1>1. PICK m \in Nat \ {0} :
          /\ \A k \in 1 .. m - 1 : k <= Len(s) /\ k <= Len(t) /\ s[k] = t[k]
          /\ m <= Len(s) \/ m <= Len(t)
          /\ m > Len(s) \/ m > Len(t) \/ s[m] # t[m]
  BY FirstDifference
<1>2. Len(s) \in Nat /\ Len(t) \in Nat
  OBVIOUS
<1>3. m <= Len(s) => s[m] \in Nat
  OBVIOUS
<1>4. m <= Len(t) => t[m] \in Nat
  OBVIOUS
<1>5. CASE m <= Len(s) /\ (m > Len(t) \/ s[m] < t[m])
  <2>1. m \in 1 .. Len(s) /\ (m > Len(t) \/ s[m] < t[m])
        /\ \A k \in 1 .. m - 1 : k <= Len(t) /\ s[k] = t[k]
    BY <1>1, <1>2, <1>5
  <2> QED BY <2>1, IncreasingDiffer
<1>6. CASE m <= Len(t) /\ (m > Len(s) \/ t[m] < s[m])
  <2>1. m \in 1 .. Len(t) /\ (m > Len(s) \/ t[m] < s[m])
        /\ \A k \in 1 .. m - 1 : k <= Len(s) /\ t[k] = s[k]
    BY <1>1, <1>2, <1>6
  <2> QED BY <2>1, IncreasingDiffer
<1> QED BY <1>1, <1>2, <1>3, <1>4, <1>5, <1>6

LEMMA StaysIsUpTo ==
    ASSUME NEW A, NEW d \in Seq(A), NEW i \in 1 .. Len(d)
    PROVE  Stays(d, i) <=> UpTo(Stay(d), Climb(d), Len(d), i)
<1>1. ASSUME NEW j \in i + 1 .. Len(d)
      PROVE  /\ Counted(d, i + 1, j, IsUp) = In(Climb(d), i + 1, j)
             /\ Counted(d, i + 1, j, Ordinary) = In(Stay(d), i + 1, j)
  <2>1. \A k \in i + 1 .. j : k \in 1 .. Len(d)
    OBVIOUS
  <2>2. {k \in i + 1 .. j : IsUp(d[k])} = {k \in i + 1 .. j : k \in Climb(d)}
    BY <2>1 DEF Climb
  <2>3. {k \in i + 1 .. j : Ordinary(d[k])} = {k \in i + 1 .. j : k \in Stay(d)}
    BY <2>1 DEF Stay
  <2> QED BY <2>2, <2>3 DEF Counted, In
<1>2. i \in Stay(d) <=> Ordinary(d[i])
  BY DEF Stay
<1> QED BY <1>1, <1>2 DEF Stays, UpTo

LEMMA KeptIsMeaning ==
    ASSUME NEW path \in Seq(Segments)
    PROVE  Kept(path) = Meaning(path)
<1> DEFINE d == Decoded(path)
           n == Len(d)
           s == [i \in DOMAIN d |-> i]
           S == {i \in DOMAIN d : Stays(d, i)}
           a == Among(s, S)
           k == Kept(path)
<1>1. d \in Seq(Segments) /\ k \in Seq(Segments)
  BY KeptType
<1>2. PICK h : Tracks(Stay(d), Climb(d), n, h) /\ Picks(d, h, k)
  <2> HIDE DEF d
  <2>1. \E h : Tracks(Stay(d), Climb(d), n, h) /\ Picks(d, h, FoldLeft(Down, <<>>, d))
    BY <1>1, DownTracks
  <2> QED BY <2>1 DEF Kept, d
<1> HIDE DEF d, k
<1>3. n \in Nat /\ DOMAIN d = 1 .. n
  BY <1>1
<1>4. s \in Seq(1 .. n) /\ Len(s) = n /\ \A i \in 1 .. Len(s) : s[i] = i
  BY <1>3
<1>5. a \in Seq(1 .. n) /\ Increasing(a) /\ Members(a) = {i \in 1 .. n : i \in S}
  <2> DEFINE A == 1 .. n
  <2>1. s \in Seq(A)
    BY <1>4
  <2> HIDE DEF A, s, S
  <2>2. a \in Seq(A) /\ Good(S, Len(s), a)
    BY <1>4, <2>1, AmongIndices
  <2> QED BY <1>4, <2>2 DEF Good, A
<1> HIDE DEF s
<1>6. h \in Seq(1 .. n) /\ Increasing(h)
      /\ \A i \in 1 .. n : UpTo(Stay(d), Climb(d), n, i) <=> \E m \in 1 .. Len(h) : h[m] = i
  BY <1>2 DEF Tracks, Increasing
<1>7. Members(h) = Members(a)
  <2>1. \A i \in 1 .. n : i \in S <=> UpTo(Stay(d), Climb(d), n, i)
    BY <1>1, <1>3, StaysIsUpTo
  <2>2. \A m \in 1 .. Len(h) : h[m] \in 1 .. n
    BY <1>6
  <2>3. \A i : i \in Members(h) <=> \E m \in 1 .. Len(h) : h[m] = i
    BY DEF Members
  <2> HIDE DEF S, n, a
  <2>4. \A i : i \in Members(h) <=> i \in 1 .. n /\ i \in S
    BY <1>6, <2>1, <2>2, <2>3
  <2>5. \A i : i \in Members(a) <=> i \in 1 .. n /\ i \in S
    BY <1>5
  <2> QED BY <2>4, <2>5
<1>8. h = a
  <2>1. 1 .. n \subseteq Nat
    OBVIOUS
  <2> HIDE DEF n, a
  <2>2. h \in Seq(Nat) /\ a \in Seq(Nat)
    BY <1>5, <1>6, <2>1, SeqMonotonic
  <2> QED BY <1>5, <1>6, <1>7, <2>2, IncreasingUnique
<1>9. Meaning(path) = [i \in DOMAIN h |-> d[h[i]]]
  BY <1>8 DEF Meaning, d, s
<1>10. k = [i \in DOMAIN h |-> d[h[i]]]
  <2>1. Len(h) = Len(k) /\ (\A m \in 1 .. Len(h) : k[m] = d[h[m]])
        /\ DOMAIN h = 1 .. Len(h)
    BY <1>2, <1>6 DEF Picks
  <2>2. k = [m \in 1 .. Len(k) |-> k[m]]
    BY <1>1
  <2> QED BY <2>1, <2>2
<1> QED BY <1>9, <1>10 DEF k

-----------------------------------------------------------------------------
(* One link for each resource *)

(* A URL that is not refused. *)
Fine(u) ==
    /\ u \in Urls /\ u.host \notin Refused
    /\ \A i \in DOMAIN u.path : u.path[i] \notin BadEscapes

CanonicalPort(u) == IF u.port = DefaultPort(u.scheme) THEN NoPort ELSE u.port

LEMMA NormalizedOfFine ==
    ASSUME NEW u, Fine(u)
    PROVE  /\ Normalized(u, FALSE) \in Urls
           /\ Normalized(u, FALSE).scheme = u.scheme /\ Normalized(u, FALSE).host = u.host
           /\ Normalized(u, FALSE).port = CanonicalPort(u)
           /\ Normalized(u, FALSE).path = NormalizePath(u.path)
           /\ Normalized(u, FALSE).query = NormalizeQuery(u.query)
<1> DEFINE port == CanonicalPort(u)
           path == NormalizePath(u.path)
           query == NormalizeQuery(u.query)
           v == Normalized(u, FALSE)
<1>1. u \in Urls /\ u.query \in Seq(Params) /\ u.path \in Seq(Segments) /\ u.port \in Ports
  BY UrlFields DEF Fine
<1>2. v = [u EXCEPT !.port = port, !.path = path, !.query = query]
  BY DEF Fine, Normalized, CanonicalPort
<1>3. port \in Ports
  <2>1. NoPort \in Ports
    BY DEF NoPort, Ports
  <2> QED BY <1>1, <2>1 DEF CanonicalPort
<1>4. path \in Seq(Segments)
  BY <1>1, NormalizedPath DEF Fine
<1>5. query \in Seq(Params)
  BY <1>1, NormalizedQuery
<1> HIDE DEF v, port, path, query
<1>6. v \in Urls /\ v.scheme = u.scheme /\ v.host = u.host
      /\ v.port = port /\ v.path = path /\ v.query = query
  BY <1>1, <1>2, <1>3, <1>4, <1>5 DEF Urls
<1> QED BY <1>6 DEF v, port, path, query

LEMMA PortsAgree ==
    ASSUME NEW u, NEW v, u.scheme = v.scheme
    PROVE  CanonicalPort(u) = CanonicalPort(v) <=> EffectivePort(u) = EffectivePort(v)
<1>1. DefaultPort(u.scheme) # NoPort /\ DefaultPort(v.scheme) = DefaultPort(u.scheme)
  BY DEF DefaultPort, NoPort
<1> QED BY <1>1 DEF CanonicalPort, EffectivePort

LEMMA UrlsAgree ==
    ASSUME NEW u \in Urls, NEW v \in Urls
    PROVE  u = v <=> /\ u.scheme = v.scheme /\ u.host = v.host /\ u.port = v.port
                     /\ u.path = v.path /\ u.query = v.query
BY DEF Urls

(* URLs name the same resource exactly if their parts, each normalised by  *)
(* itself, agree.                                                          *)
LEMMA ResourceParts ==
    ASSUME NEW u \in Urls, NEW v \in Urls
    PROVE  SameResource(u, v)
           <=> /\ u.scheme = v.scheme /\ u.host = v.host /\ CanonicalPort(u) = CanonicalPort(v)
               /\ NormalizePath(u.path) = NormalizePath(v.path)
               /\ NormalizeQuery(u.query) = NormalizeQuery(v.query)
<1>1. /\ u.path \in Seq(Segments) /\ u.query \in Seq(Params)
      /\ v.path \in Seq(Segments) /\ v.query \in Seq(Params)
  BY UrlFields
<1>2. u.scheme = v.scheme
      => (CanonicalPort(u) = CanonicalPort(v) <=> EffectivePort(u) = EffectivePort(v))
  BY PortsAgree
<1>3. NormalizePath(u.path) = NormalizePath(v.path)
      <=> /\ Meaning(u.path) = Meaning(v.path)
          /\ Meaning(u.path) # <<>> => TwoSlashes(u.path) = TwoSlashes(v.path)
  BY <1>1, PathsAgree, KeptIsMeaning
<1>4. NormalizeQuery(u.query) = NormalizeQuery(v.query)
      <=> /\ Wanted(u.query) = Wanted(v.query)
          /\ \A p \in Wanted(u.query) : Occurs(u.query, p) = Occurs(v.query, p)
  <2>1. \A q, p : Occurs(q, p) = Count(q, p)
    BY DEF Occurs, Count
  <2> QED BY <1>1, <2>1, QueriesAgree
<1> QED BY <1>2, <1>3, <1>4 DEF SameResource

LEMMA NormalizedIsResource ==
    ASSUME NEW u, NEW v, Fine(u), Fine(v)
    PROVE  Normalized(u, FALSE) = Normalized(v, FALSE) <=> SameResource(u, v)
<1> DEFINE c == Normalized(u, FALSE)
           e == Normalized(v, FALSE)
<1>1. u \in Urls /\ v \in Urls
  BY DEF Fine
<1>2. /\ c \in Urls /\ c.scheme = u.scheme /\ c.host = u.host /\ c.port = CanonicalPort(u)
      /\ c.path = NormalizePath(u.path) /\ c.query = NormalizeQuery(u.query)
  BY NormalizedOfFine
<1>3. /\ e \in Urls /\ e.scheme = v.scheme /\ e.host = v.host /\ e.port = CanonicalPort(v)
      /\ e.path = NormalizePath(v.path) /\ e.query = NormalizeQuery(v.query)
  BY NormalizedOfFine
<1> HIDE DEF c, e
<1>4. c = e <=> /\ c.scheme = e.scheme /\ c.host = e.host /\ c.port = e.port
                /\ c.path = e.path /\ c.query = e.query
  BY <1>2, <1>3, UrlsAgree
<1> QED BY <1>1, <1>2, <1>3, <1>4, ResourceParts DEF c, e

LEMMA CanonicalLiteral ==
    ASSUME NEW u \in Urls, Literal(u), ~Unfit(u), NEW strict
    PROVE  Unescaped(u) = u /\ Canonical(u, strict) = Normalized(u, strict)
<1>1. Unescaped(u) = u
  BY UnescapedLiteral DEF Literal, Plain
<1> QED BY <1>1 DEF Canonical

(* Two URLs in which nothing looks like an entity are normalised to one    *)
(* exactly if they name the same resource.                                 *)
THEOREM CanonicalIsResource ==
    ASSUME NEW u, NEW v, Fine(u), Fine(v), Literal(u), Literal(v), ~Unfit(u), ~Unfit(v)
    PROVE  Canonical(u, FALSE) = Canonical(v, FALSE) <=> SameResource(u, v)
<1>1. Canonical(u, FALSE) = Normalized(u, FALSE) /\ Canonical(v, FALSE) = Normalized(v, FALSE)
  BY CanonicalLiteral DEF Fine
<1> QED BY <1>1, NormalizedIsResource

(* A normal form names what another URL names only if it is the normal     *)
(* form of that URL.                                                       *)
LEMMA NormalResource ==
    ASSUME NEW v, NormalUrl(v), NEW u, Fine(u)
    PROVE  SameResource(v, u) <=> v = Normalized(u, FALSE)
<1> DEFINE c == Normalized(u, FALSE)
<1>1. u \in Urls /\ v \in Urls
  BY DEF Fine, NormalUrl
<1>2. /\ c \in Urls /\ c.scheme = u.scheme /\ c.host = u.host /\ c.port = CanonicalPort(u)
      /\ c.path = NormalizePath(u.path) /\ c.query = NormalizeQuery(u.query)
  BY NormalizedOfFine
<1> HIDE DEF c
<1>3. v = c <=> /\ v.scheme = c.scheme /\ v.host = c.host /\ v.port = c.port
                /\ v.path = c.path /\ v.query = c.query
  BY <1>1, <1>2, UrlsAgree
<1>4. CanonicalPort(v) = v.port /\ NormalizePath(v.path) = v.path /\ NormalizeQuery(v.query) = v.query
  BY DEF NormalUrl, CanonicalPort
<1> QED BY <1>1, <1>2, <1>3, <1>4, ResourceParts DEF c

(* A page that is accepted has a base to resolve its anchors with, unless  *)
(* unescaping once more makes another URL of it.                           *)
LEMMA BaseIsResolvable ==
    ASSUME PageOk, page.base # Malformed, Accepted, LiteralBase
    PROVE  ResolutionBase(DocumentBase(page)) # NoUrl
<1> DEFINE base == DocumentBase(page)
           b == Canonical(Unescaped(base), FALSE)
           P == [b EXCEPT !.path = Append(@, "")]
           Q == [b EXCEPT !.query[Len(b.query)].value = Append(@, Slash)]
<1>1. base \in Urls /\ Canonical(base, FALSE) # NoUrl
  BY BaseType DEF Accepted, DocumentBase
<1>2. Unescaped(base) = base
  BY <1>1, CanonicalLiteral DEF LiteralBase
<1>3. b # NoUrl /\ b \in Urls
  BY <1>1, <1>2, CanonicalType
<1>4. \/ ResolutionBase(base) = b
      \/ ResolutionBase(base) = P
      \/ b.query # <<>> /\ ResolutionBase(base) = Q
  BY DEF ResolutionBase
<1> HIDE DEF base
<1>5. P \in Urls /\ (b.query # <<>> => Q \in Urls)
  <2> HIDE DEF b
  <2> QED BY <1>3, WithSlashType
<1> HIDE DEF b, P, Q
<1>6. ResolutionBase(base) \in Urls
  BY <1>3, <1>4, <1>5
<1> QED BY <1>6, NoUrlAssumption DEF base

(* The URL that an absolute anchor writes. *)
Written(ref) == Absolute(ref, ref.scheme)

LEMMA UsableIsFine ==
    ASSUME NEW ref \in References, Usable(ref)
    PROVE  Fine(Written(ref)) /\ Unescaped(ref) = ref
<1>1. ref.kind = "absolute"
  BY DEF Usable
<1>2. ref \in [kind : {"absolute"}, scheme : {"http", "https"}, host : Hosts, port : Ports,
               path : Seq(Segments), query : Seq(Params)]
  BY <1>1 DEF References
<1>3. Written(ref) \in Urls
  BY <1>2 DEF Absolute, Urls, Written
<1>4. /\ Written(ref).host = ref.host /\ Written(ref).query = ref.query
      /\ Written(ref).path = ref.path
  BY DEF Absolute, Written
<1>5. ref.path \in Seq(Segments) /\ ref.query \in Seq(Params)
  BY <1>2
<1>6. Literally(ref.path) = ref.path /\ Unescape(ref.query) = ref.query
  BY <1>5, LiterallyType, UnescapePlain DEF Usable, Literal, Plain
<1>7. Unescaped(ref) = [ref EXCEPT !.path = ref.path, !.query = ref.query]
  BY <1>6 DEF Unescaped, Literally
<1>8. Unescaped(ref) = ref
  BY <1>2, <1>7
<1> HIDE DEF Written
<1> QED BY <1>3, <1>4, <1>8 DEF Fine, Usable

LEMMA WrittenResource ==
    /\ \A a, b : SameResource(Written(a), Written(b)) <=> SameResource(a, b)
    /\ \A u, b : SameResource(u, Written(b)) <=> SameResource(u, b)
BY DEF SameResource, Absolute, EffectivePort, Written

(* What becomes of a usable anchor. *)
LEMMA UsableTarget ==
    ASSUME IInv, pc = "visit", LiteralBase, NEW k \in DOMAIN page.anchors, Usable(page.anchors[k])
    PROVE  /\ page.anchors[k] \in References /\ page.anchors[k].kind = "absolute"
           /\ Fine(Written(page.anchors[k]))
           /\ Target(k) = Normalized(Written(page.anchors[k]), FALSE)
           /\ Target(k) # NoUrl
<1> DEFINE ref == page.anchors[k]
           b == ResolutionBase(DocumentBase(page))
<1>1. PageOk /\ Accepted /\ AllLinked /\ next = Len(page.anchors) + 1 /\ page.base # Malformed
  BY DEF IInv
<1>2. k \in 1 .. next - 1
  BY <1>1 DEF PageOk
<1>3. ref \in References /\ ref.kind = "absolute"
  BY <1>1, <1>2 DEF AllLinked, Usable
<1>4. Fine(Written(ref)) /\ Unescaped(ref) = ref /\ ~Unfit(ref)
  BY <1>3, UsableIsFine DEF Usable
<1>5. b # NoUrl
  BY <1>1, BaseIsResolvable
<1>6. Join(b, ref) = Written(ref)
  BY <1>3 DEF Join, Written
<1>7. Target(k) = Normalized(Written(ref), FALSE)
  BY <1>4, <1>5, <1>6 DEF Target, Resolve
<1>8. Target(k) # NoUrl
  BY <1>4, <1>7, NormalizedOfFine, NoUrlAssumption
<1> QED BY <1>3, <1>4, <1>7, <1>8

(* The invariant relates links to targets; that targets are equal exactly  *)
(* when the anchors name the same resource is NormalizedIsResource.        *)
LEMMA FirstIsLinked ==
    ASSUME IInv, pc = "visit", LiteralBase, NEW i \in DOMAIN page.anchors,
           \A k \in 1 .. i : Usable(page.anchors[k])
    PROVE  Linked(i) <=> ~\E k \in 1 .. i - 1 : SameResource(page.anchors[k], page.anchors[i])
<1> DEFINE a(k) == Written(page.anchors[k])
<1>1. PageOk /\ AllLinked /\ next = Len(page.anchors) + 1
  BY DEF IInv
<1>2. Len(page.anchors) \in Nat /\ DOMAIN page.anchors = 1 .. Len(page.anchors)
  BY <1>1 DEF PageOk
<1>3. i \in 1 .. i /\ i \in 1 .. next - 1 /\ \A k \in 1 .. i : k \in DOMAIN page.anchors
  BY <1>1, <1>2
<1>4. \A k \in 1 .. i : Fine(a(k)) /\ Target(k) = Normalized(a(k), FALSE) /\ Target(k) # NoUrl
  BY <1>3, UsableTarget
<1> HIDE DEF a
<1>5. Linked(i) <=> \A k \in 1 .. i - 1 : Target(k) # Target(i)
  BY <1>1, <1>3, <1>4 DEF AllLinked
<1>6. ASSUME NEW k \in 1 .. i - 1
      PROVE  Target(k) = Target(i) <=> SameResource(page.anchors[k], page.anchors[i])
  <2>1. k \in 1 .. i
    BY <1>2
  <2>2. Target(k) = Target(i) <=> SameResource(a(k), a(i))
    BY <1>3, <1>4, <2>1, NormalizedIsResource
  <2> QED BY <2>2, WrittenResource DEF a
<1> QED BY <1>5, <1>6

(* Two absolute anchors share a link exactly when they name the same       *)
(* resource, and the link is that of the first.                            *)
THEOREM OneLink == Spec => []OneLinkPerResource
<1>1. IInv => OneLinkPerResource
  BY FirstIsLinked DEF OneLinkPerResource, Linked
<1> QED BY <1>1, InvariantHolds, PTL

-----------------------------------------------------------------------------
(* A relative anchor is resolved in the directory of the base *)

(* The path without its last segment. *)
Above(path) == IF path = <<>> THEN <<>> ELSE Front(path)

LEMMA DecodedFixed ==
    ASSUME NEW p \in Seq(Segments), \A i \in 1 .. Len(p) : Decode[p[i]] = p[i]
    PROVE  Decoded(p) = p
BY DEF Decoded

LEMMA TidyPath ==
    ASSUME NEW p \in Seq(Segments), Tidy(p)
    PROVE  Decoded(p) = p /\ NormalizePath(p) = Walked(p)
<1> DEFINE e == ""
<1>1. DOMAIN p = 1 .. Len(p) /\ Len(p) \in Nat
  OBVIOUS
<1>2. \A i \in 1 .. Len(p) : Decode[p[i]] = p[i]
  BY <1>1 DEF Tidy
<1>3. Decoded(p) = p
  BY <1>2, DecodedFixed
<1>4. \A i \in 1 .. Len(p) - 1 : p[i] # e
  BY DEF Tidy
<1> HIDE DEF e
<1>5. ~(Len(p) > 1 /\ p[1] = e)
  BY <1>1, <1>4
<1>6. ~TwoSlashes(p)
  BY <1>5 DEF TwoSlashes, e
<1> QED BY <1>3, <1>6 DEF NormalizePath, NormPath, Walked

(* Whether or not the base ends with a slash, joining starts from what is  *)
(* kept of its directory.                                                  *)
LEMMA Directory ==
    ASSUME NEW p \in Seq(Segments), NEW P, P = Walked(p), NEW R
    PROVE  (/\ p # <<>> => Last(p) \notin {".", ".."}
            /\ R = IF p # <<>> /\ Last(p) = "" /\ P # <<>> THEN Append(P, "") ELSE P)
           => Above(R) = Walked(Above(p))
<1> DEFINE e == ""
           D == Above(p)
           x == Last(p)
           K == Walked(D)
<1>0. SUFFICES ASSUME p # <<>> => Last(p) \notin {".", ".."},
                      R = IF p # <<>> /\ x = e /\ P # <<>> THEN Append(P, e) ELSE P
               PROVE  Above(R) = K
  OBVIOUS
<1>1. CASE p = <<>>
  <2>1. P = <<>> /\ K = <<>>
    BY <1>1, WalkedNone DEF Above
  <2>2. R = P
    BY <1>0, <1>1
  <2> QED BY <2>1, <2>2 DEF Above
<1>2. CASE p # <<>>
  <2>1. x \in Segments /\ D \in Seq(Segments) /\ p = Append(D, x)
    BY <1>2, FrontAndLast DEF Above
  <2>2. K \in Seq(Segments)
    BY <2>1, WalkedType
  <2>3. P = Down(K, x)
    <3> HIDE DEF D, x
    <3> QED BY <2>1, WalkedOne
  <2>4. e \in Segments
    BY SegmentAssumption
  <2> HIDE DEF K
  <2>5. CASE x = e
    <3>1. P = K
      BY <2>3, <2>5 DEF Down
    <3>2. CASE K = <<>>
      <4>1. R = <<>>
        BY <1>0, <3>1, <3>2
      <4> QED BY <3>2, <4>1 DEF Above
    <3>3. CASE K # <<>>
      <4>1. R = Append(K, e)
        BY <1>0, <1>2, <2>5, <3>1, <3>3
      <4>2. Append(K, e) # <<>> /\ Front(Append(K, e)) = K
        <5> HIDE DEF e
        <5> QED BY <2>2, <2>4, FrontAndLast
      <4> QED BY <4>1, <4>2 DEF Above
    <3> QED BY <3>2, <3>3
  <2>6. CASE x # e
    <3>1. x \notin {"", ".", ".."}
      BY <1>0, <1>2, <2>6
    <3>2. P = Append(K, x)
      BY <2>3, <3>1 DEF Down
    <3>3. R = Append(K, x)
      BY <1>0, <2>6, <3>2
    <3>4. Append(K, x) # <<>> /\ Front(Append(K, x)) = K
      <4>1. x \in Segments
        BY <2>1
      <4> HIDE DEF x
      <4> QED BY <2>2, <4>1, FrontAndLast
    <3> QED BY <3>3, <3>4 DEF Above
  <2> QED BY <2>5, <2>6
<1> QED BY <1>1, <1>2

LEMMA JoinedNormal ==
    ASSUME NEW D \in Seq(Segments), NEW R, Above(R) = Walked(D),
           NEW path \in Seq(Segments), path # <<>>, Tidy(path)
    PROVE  (\A i \in 1 .. Len(D) : Decode[D[i]] = D[i])
           => NormalizePath(JoinPaths(R, "relative", path)) = Meaning(D \o path)
<1> DEFINE C == {s \in Segments : Decode[s] = s}
           whole == D \o path
           W == Walked(whole)
           J == JoinPaths(R, "relative", path)
           K == Walked(D)
<1>0. SUFFICES ASSUME \A i \in 1 .. Len(D) : Decode[D[i]] = D[i]
               PROVE  NormalizePath(J) = Meaning(whole)
  OBVIOUS
<1>1. D \in Seq(C) /\ path \in Seq(C) /\ C \subseteq Segments /\ "" \in C
  <2>1. \A i \in 1 .. Len(D) : D[i] \in C
    BY <1>0, Elements
  <2>2. \A i \in 1 .. Len(path) : path[i] \in C
    <3>1. DOMAIN path = 1 .. Len(path)
      OBVIOUS
    <3> QED BY <3>1, Elements DEF Tidy
  <2>3. "" \in C
    BY SegmentAssumption
  <2>4. C \subseteq Segments
    OBVIOUS
  <2> HIDE DEF C
  <2> QED BY <2>1, <2>2, <2>3, <2>4, Narrowed
<1>2. \A s \in Seq(C) : s \in Seq(Segments) /\ Decoded(s) = s
  <2> SUFFICES ASSUME NEW s \in Seq(C) PROVE s \in Seq(Segments) /\ Decoded(s) = s
    OBVIOUS
  <2>1. \A i \in 1 .. Len(s) : s[i] \in C
    <3> HIDE DEF C
    <3> QED BY Elements
  <2>2. \A i \in 1 .. Len(s) : Decode[s[i]] = s[i]
    BY <2>1
  <2>3. s \in Seq(Segments)
    <3> HIDE DEF C
    <3> QED BY <1>1, SeqMonotonic
  <2> QED BY <2>2, <2>3, DecodedFixed
<1> HIDE DEF C
<1>3. K \in Seq(C) /\ K \in Seq(Segments) /\ Walked(K) = K
      /\ \A i \in 1 .. Len(K) : K[i] \notin Dots
  <2>1. K \in Seq(C) /\ \A i \in 1 .. Len(K) : K[i] \notin Dots
    BY <1>1, WalkedType
  <2> HIDE DEF K
  <2> QED BY <1>2, <2>1, WalkedFixed
<1> HIDE DEF K
<1>4. whole \in Seq(C) /\ W \in Seq(C) /\ W \in Seq(Segments)
      /\ \A i \in 1 .. Len(W) : W[i] \notin Dots
  <2>1. whole \in Seq(C)
    BY <1>1, ConcatProperties
  <2> HIDE DEF whole
  <2>2. W \in Seq(C) /\ \A i \in 1 .. Len(W) : W[i] \notin Dots
    BY <2>1, WalkedType
  <2> QED BY <1>2, <2>1, <2>2
<1>5. Walked(K \o path) = W
  <2>1. Walked(K) = Walked(D)
    BY <1>3 DEF K
  <2> QED BY <1>1, <1>3, <2>1, WalkedConcat
<1>6. J \in {W, Append(W, "")}
  <2>1. K = IF R = <<>> THEN <<>> ELSE Front(R)
    BY DEF Above, K
  <2>2. K \in Seq(Segments \ {""})
    <3> DEFINE A == Segments \ {""}
    <3>1. \A i \in 1 .. Len(K) : K[i] \in A
      <4>1. \A i \in 1 .. Len(K) : K[i] \in Segments
        BY <1>3, Elements
      <4> QED BY <1>3, <4>1 DEF Dots
    <3> HIDE DEF A
    <3>2. K \in Seq(A)
      BY <1>3, <3>1, Narrowed
    <3> QED BY <3>2 DEF A
  <2>3. \A i \in 1 .. Len(path) - 1 : path[i] # ""
    BY DEF Tidy
  <2>4. JoinPaths(R, "relative", path)
        \in {Walked(K \o path), Append(Walked(K \o path), "")}
    BY <2>1, <2>2, <2>3, JoinedIsWalked
  <2> QED BY <1>5, <2>4
<1> HIDE DEF W, J
<1>7. NormPath(J) = W
  BY <1>4, <1>6, NormOfWalked
<1>8. Decoded(J) = J
  <2> DEFINE e == ""
  <2>1. Append(W, e) \in Seq(C)
    <3> HIDE DEF e
    <3>1. e \in C
      BY <1>1 DEF e
    <3> QED BY <1>4, <3>1, AppendProperties
  <2> QED BY <1>2, <1>4, <1>6, <2>1
<1>9. NormalizePath(J) = W
  BY <1>7, <1>8 DEF NormalizePath
<1>10. Meaning(whole) = W
  <2>1. whole \in Seq(Segments) /\ Decoded(whole) = whole
    BY <1>2, <1>4
  <2> HIDE DEF whole
  <2>2. Kept(whole) = Meaning(whole)
    BY <2>1, KeptIsMeaning
  <2> QED BY <2>1, <2>2 DEF Kept, Walked, W
<1> QED BY <1>9, <1>10

(* Unescaping changes no tidy path. *)
LEMMA TidyLiterally ==
    ASSUME NEW path \in Seq(Segments), Tidy(path)
    PROVE  Literally(path) = path
BY LiterallyType DEF Tidy

LEMMA TidyReference ==
    ASSUME NEW a \in References, a.kind = "relative", Tidy(a.path)
    PROVE  /\ Unescaped(a) \in References /\ Unescaped(a).kind = "relative"
           /\ Unescaped(a).path = a.path /\ a.path # <<>>
           /\ a.path \in Seq(Segments) /\ Unescaped(a).query \in Seq(Params)
<1>1. a \in [kind : {"relative"}, path : Seq(Segments) \ {<<>>}, query : Seq(Params)]
  BY DEF References
<1>2. a.path \in Seq(Segments) /\ a.path # <<>> /\ a.query \in Seq(Params)
  BY <1>1
<1>3. Literally(a.path) = a.path /\ Unescape(a.query) \in Seq(Params)
  BY <1>2, TidyLiterally, UnescapeType
<1>4. Unescaped(a) = [a EXCEPT !.path = a.path, !.query = Unescape(a.query)]
  BY <1>3 DEF Unescaped, Literally
<1>5. /\ Unescaped(a).kind = "relative" /\ Unescaped(a).path = a.path
      /\ Unescaped(a).query = Unescape(a.query)
  BY <1>1, <1>4
<1> QED BY <1>2, <1>3, <1>5, UnescapedRef

LEMMA ResolvedPath ==
    ASSUME NEW base \in Urls, NEW a \in References, a.kind = "relative",
           Tidy(a.path), Tidy(base.path), NormalizeQuery(base.query) = <<>>,
           Resolve(a, base, FALSE) # NoUrl
    PROVE  (base.path # <<>> => Last(base.path) \notin {".", ".."})
           => Resolve(a, base, FALSE).path = Meaning(Above(base.path) \o a.path)
<1>0. SUFFICES ASSUME base.path # <<>> => Last(base.path) \notin {".", ".."}
               PROVE  Resolve(a, base, FALSE).path = Meaning(Above(base.path) \o a.path)
  OBVIOUS
<1> DEFINE raw == Unescaped(base)
           b == Canonical(raw, FALSE)
           c == Unescaped(a)
           rb == ResolutionBase(base)
           P == NormalizePath(base.path)
           D == Above(base.path)
           J == JoinPaths(rb.path, "relative", a.path)
<1>1. /\ base.path \in Seq(Segments) /\ base.query \in Seq(Params)
  BY UrlFields
<1>2. a.path \in Seq(Segments) /\ a.path # <<>>
      /\ c.kind = "relative" /\ c.path = a.path /\ c.query \in Seq(Params)
  BY TidyReference
<1>3. rb # NoUrl /\ Resolve(a, base, FALSE)
                    = Normalized([rb EXCEPT !.path = J, !.query = c.query], FALSE)
  <2>1. rb # NoUrl /\ Resolve(a, base, FALSE) = Normalized(Join(rb, c), FALSE)
    BY DEF Resolve
  <2>2. Join(rb, c) = [rb EXCEPT !.path = J, !.query = c.query]
    BY <1>2 DEF Join
  <2> QED BY <2>1, <2>2
<1>4. b # NoUrl
  BY <1>3 DEF ResolutionBase
<1>r. raw \in Urls /\ raw.path = base.path /\ raw.query = Unescape(base.query)
  BY <1>1, UnescapedType, TidyLiterally
<1>5. b \in Urls /\ b.path = P /\ b.query = <<>>
  <2> DEFINE v == Unescaped(raw)
  <2> HIDE DEF raw
  <2>1. v \in Urls /\ v.path = base.path /\ v.query = Unescape(Unescape(base.query))
    BY <1>1, <1>r, UnescapedType, TidyLiterally
  <2>2. b = Normalized(v, FALSE)
    BY <1>4 DEF Canonical
  <2>3. NormalizeQuery(v.query) = <<>>
    <3>1. Unescape(base.query) \in Seq(Params) /\ NormalizeQuery(Unescape(base.query)) = <<>>
      BY <1>1, UnescapeUnwanted, UnescapeType
    <3> QED BY <2>1, <3>1, UnescapeUnwanted
  <2>4. b \in Urls
    BY <1>r, <1>4, CanonicalType
  <2> HIDE DEF v, b
  <2>5. b.path = P /\ b.query = NormalizeQuery(v.query)
    <3>1. v = [scheme |-> v.scheme, host |-> v.host, port |-> v.port, path |-> v.path, query |-> v.query]
      BY <2>1 DEF Urls
    <3> QED BY <1>4, <2>1, <2>2, <3>1 DEF Normalized
  <2> QED BY <2>3, <2>4, <2>5
<1> HIDE DEF b
<1>6. /\ rb \in Urls
      /\ rb.path = IF base.path # <<>> /\ Last(base.path) = "" /\ P # <<>> THEN Append(P, "") ELSE P
  <2>1. rb \in Urls
    BY <1>3, ResolutionBaseType
  <2>2. rb = IF base.path # <<>> /\ Last(base.path) = "" /\ P # <<>>
             THEN [b EXCEPT !.path = Append(@, "")] ELSE b
    <3>1. b = Canonical(Unescaped(base), FALSE)
      BY DEF b
    <3> HIDE DEF P
    <3> QED BY <1>4, <1>5, <1>r, <3>1 DEF ResolutionBase
  <2>3. [b EXCEPT !.path = Append(@, "")].path = Append(P, "")
    BY <1>5 DEF Urls
  <2> QED BY <1>5, <2>1, <2>2, <2>3
<1> HIDE DEF rb
<1>7. P = Walked(base.path)
  BY <1>1, TidyPath
<1> HIDE DEF P
<1>8. Above(rb.path) = Walked(D)
  <2> DEFINE p == base.path
             R == rb.path
  <2>1. R = IF p # <<>> /\ Last(p) = "" /\ P # <<>> THEN Append(P, "") ELSE P
    BY <1>6
  <2>2. p # <<>> => Last(p) \notin {".", ".."}
    BY <1>0
  <2>3. p \in Seq(Segments) /\ P = Walked(p)
    BY <1>1, <1>7
  <2> HIDE DEF p, R
  <2>4. Above(R) = Walked(Above(p))
    BY <2>1, <2>2, <2>3, Directory
  <2> QED BY <2>4 DEF p, R
<1>9. D \in Seq(Segments) /\ \A i \in 1 .. Len(D) : Decode[D[i]] = D[i]
  <2>1. CASE base.path = <<>>
    BY <2>1 DEF Above
  <2>2. CASE base.path # <<>>
    <3>1. /\ D \in Seq(Segments) /\ Len(D) = Len(base.path) - 1
          /\ \A i \in 1 .. Len(base.path) - 1 : D[i] = base.path[i]
      BY <1>1, <2>2, FrontProperties DEF Above
    <3>2. Len(base.path) \in Nat /\ DOMAIN base.path = 1 .. Len(base.path)
      BY <1>1
    <3>3. \A i \in 1 .. Len(D) : i \in DOMAIN base.path /\ D[i] = base.path[i]
      BY <3>1, <3>2
    <3> QED BY <3>1, <3>3 DEF Tidy
  <2> QED BY <2>1, <2>2
<1>10. NormalizePath(J) = Meaning(D \o a.path)
  <2> DEFINE R == rb.path
             path == a.path
  <2>1. path \in Seq(Segments) /\ path # <<>> /\ Tidy(path) /\ Above(R) = Walked(D)
    BY <1>2, <1>8
  <2> HIDE DEF R, path, D
  <2>2. NormalizePath(JoinPaths(R, "relative", path)) = Meaning(D \o path)
    BY <1>9, <2>1, JoinedNormal
  <2> QED BY <2>2 DEF R, path
<1> DEFINE u == [rb EXCEPT !.path = J, !.query = c.query]
<1> HIDE DEF J
<1>11. u.path = J /\ DOMAIN u = {"scheme", "host", "port", "path", "query"}
  BY <1>6 DEF Urls
<1>12. Normalized(u, FALSE) # NoUrl
  BY <1>3
<1> HIDE DEF u
<1>13. Normalized(u, FALSE).path = NormalizePath(u.path)
  BY <1>11, <1>12 DEF Normalized
<1> QED BY <1>3, <1>10, <1>11, <1>13 DEF u

(* Every link of a relative anchor lies where the anchor says, seen from   *)
(* the directory of the base as it is written in the page.                 *)
THEOREM DirectoryResolution == Spec => []ResolvedInDirectory
<1>1. IInv => ResolvedInDirectory
  <2> DEFINE base == DocumentBase(page)
             a(l) == page.anchors[links[l].anchor]
  <2> SUFFICES ASSUME IInv, NEW l \in DOMAIN links,
                      a(l).kind = "relative", Tidy(a(l).path), Tidy(base.path),
                      base.path # <<>> => Last(base.path) \notin {".", ".."},
                      NormalizeQuery(base.query) = <<>>
               PROVE  links[l].url.path = Meaning(Above(base.path) \o a(l).path)
    BY DEF ResolvedInDirectory, Above
  <2>1. base \in Urls
    <3>1. links[l].anchor \in 1 .. next - 1
      BY DEF IInv, LinksOk
    <3>2. next # 1
      BY <3>1 DEF IInv
    <3> QED BY <3>2, BaseType DEF IInv
  <2>2. /\ a(l) \in References /\ links[l].url = Resolve(Unescaped(a(l)), base, FALSE)
        /\ Resolve(Unescaped(a(l)), base, FALSE) # NoUrl
    BY DEF IInv, LinksOk, Target
  <2> HIDE DEF base, a
  <2>3. /\ Unescaped(a(l)) \in References /\ Unescaped(a(l)).kind = "relative"
        /\ Unescaped(a(l)).path = a(l).path
    BY <2>2, TidyReference
  <2> QED BY <2>1, <2>2, <2>3, ResolvedPath
<1> QED BY <1>1, InvariantHolds, PTL

-----------------------------------------------------------------------------
(* extract_emails *)

TextNodes == [tags : Seq(STRING) \ {<<>>}, comment : BOOLEAN, words : Seq(DOMAIN Email)]

ReadNode(seen, node) == IF Visible(node) THEN seen \o node.words ELSE seen

ReadNodes(nodes) == FoldLeft(LAMBDA seen, node : ReadNode(seen, node), <<>>, nodes)

LEMMA ReadNodeType ==
    ASSUME NEW seen \in Seq(DOMAIN Email), NEW node \in TextNodes
    PROVE  ReadNode(seen, node) \in Seq(DOMAIN Email)
<1>1. node.words \in Seq(DOMAIN Email)
  BY DEF TextNodes
<1>2. seen \o node.words \in Seq(DOMAIN Email)
  BY <1>1, ConcatProperties
<1> QED BY <1>2 DEF ReadNode

(* What is in hand while the text nodes are read. *)
LEMMA ReadHistory ==
    ASSUME NEW s \in Seq(TextNodes)
    PROVE  \E g \in [0 .. Len(s) -> Seq(DOMAIN Email)] :
               /\ g[0] = <<>> /\ ReadNodes(s) = g[Len(s)]
               /\ \A k \in 1 .. Len(s) : g[k] = ReadNode(g[k - 1], s[k])
<1> DEFINE n == Len(s)
           B == Seq(DOMAIN Email)
           Op(kept, x) == ReadNode(kept, x)
           F == [x \in B |-> [k \in 1 .. n |-> Op(x, s[k])]]
           Folds(f) == f = [T \in SUBSET (1 .. n) |->
                               IF T = {} THEN <<>> ELSE Op(f[T \ {Max(T)}], s[Max(T)])]
           iter == CHOOSE f : Folds(f)
           g == [k \in 0 .. n |-> iter[1 .. k]]
<1>1. n \in Nat /\ DOMAIN s = 1 .. n /\ <<>> \in B /\ \A k \in 1 .. n : s[k] \in TextNodes
  OBVIOUS
<1>2. ASSUME NEW x \in B, NEW k \in 1 .. n PROVE Op(x, s[k]) \in B
  BY <1>1, ReadNodeType
<1>3. \E f : Folds(f)
  <2>1. F \in [B -> [1 .. n -> B]]
    BY <1>2
  <2>2. PICK f \in [SUBSET (1 .. n) -> B] : \A T \in SUBSET (1 .. n) :
            f[T] = IF T = {} THEN <<>> ELSE F[f[T \ {Max(T)}]][Max(T)]
    <3> DEFINE b == <<>>
    <3>1. b \in B /\ n \in Nat
      BY <1>1
    <3> HIDE DEF F, B, b, n
    <3>2. \E f : Folding(f, n, B, b, F)
      BY <2>1, <3>1, FoldExists
    <3> QED BY <3>2 DEF b, Folding
  <2>3. ASSUME NEW T \in SUBSET (1 .. n), T # {}
        PROVE  f[T] = Op(f[T \ {Max(T)}], s[Max(T)])
    <3>1. Max(T) \in 1 .. n
      BY <2>3, MaxOfIndices, <1>1
    <3>2. f[T \ {Max(T)}] \in B
      BY <2>2, <3>1
    <3>3. \A x \in B : \A k \in 1 .. n : F[x][k] = Op(x, s[k])
      OBVIOUS
    <3>4. f[T] = F[f[T \ {Max(T)}]][Max(T)]
      <4> HIDE DEF F, B, n
      <4> QED BY <2>2, <2>3
    <3> HIDE DEF F, Op, B, n
    <3> QED BY <3>1, <3>2, <3>3, <3>4
  <2>4. Folds(f)
    <3> HIDE DEF Op, B, n
    <3> QED BY <2>2, <2>3
  <2> QED BY <2>4
<1>4. Folds(iter)
  <2> HIDE DEF Folds
  <2> QED BY <1>3
<1>5. ReadNodes(s) = iter[1 .. n]
  BY <1>1 DEF ReadNodes, ReadNode, FoldLeft, MapThenFoldSet
<1> HIDE DEF iter
<1>6. g[0] = <<>>
  BY <1>1, <1>4
<1>7. ASSUME NEW k \in 1 .. n PROVE g[k] = Op(g[k - 1], s[k])
  <2>1. /\ 1 .. k \in SUBSET (1 .. n) /\ 1 .. k # {}
        /\ Max(1 .. k) = k /\ (1 .. k) \ {k} = 1 .. k - 1
    BY <1>1, FoldSteps
  <2>2. iter[1 .. k] = Op(iter[1 .. k - 1], s[k])
    <3> HIDE DEF Op, n
    <3> QED BY <1>4, <2>1
  <2> QED BY <1>1, <2>2
<1>8. \A k \in 0 .. n : g[k] \in B
  <2> DEFINE I == {k \in 0 .. n : g[k] \in B}
  <2>1. 0 \in I
    <3>1. 0 \in 0 .. n
      BY <1>1
    <3> HIDE DEF g, B, n
    <3> QED BY <1>1, <1>6, <3>1
  <2>2. \A k \in 1 .. n : k - 1 \in I => k \in I
    <3> HIDE DEF g, Op
    <3> QED BY <1>1, <1>2, <1>7
  <2> HIDE DEF I
  <2>3. \A k \in 0 .. n : k \in I
    BY <1>1, <2>1, <2>2, Induction
  <2> QED BY <2>3 DEF I
<1>9. g \in [0 .. n -> B] /\ ReadNodes(s) = g[n]
  BY <1>1, <1>5, <1>8
<1> HIDE DEF g
<1> QED BY <1>6, <1>7, <1>9

(* Each entry of s stands at a place, the word B of what R reads at A; the *)
(* places are in order, and none of the first k is left out.               *)
Placed(R, s, k, A, B) ==
    /\ \A j \in 1 .. Len(s) :
          A[j] \in 1 .. k /\ B[j] \in 1 .. Len(R[A[j]]) /\ s[j] = R[A[j]][B[j]]
    /\ \A i, j \in 1 .. Len(s) : i < j => A[i] < A[j] \/ (A[i] = A[j] /\ B[i] < B[j])
    /\ \A n \in 1 .. k : \A w \in 1 .. Len(R[n]) : \E j \in 1 .. Len(s) : A[j] = n /\ B[j] = w

(* What is read next stands after all that has been read. *)
LEMMA PlacedMore ==
    ASSUME NEW R, NEW W, NEW k \in Nat, NEW s \in Seq(W), NEW r \in Seq(W), NEW A, NEW B
    PROVE  (Placed(R, s, k, A, B) /\ R[k + 1] = r)
           => \E C, D : Placed(R, s \o r, k + 1, C, D)
<1>0. SUFFICES ASSUME Placed(R, s, k, A, B), R[k + 1] = r
               PROVE  \E C, D : Placed(R, s \o r, k + 1, C, D)
  OBVIOUS
<1> DEFINE n == Len(s)
           m == Len(r)
           t == s \o r
           C == [j \in 1 .. n + m |-> IF j <= n THEN A[j] ELSE k + 1]
           D == [j \in 1 .. n + m |-> IF j <= n THEN B[j] ELSE j - n]
<1>1. n \in Nat /\ m \in Nat
  OBVIOUS
<1>2. /\ Len(t) = n + m
      /\ \A j \in 1 .. n + m : t[j] = IF j <= n THEN s[j] ELSE r[j - n]
  BY ConcatProperties
<1>3. /\ \A j \in 1 .. n : A[j] \in 1 .. k /\ B[j] \in 1 .. Len(R[A[j]]) /\ s[j] = R[A[j]][B[j]]
      /\ \A i, j \in 1 .. n : i < j => A[i] < A[j] \/ (A[i] = A[j] /\ B[i] < B[j])
      /\ \A x \in 1 .. k : \A w \in 1 .. Len(R[x]) : \E j \in 1 .. n : A[j] = x /\ B[j] = w
  BY <1>0 DEF Placed
<1>4. \A j \in 1 .. n + m : j \in 1 .. n \/ (~(j <= n) /\ j - n \in 1 .. m)
  <2> HIDE DEF n, m
  <2> QED BY <1>1
<1>5. /\ \A j \in 1 .. n : /\ j \in 1 .. n + m /\ j <= n
                           /\ C[j] = A[j] /\ D[j] = B[j] /\ t[j] = s[j]
      /\ \A j \in 1 .. n + m : ~(j <= n) => C[j] = k + 1 /\ D[j] = j - n /\ t[j] = r[j - n]
  <2>1. \A j \in 1 .. n : j \in 1 .. n + m /\ j <= n
    <3> HIDE DEF n, m
    <3> QED BY <1>1
  <2>2. \A j \in 1 .. n + m : /\ C[j] = IF j <= n THEN A[j] ELSE k + 1
                              /\ D[j] = IF j <= n THEN B[j] ELSE j - n
    OBVIOUS
  <2> HIDE DEF n, m, t, C, D
  <2> QED BY <1>2, <2>1, <2>2
<1>6. Len(R[k + 1]) = m /\ k + 1 \in 1 .. k + 1 /\ \A x \in 1 .. k : x \in 1 .. k + 1 /\ x < k + 1
  BY <1>0
<1> HIDE DEF n, m, t, C, D
<1>7. ASSUME NEW j \in 1 .. n + m
      PROVE  C[j] \in 1 .. k + 1 /\ D[j] \in 1 .. Len(R[C[j]]) /\ t[j] = R[C[j]][D[j]]
  <2>1. CASE j \in 1 .. n
    BY <1>3, <1>5, <1>6, <2>1
  <2>2. CASE ~(j <= n) /\ j - n \in 1 .. m
    <3>1. C[j] = k + 1 /\ D[j] = j - n /\ t[j] = r[j - n]
      BY <1>5, <2>2
    <3> QED BY <1>0, <1>6, <2>2, <3>1
  <2> QED BY <1>4, <2>1, <2>2
<1>8. ASSUME NEW i \in 1 .. n + m, NEW j \in 1 .. n + m, i < j
      PROVE  C[i] < C[j] \/ (C[i] = C[j] /\ D[i] < D[j])
  <2>1. CASE i \in 1 .. n /\ j \in 1 .. n
    <3>1. A[i] < A[j] \/ (A[i] = A[j] /\ B[i] < B[j])
      BY <1>3, <1>8, <2>1
    <3> QED BY <1>5, <2>1, <3>1
  <2>2. CASE i \in 1 .. n /\ ~(j <= n)
    <3>1. C[i] \in 1 .. k /\ C[j] = k + 1
      BY <1>3, <1>5, <2>2
    <3> QED BY <1>6, <3>1
  <2>3. CASE ~(i <= n) /\ ~(j <= n)
    <3>1. C[i] = C[j] /\ D[i] = i - n /\ D[j] = j - n
      BY <1>5, <2>3
    <3>2. i - n < j - n
      BY <1>1, <1>8
    <3> QED BY <3>1, <3>2
  <2>4. ~(i <= n) => ~(j <= n)
    BY <1>1, <1>8
  <2> QED BY <1>4, <2>1, <2>2, <2>3, <2>4
<1>9. ASSUME NEW x \in 1 .. k + 1, NEW w \in 1 .. Len(R[x])
      PROVE  \E j \in 1 .. n + m : C[j] = x /\ D[j] = w
  <2>1. CASE x \in 1 .. k
    <3>1. PICK j \in 1 .. n : A[j] = x /\ B[j] = w
      BY <1>3, <2>1
    <3> QED BY <1>5, <3>1
  <2>2. CASE x = k + 1
    <3>1. w \in 1 .. m
      BY <1>6, <2>2
    <3>2. n + w \in 1 .. n + m /\ ~(n + w <= n) /\ (n + w) - n = w
      BY <1>1, <3>1
    <3> QED BY <1>5, <2>2, <3>2
  <2>3. x \in 1 .. k \/ x = k + 1
    OBVIOUS
  <2> QED BY <2>1, <2>2, <2>3
<1>10. Placed(R, t, k + 1, C, D)
  BY <1>2, <1>7, <1>8, <1>9 DEF Placed
<1> QED BY <1>10 DEF t

(* The element around a text tells whether it is shown. *)
LEMMA VisibleIsShown ==
    ASSUME page.nodes \in Seq(TextNodes), HiddenDirectly, NEW n \in 1 .. Len(page.nodes)
    PROVE  Visible(page.nodes[n]) <=> Shown(page.nodes[n])
<1> DEFINE node == page.nodes[n]
           tags == node.tags
<1>1. node \in TextNodes /\ n \in DOMAIN page.nodes
  BY Elements
<1>2. (\E i \in DOMAIN tags : tags[i] \in NonVisibleTags) => node.comment \/ Last(tags) \in NonVisibleTags
  BY <1>1 DEF HiddenDirectly
<1>3. tags \in Seq(STRING) /\ tags # <<>>
  BY <1>1 DEF TextNodes
<1> HIDE DEF node, tags
<1>4. Last(tags) = tags[Len(tags)] /\ Len(tags) \in DOMAIN tags
  BY <1>3 DEF Last
<1> QED BY <1>2, <1>4 DEF Visible, Shown, node, tags

(* The addresses that a page shows and those it writes to, at their places.*)
LEMMA RawPlaced ==
    ASSUME page.nodes \in Seq(TextNodes), page.recipients \in Seq(DOMAIN Email), HiddenDirectly
    PROVE  \E A, B : Placed([n \in 1 .. Len(page.nodes) + 1 |-> Reading(n)], Raw,
                           Len(page.nodes) + 1, A, B)
<1> DEFINE s == page.nodes
           N == Len(s)
           W == DOMAIN Email
           R == [n \in 1 .. N + 1 |-> Reading(n)]
<1>1. PICK g \in [0 .. N -> Seq(W)] :
          /\ g[0] = <<>> /\ ReadNodes(s) = g[N]
          /\ \A k \in 1 .. N : g[k] = ReadNode(g[k - 1], s[k])
  BY ReadHistory
<1>2. N \in Nat
  OBVIOUS
<1>3. ASSUME NEW k \in 1 .. N
      PROVE  g[k] = g[k - 1] \o R[k] /\ R[k] \in Seq(W)
  <2>1. k - 1 \in 0 .. N /\ k \in 1 .. N + 1 /\ ~(k > N) /\ k <= N
    <3> HIDE DEF N
    <3> QED BY <1>2
  <2>2. g[k - 1] \in Seq(W) /\ s[k] \in TextNodes
    <3>1. g[k - 1] \in Seq(W)
      BY <1>1, <2>1
    <3>2. s[k] \in TextNodes
      BY Elements
    <3> QED BY <3>1, <3>2
  <2>3. R[k] = IF Shown(s[k]) THEN s[k].words ELSE <<>>
    BY <2>1 DEF Reading
  <2>4. s[k].words \in Seq(W)
    BY <2>2 DEF TextNodes
  <2>5. g[k] = IF Shown(s[k]) THEN g[k - 1] \o s[k].words ELSE g[k - 1]
    BY <1>1, VisibleIsShown DEF ReadNode
  <2>6. <<>> \in Seq(W) /\ g[k - 1] \o <<>> = g[k - 1]
    BY <2>2, ConcatEmptySeq
  <2> HIDE DEF R, W, s, N
  <2> QED BY <2>3, <2>4, <2>5, <2>6
<1> HIDE DEF R
<1> DEFINE S == {k \in 0 .. N : \E A, B : Placed(R, g[k], k, A, B)}
<1>4. 0 \in S
  <2>1. Placed(R, <<>>, 0, <<>>, <<>>)
    BY DEF Placed
  <2>2. 0 \in 0 .. N
    BY <1>2
  <2> QED BY <1>1, <2>1, <2>2
<1>5. ASSUME NEW k \in 1 .. N, k - 1 \in S PROVE k \in S
  <2> DEFINE j == k - 1
  <2>1. j \in Nat /\ j + 1 = k /\ j \in 0 .. N /\ k \in 0 .. N
    <3> HIDE DEF N
    <3> QED BY <1>2
  <2>2. PICK A, B : Placed(R, g[j], j, A, B)
    BY <1>5
  <2>3. g[j] \in Seq(W) /\ R[j + 1] \in Seq(W) /\ g[k] = g[j] \o R[j + 1]
    BY <1>1, <1>3, <2>1
  <2> HIDE DEF j, W, N, S
  <2>4. \E C, D : Placed(R, g[j] \o R[j + 1], j + 1, C, D)
    BY <2>1, <2>2, <2>3, PlacedMore
  <2> QED BY <2>1, <2>3, <2>4 DEF S
<1>6. \E A, B : Placed(R, g[N], N, A, B)
  <2>1. \A k \in 1 .. N : k - 1 \in S => k \in S
    BY <1>5
  <2> HIDE DEF N, S
  <2>2. \A k \in 0 .. N : k \in S
    BY <1>2, <1>4, <2>1, Induction
  <2>3. N \in S
    BY <1>2, <2>2
  <2> QED BY <2>3 DEF S
<1>7. PICK A, B : Placed(R, g[N], N, A, B)
  BY <1>6
<1>8. R[N + 1] = page.recipients
  <2>1. N + 1 \in 1 .. N + 1 /\ N + 1 > N
    <3> HIDE DEF N
    <3> QED BY <1>2
  <2> QED BY <2>1 DEF R, Reading
<1>9. Raw = g[N] \o page.recipients /\ g[N] \in Seq(W)
  <2>1. Raw = ReadNodes(s) \o page.recipients
    BY DEF Raw, ReadNodes, ReadNode
  <2>2. N \in 0 .. N
    <3> HIDE DEF N
    <3> QED BY <1>2
  <2> QED BY <1>1, <2>1, <2>2
<1>10. \E C, D : Placed(R, g[N] \o page.recipients, N + 1, C, D)
  <2>1. page.recipients \in Seq(W)
    OBVIOUS
  <2> HIDE DEF N, W
  <2> QED BY <1>2, <1>7, <1>8, <1>9, <2>1, PlacedMore
<1> QED BY <1>9, <1>10 DEF R

LEMMA RawType ==
    ASSUME page.nodes \in Seq(TextNodes), page.recipients \in Seq(DOMAIN Email)
    PROVE  Raw \in Seq(DOMAIN Email)
<1> DEFINE s == page.nodes
<1>1. PICK g \in [0 .. Len(s) -> Seq(DOMAIN Email)] : ReadNodes(s) = g[Len(s)]
  BY ReadHistory
<1>2. Len(s) \in 0 .. Len(s)
  OBVIOUS
<1>3. ReadNodes(s) \in Seq(DOMAIN Email)
  BY <1>1, <1>2
<1>4. Raw = ReadNodes(s) \o page.recipients
  BY DEF Raw, ReadNodes, ReadNode
<1> QED BY <1>3, <1>4, ConcatProperties

Spellings == {Email[raw] : raw \in DOMAIN Email}

Listed(found, raw) ==
    IF Email[raw] = NoEmail \/ Contains(found, Email[raw]) THEN found
    ELSE Append(found, Email[raw])

Listing(s) == FoldLeft(LAMBDA found, raw : Listed(found, raw), <<>>, s)

LEMMA ListedType ==
    ASSUME NEW found \in Seq(Spellings), NEW raw \in DOMAIN Email
    PROVE  Listed(found, raw) \in Seq(Spellings)
<1>1. Email[raw] \in Spellings
  BY DEF Spellings
<1> QED BY <1>1, AppendProperties DEF Listed

(* The list while the addresses are gone through. *)
LEMMA ListHistory ==
    ASSUME NEW s \in Seq(DOMAIN Email)
    PROVE  \E g \in [0 .. Len(s) -> Seq(Spellings)] :
               /\ g[0] = <<>> /\ Listing(s) = g[Len(s)]
               /\ \A k \in 1 .. Len(s) : g[k] = Listed(g[k - 1], s[k])
<1> DEFINE n == Len(s)
           B == Seq(Spellings)
           Op(kept, x) == Listed(kept, x)
           F == [x \in B |-> [k \in 1 .. n |-> Op(x, s[k])]]
           Folds(f) == f = [T \in SUBSET (1 .. n) |->
                               IF T = {} THEN <<>> ELSE Op(f[T \ {Max(T)}], s[Max(T)])]
           iter == CHOOSE f : Folds(f)
           g == [k \in 0 .. n |-> iter[1 .. k]]
<1>1. n \in Nat /\ DOMAIN s = 1 .. n /\ <<>> \in B /\ \A k \in 1 .. n : s[k] \in DOMAIN Email
  OBVIOUS
<1>2. ASSUME NEW x \in B, NEW k \in 1 .. n PROVE Op(x, s[k]) \in B
  BY <1>1, ListedType
<1>3. \E f : Folds(f)
  <2>1. F \in [B -> [1 .. n -> B]]
    BY <1>2
  <2>2. PICK f \in [SUBSET (1 .. n) -> B] : \A T \in SUBSET (1 .. n) :
            f[T] = IF T = {} THEN <<>> ELSE F[f[T \ {Max(T)}]][Max(T)]
    <3> DEFINE b == <<>>
    <3>1. b \in B /\ n \in Nat
      BY <1>1
    <3> HIDE DEF F, B, b, n
    <3>2. \E f : Folding(f, n, B, b, F)
      BY <2>1, <3>1, FoldExists
    <3> QED BY <3>2 DEF b, Folding
  <2>3. ASSUME NEW T \in SUBSET (1 .. n), T # {}
        PROVE  f[T] = Op(f[T \ {Max(T)}], s[Max(T)])
    <3>1. Max(T) \in 1 .. n
      BY <2>3, MaxOfIndices, <1>1
    <3>2. f[T \ {Max(T)}] \in B
      BY <2>2, <3>1
    <3>3. \A x \in B : \A k \in 1 .. n : F[x][k] = Op(x, s[k])
      OBVIOUS
    <3>4. f[T] = F[f[T \ {Max(T)}]][Max(T)]
      <4> HIDE DEF F, B, n
      <4> QED BY <2>2, <2>3
    <3> HIDE DEF F, Op, B, n
    <3> QED BY <3>1, <3>2, <3>3, <3>4
  <2>4. Folds(f)
    <3> HIDE DEF Op, B, n
    <3> QED BY <2>2, <2>3
  <2> QED BY <2>4
<1>4. Folds(iter)
  <2> HIDE DEF Folds
  <2> QED BY <1>3
<1>5. Listing(s) = iter[1 .. n]
  BY <1>1 DEF Listing, Listed, FoldLeft, MapThenFoldSet
<1> HIDE DEF iter
<1>6. g[0] = <<>>
  BY <1>1, <1>4
<1>7. ASSUME NEW k \in 1 .. n PROVE g[k] = Op(g[k - 1], s[k])
  <2>1. /\ 1 .. k \in SUBSET (1 .. n) /\ 1 .. k # {}
        /\ Max(1 .. k) = k /\ (1 .. k) \ {k} = 1 .. k - 1
    BY <1>1, FoldSteps
  <2>2. iter[1 .. k] = Op(iter[1 .. k - 1], s[k])
    <3> HIDE DEF Op, n
    <3> QED BY <1>4, <2>1
  <2> QED BY <1>1, <2>2
<1>8. \A k \in 0 .. n : g[k] \in B
  <2> DEFINE I == {k \in 0 .. n : g[k] \in B}
  <2>1. 0 \in I
    <3>1. 0 \in 0 .. n
      BY <1>1
    <3> HIDE DEF g, B, n
    <3> QED BY <1>1, <1>6, <3>1
  <2>2. \A k \in 1 .. n : k - 1 \in I => k \in I
    <3> HIDE DEF g, Op
    <3> QED BY <1>1, <1>2, <1>7
  <2> HIDE DEF I
  <2>3. \A k \in 0 .. n : k \in I
    BY <1>1, <2>1, <2>2, Induction
  <2> QED BY <2>3 DEF I
<1>9. g \in [0 .. n -> B] /\ Listing(s) = g[n]
  BY <1>1, <1>5, <1>8
<1> HIDE DEF g
<1> QED BY <1>6, <1>7, <1>9

Heard(s, k) == {j \in 1 .. k : Email[s[j]] # NoEmail}

(* One of the addresses in H is a, before any that is b. *)
FirstBefore(s, H, a, b) ==
    \E j \in H : Email[s[j]] = a /\ \A i \in H : Email[s[i]] = b => j < i

(* The addresses in H are listed, in the order of first hearing. *)
Lists(s, H, f) ==
    /\ \A j \in H : \E m \in 1 .. Len(f) : f[m] = Email[s[j]]
    /\ \A m \in 1 .. Len(f) : \E j \in H : Email[s[j]] = f[m]
    /\ \A m, l \in 1 .. Len(f) : m < l => FirstBefore(s, H, f[m], f[l])

(* One more address keeps the order: a new one is heard after all others. *)
LEMMA ListsMore ==
    ASSUME NEW s \in Seq(DOMAIN Email), NEW k \in Nat, k + 1 \in 1 .. Len(s),
           NEW f \in Seq(Spellings), Lists(s, Heard(s, k), f)
    PROVE  Lists(s, Heard(s, k + 1), Listed(f, s[k + 1]))
<1> DEFINE e == Email[s[k + 1]]
           n == Len(f)
           H == Heard(s, k)
<1>1. n \in Nat /\ \A j \in H : j \in 1 .. k /\ Email[s[j]] # NoEmail
  BY DEF Heard
<1>2. Heard(s, k + 1) = H \cup (IF e = NoEmail THEN {} ELSE {k + 1})
  BY DEF Heard
<1>3. /\ \A j \in H : \E m \in 1 .. n : f[m] = Email[s[j]]
      /\ \A m \in 1 .. n : \E j \in H : Email[s[j]] = f[m]
      /\ \A m, l \in 1 .. n : m < l => FirstBefore(s, H, f[m], f[l])
  BY DEF Lists
<1>4. Contains(f, e) <=> \E m \in 1 .. n : f[m] = e
  BY DEF Contains
<1>4a. Lists(s, H, f)
  OBVIOUS
<1> HIDE DEF H
<1>5. CASE e = NoEmail
  <2>1. Heard(s, k + 1) = H /\ Listed(f, s[k + 1]) = f
    BY <1>2, <1>5 DEF Listed
  <2> QED BY <1>4a, <2>1
<1>6. CASE e # NoEmail /\ Contains(f, e)
  <2>1. Heard(s, k + 1) = H \cup {k + 1} /\ Listed(f, s[k + 1]) = f
    BY <1>2, <1>6 DEF Listed
  <2>2. \A j \in H \cup {k + 1} : \E m \in 1 .. n : f[m] = Email[s[j]]
    BY <1>3, <1>4, <1>6
  <2>3. ASSUME NEW m \in 1 .. n, NEW l \in 1 .. n, m < l
        PROVE  FirstBefore(s, H \cup {k + 1}, f[m], f[l])
    <3>1. PICK j \in H : Email[s[j]] = f[m] /\ \A i \in H : Email[s[i]] = f[l] => j < i
      BY <1>3, <2>3 DEF FirstBefore
    <3>2. j < k + 1
      BY <1>1
    <3> QED BY <3>1, <3>2 DEF FirstBefore
  <2>4. \A m \in 1 .. n : \E j \in H \cup {k + 1} : Email[s[j]] = f[m]
    BY <1>3
  <2>5. Lists(s, H \cup {k + 1}, f)
    BY <2>2, <2>3, <2>4 DEF Lists
  <2> QED BY <2>1, <2>5
<1>7. CASE e # NoEmail /\ ~Contains(f, e)
  <2> DEFINE g == Append(f, e)
  <2>1. Heard(s, k + 1) = H \cup {k + 1} /\ Listed(f, s[k + 1]) = g
    BY <1>2, <1>7 DEF Listed
  <2>2. s[k + 1] \in DOMAIN Email
    OBVIOUS
  <2>3. Len(g) = n + 1 /\ g[n + 1] = e /\ \A m \in 1 .. n : g[m] = f[m]
    <3>1. e \in Spellings
      BY <2>2 DEF Spellings
    <3> HIDE DEF e
    <3> QED BY <3>1, AppendProperties
  <2> HIDE DEF g, n, e
  <2>a. k + 1 \in H \cup {k + 1} /\ Email[s[k + 1]] = e
    BY DEF e
  <2>b. n + 1 \in 1 .. n + 1 /\ \A m \in 1 .. n : m \in 1 .. n + 1
    BY <1>1
  <2>4. \A j \in H \cup {k + 1} : \E m \in 1 .. n + 1 : g[m] = Email[s[j]]
    BY <1>3, <2>3, <2>a, <2>b
  <2>5. \A m \in 1 .. n + 1 : m \in 1 .. n \/ m = n + 1
    BY <1>1
  <2>6. \A m \in 1 .. n + 1 : \E j \in H \cup {k + 1} : Email[s[j]] = g[m]
    <3> SUFFICES ASSUME NEW m \in 1 .. n + 1
                 PROVE  \E j \in H \cup {k + 1} : Email[s[j]] = g[m]
      OBVIOUS
    <3>1. CASE m \in 1 .. n
      <4>1. g[m] = f[m] /\ \E j \in H : Email[s[j]] = f[m]
        BY <1>3, <2>3, <3>1
      <4> QED BY <4>1
    <3>2. CASE m = n + 1
      BY <2>3, <2>a, <3>2
    <3> QED BY <2>5, <3>1, <3>2
  <2>7. ASSUME NEW m \in 1 .. n + 1, NEW l \in 1 .. n + 1, m < l
        PROVE  FirstBefore(s, H \cup {k + 1}, g[m], g[l])
    <3>1. m \in 1 .. n /\ g[m] = f[m]
      BY <1>1, <2>3, <2>7
    <3>2. CASE l \in 1 .. n
      <4>1. PICK j \in H : Email[s[j]] = f[m] /\ \A i \in H : Email[s[i]] = f[l] => j < i
        BY <1>3, <2>7, <3>1, <3>2 DEF FirstBefore
      <4>2. j < k + 1 /\ g[l] = f[l]
        BY <1>1, <2>3, <3>2
      <4> QED BY <3>1, <4>1, <4>2 DEF FirstBefore
    <3>3. CASE l = n + 1
      <4>1. PICK j \in H : Email[s[j]] = f[m]
        BY <1>3, <3>1
      <4>2. j < k + 1
        BY <1>1
      <4>3. \A i \in H : Email[s[i]] # e
        BY <1>3, <1>4, <1>7
      <4>4. g[l] = e
        BY <2>3, <3>3
      <4> QED BY <3>1, <4>1, <4>2, <4>3, <4>4 DEF FirstBefore
    <3> QED BY <2>5, <3>2, <3>3
  <2>8. Len(g) = n + 1
    BY <2>3
  <2>9. Lists(s, H \cup {k + 1}, g)
    BY <2>4, <2>6, <2>7, <2>8 DEF Lists
  <2> QED BY <2>1, <2>9
<1> QED BY <1>5, <1>6, <1>7

LEMMA ListingLists ==
    ASSUME NEW s \in Seq(DOMAIN Email)
    PROVE  Listing(s) \in Seq(Spellings) /\ Lists(s, Heard(s, Len(s)), Listing(s))
<1> DEFINE n == Len(s)
<1>1. PICK g \in [0 .. n -> Seq(Spellings)] :
          /\ g[0] = <<>> /\ Listing(s) = g[n]
          /\ \A k \in 1 .. n : g[k] = Listed(g[k - 1], s[k])
  BY ListHistory
<1>2. n \in Nat
  OBVIOUS
<1> DEFINE S == {k \in 0 .. n : Lists(s, Heard(s, k), g[k])}
<1>3. 0 \in S
  <2>1. Heard(s, 0) = {} /\ Len(<<>>) = 0
    BY DEF Heard
  <2>2. Lists(s, Heard(s, 0), <<>>)
    BY <2>1 DEF Lists
  <2> QED BY <1>1, <1>2, <2>2
<1>4. ASSUME NEW k \in 1 .. n, k - 1 \in S PROVE k \in S
  <2>1. k - 1 \in Nat /\ (k - 1) + 1 = k /\ k - 1 \in 0 .. n
    BY <1>2
  <2>2. g[k - 1] \in Seq(Spellings) /\ Lists(s, Heard(s, k - 1), g[k - 1])
    BY <1>1, <1>4, <2>1
  <2>3. Lists(s, Heard(s, (k - 1) + 1), Listed(g[k - 1], s[(k - 1) + 1]))
    BY <2>1, <2>2, ListsMore
  <2> QED BY <1>1, <2>1, <2>3
<1>5. Lists(s, Heard(s, n), g[n])
  <2> HIDE DEF S
  <2>1. \A k \in 1 .. n : k - 1 \in S => k \in S
    BY <1>4
  <2> HIDE DEF n
  <2>2. \A k \in 0 .. n : k \in S
    BY <1>2, <1>3, <2>1, Induction
  <2>3. n \in S
    BY <1>2, <2>2
  <2> QED BY <2>3 DEF S
<1>6. g[n] \in Seq(Spellings)
  BY <1>1, <1>2
<1> HIDE DEF n
<1> QED BY <1>1, <1>5, <1>6 DEF n

(* The places of the addresses that count are those of what is gone        *)
(* through, in the same order.                                             *)
LEMMA MetIsHeard ==
    ASSUME NEW A, NEW B,
           Placed([n \in 1 .. Len(page.nodes) + 1 |-> Reading(n)], Raw, Len(page.nodes) + 1, A, B),
           Raw \in Seq(DOMAIN Email), page.nodes \in Seq(TextNodes),
           page.recipients \in Seq(DOMAIN Email)
    PROVE  /\ \A p \in Met : \E j \in Heard(Raw, Len(Raw)) : p = <<A[j], B[j]>>
           /\ \A j \in Heard(Raw, Len(Raw)) :
                 <<A[j], B[j]>> \in Met /\ At(<<A[j], B[j]>>) = Email[Raw[j]]
           /\ \A i, j \in Heard(Raw, Len(Raw)) :
                 i < j => Earlier(<<A[i], B[i]>>, <<A[j], B[j]>>)
<1> DEFINE N == Len(page.nodes)
           R == [n \in 1 .. N + 1 |-> Reading(n)]
           H == Heard(Raw, Len(Raw))
<1>1. /\ \A j \in 1 .. Len(Raw) :
            A[j] \in 1 .. N + 1 /\ B[j] \in 1 .. Len(R[A[j]]) /\ Raw[j] = R[A[j]][B[j]]
      /\ \A i, j \in 1 .. Len(Raw) : i < j => A[i] < A[j] \/ (A[i] = A[j] /\ B[i] < B[j])
      /\ \A n \in 1 .. N + 1 : \A w \in 1 .. Len(R[n]) :
            \E j \in 1 .. Len(Raw) : A[j] = n /\ B[j] = w
  <2> HIDE DEF R, N
  <2> QED BY DEF Placed, R, N
<1>2. \A n \in 1 .. N + 1 : R[n] = Reading(n)
  OBVIOUS
<1>3. ASSUME NEW n \in 1 .. N + 1 PROVE DOMAIN Reading(n) = 1 .. Len(Reading(n))
  <2>1. CASE n > N
    BY <2>1 DEF Reading
  <2>2. CASE n <= N
    <3>1. n \in 1 .. N /\ ~(n > N)
      <4>1. N \in Nat
        OBVIOUS
      <4> HIDE DEF N
      <4> QED BY <2>2, <4>1
    <3>2. page.nodes[n].words \in Seq(DOMAIN Email)
      <4>1. page.nodes[n] \in TextNodes
        BY <3>1, Elements
      <4> QED BY <4>1 DEF TextNodes
    <3>3. Reading(n) \in {page.nodes[n].words, <<>>}
      BY <2>2, <3>1 DEF Reading
    <3> QED BY <3>2, <3>3
  <2>3. n > N \/ n <= N
    <3>1. N \in Nat
      OBVIOUS
    <3> HIDE DEF N
    <3> QED BY <3>1
  <2> QED BY <2>1, <2>2, <2>3
<1>4. \A p : p \in Met <=> /\ At(p) # NoEmail
                          /\ \E n \in 1 .. N + 1 : \E w \in DOMAIN Reading(n) : p = <<n, w>>
  BY DEF Met
<1>5. \A n, w : At(<<n, w>>) = Email[Reading(n)[w]]
  BY DEF At
<1>6. \A j : j \in H <=> j \in 1 .. Len(Raw) /\ Email[Raw[j]] # NoEmail
  BY DEF Heard
<1> HIDE DEF R, N, H
<1>7. ASSUME NEW j \in 1 .. Len(Raw)
      PROVE  /\ A[j] \in 1 .. N + 1 /\ B[j] \in DOMAIN Reading(A[j])
             /\ At(<<A[j], B[j]>>) = Email[Raw[j]]
  <2>1. A[j] \in 1 .. N + 1 /\ R[A[j]] = Reading(A[j])
    BY <1>1, <1>2
  <2>2. B[j] \in DOMAIN Reading(A[j]) /\ Raw[j] = Reading(A[j])[B[j]]
    BY <1>1, <1>3, <2>1
  <2> QED BY <1>5, <2>1, <2>2
<1>8. ASSUME NEW p \in Met PROVE \E j \in H : p = <<A[j], B[j]>>
  <2>1. PICK n \in 1 .. N + 1 : \E w \in DOMAIN Reading(n) : p = <<n, w>>
    BY <1>4
  <2>2. PICK w \in DOMAIN Reading(n) : p = <<n, w>>
    BY <2>1
  <2>3. w \in 1 .. Len(R[n])
    BY <1>2, <1>3
  <2>4. PICK j \in 1 .. Len(Raw) : A[j] = n /\ B[j] = w
    BY <1>1, <2>3
  <2>5. At(p) # NoEmail /\ p = <<A[j], B[j]>>
    BY <1>4, <2>2, <2>4
  <2> QED BY <1>6, <1>7, <2>5
<1>9. ASSUME NEW j \in H
      PROVE  <<A[j], B[j]>> \in Met /\ At(<<A[j], B[j]>>) = Email[Raw[j]]
  BY <1>4, <1>6, <1>7
<1>10. ASSUME NEW i \in H, NEW j \in H, i < j
       PROVE  Earlier(<<A[i], B[i]>>, <<A[j], B[j]>>)
  <2>1. A[i] < A[j] \/ (A[i] = A[j] /\ B[i] < B[j])
    BY <1>1, <1>6, <1>10
  <2> QED BY <2>1 DEF Earlier
<1> QED BY <1>8, <1>9, <1>10 DEF H

(* What is listed is what has been met, in the order of first meeting. *)
LEMMA ListedOnce ==
    ASSUME page.nodes \in Seq(TextNodes), page.recipients \in Seq(DOMAIN Email)
    PROVE  EmailsAreListedOnce
<1> SUFFICES ASSUME HiddenDirectly
             PROVE  /\ ToSet(Emails) = {At(p) : p \in Met}
                    /\ \A i, k \in DOMAIN Emails : i < k =>
                          \A q \in Met : At(q) = Emails[k] =>
                             \E p \in Met : At(p) = Emails[i] /\ Earlier(p, q)
  BY DEF EmailsAreListedOnce
<1> DEFINE H == Heard(Raw, Len(Raw))
           f == Emails
<1>1. Raw \in Seq(DOMAIN Email)
  BY RawType
<1>2. PICK A, B : Placed([n \in 1 .. Len(page.nodes) + 1 |-> Reading(n)], Raw,
                         Len(page.nodes) + 1, A, B)
  BY RawPlaced
<1>3. /\ \A p \in Met : \E j \in H : p = <<A[j], B[j]>>
      /\ \A j \in H : <<A[j], B[j]>> \in Met /\ At(<<A[j], B[j]>>) = Email[Raw[j]]
      /\ \A i, j \in H : i < j => Earlier(<<A[i], B[i]>>, <<A[j], B[j]>>)
  BY <1>1, <1>2, MetIsHeard
<1>4. f = Listing(Raw)
  BY DEF Emails, Listing, Listed
<1>5. f \in Seq(Spellings) /\ Lists(Raw, H, f)
  BY <1>1, <1>4, ListingLists
<1> HIDE DEF f, H
<1>6. DOMAIN f = 1 .. Len(f)
  BY <1>5
<1>7. /\ \A j \in H : \E m \in 1 .. Len(f) : f[m] = Email[Raw[j]]
      /\ \A m \in 1 .. Len(f) : \E j \in H : Email[Raw[j]] = f[m]
      /\ \A m, l \in 1 .. Len(f) : m < l => FirstBefore(Raw, H, f[m], f[l])
  BY <1>5 DEF Lists
<1>8. ToSet(f) = {At(p) : p \in Met}
  <2>1. ToSet(f) = {f[m] : m \in 1 .. Len(f)}
    BY <1>6 DEF ToSet
  <2>2. ASSUME NEW m \in 1 .. Len(f) PROVE f[m] \in {At(p) : p \in Met}
    <3>1. PICK j \in H : Email[Raw[j]] = f[m]
      BY <1>7
    <3>2. <<A[j], B[j]>> \in Met /\ At(<<A[j], B[j]>>) = f[m]
      BY <1>3, <3>1
    <3> QED BY <3>2
  <2>3. ASSUME NEW p \in Met PROVE At(p) \in {f[m] : m \in 1 .. Len(f)}
    <3>1. PICK j \in H : p = <<A[j], B[j]>>
      BY <1>3
    <3>2. PICK m \in 1 .. Len(f) : f[m] = Email[Raw[j]]
      BY <1>7
    <3> QED BY <1>3, <3>1, <3>2
  <2> QED BY <2>1, <2>2, <2>3
<1>9. ASSUME NEW i \in DOMAIN f, NEW k \in DOMAIN f, i < k, NEW q \in Met, At(q) = f[k]
      PROVE  \E p \in Met : At(p) = f[i] /\ Earlier(p, q)
  <2>1. FirstBefore(Raw, H, f[i], f[k])
    BY <1>6, <1>7, <1>9
  <2>2. PICK j \in H : /\ Email[Raw[j]] = f[i]
                       /\ \A m \in H : Email[Raw[m]] = f[k] => j < m
    BY <2>1 DEF FirstBefore
  <2>3. PICK l \in H : q = <<A[l], B[l]>>
    BY <1>3
  <2>4. Email[Raw[l]] = f[k]
    BY <1>3, <1>9, <2>3
  <2>5. j < l
    BY <2>2, <2>4
  <2>6. Earlier(<<A[j], B[j]>>, q)
    BY <1>3, <2>3, <2>5
  <2>7. <<A[j], B[j]>> \in Met /\ At(<<A[j], B[j]>>) = f[i]
    BY <1>3, <2>2
  <2> QED BY <2>6, <2>7
<1> QED BY <1>8, <1>9 DEF f

-----------------------------------------------------------------------------
(* The link of an anchor *)

(* A usable anchor has a link to its target, and a link names the same     *)
(* resource only if it is that one.                                        *)
LEMMA AnchorLink ==
    ASSUME IInv, pc = "visit", LiteralBase, NEW i \in DOMAIN page.anchors,
           Usable(page.anchors[i])
    PROVE  /\ page.anchors[i].path \in Seq(Segments)
           /\ Target(i).host = page.anchors[i].host
           /\ Target(i).path = NormalizePath(page.anchors[i].path)
           /\ \E l \in DOMAIN links : links[l].url = Target(i)
           /\ \A l \in DOMAIN links :
                 SameResource(links[l].url, page.anchors[i]) <=> links[l].url = Target(i)
<1> DEFINE b == page.anchors[i]
           a == Written(b)
<1>1. Fine(a) /\ Target(i) = Normalized(a, FALSE) /\ Target(i) # NoUrl
  BY UsableTarget
<1>2. a.host = b.host /\ a.path = b.path
  BY DEF Absolute, Written
<1>3. a.path \in Seq(Segments)
  <2> HIDE DEF a
  <2> QED BY <1>1, UrlFields DEF Fine
<1>4. Normalized(a, FALSE).host = a.host /\ Normalized(a, FALSE).path = NormalizePath(a.path)
  <2> HIDE DEF a
  <2> QED BY <1>1, NormalizedOfFine
<1>5. Known(Target(i))
  <2>1. PageOk /\ AllLinked /\ next = Len(page.anchors) + 1
    BY DEF IInv
  <2>2. i \in 1 .. next - 1
    BY <2>1 DEF PageOk
  <2> QED BY <1>1, <2>1, <2>2 DEF AllLinked
<1>6. ASSUME NEW l \in DOMAIN links
      PROVE  SameResource(links[l].url, b) <=> links[l].url = Target(i)
  <2>1. NormalUrl(links[l].url)
    BY LinkIsNormal
  <2>2. SameResource(links[l].url, a) <=> links[l].url = Normalized(a, FALSE)
    <3> HIDE DEF a
    <3> QED BY <1>1, <2>1, NormalResource
  <2>3. SameResource(links[l].url, a) <=> SameResource(links[l].url, b)
    BY WrittenResource
  <2> QED BY <1>1, <2>2, <2>3
<1> HIDE DEF a
<1> QED BY <1>1, <1>2, <1>3, <1>4, <1>5, <1>6 DEF Known

LEMMA LoweredType ==
    ASSUME NEW path \in Seq(Segments)
    PROVE  /\ Lowered(path) \in Seq(Segments) /\ Len(Lowered(path)) = Len(path)
           /\ \A i \in 1 .. Len(path) :
                 /\ Lowered(path)[i] = Lower[path[i]]
                 /\ Lower[Lowered(path)[i]] = Lowered(path)[i]
<1>1. DOMAIN path = 1 .. Len(path) /\ Len(path) \in Nat /\ \A i \in 1 .. Len(path) : path[i] \in Segments
  OBVIOUS
<1>2. \A s \in Segments : Lower[s] \in Segments /\ Lower[Lower[s]] = Lower[s]
  BY ContentAssumption
<1>3. Lowered(path) = [i \in 1 .. Len(path) |-> Lower[path[i]]]
  BY <1>1 DEF Lowered
<1>4. Lowered(path) \in Seq(Segments) /\ Len(Lowered(path)) = Len(path)
  BY <1>1, <1>2, <1>3
<1>5. \A i \in 1 .. Len(path) : Lowered(path)[i] = Lower[path[i]]
  BY <1>3
<1> QED BY <1>1, <1>2, <1>4, <1>5

-----------------------------------------------------------------------------
(* detect_social_links *)

(* Unless a word stands alone, the prefixes tell what shares or plays, and *)
(* case makes no difference to them.                                       *)
LEMMA ProfilePath ==
    ASSUME NEW platform, NEW u, Meaning(u.path) \in Seq(Segments), ~Bare(platform, Meaning(u.path))
    PROVE  IsProfilePath(platform, Meaning(u.path))
           <=> ~(Meaning(u.path) = <<>> \/ ActsFor(platform, u))
<1> DEFINE path == Meaning(u.path)
           low == Lowered(path)
           first == Lower[path[1]]
           second == Lower[path[2]]
           long == Len(path) > 1
<1>1. CASE path = <<>>
  BY <1>1 DEF IsProfilePath
<1>2. CASE path # <<>>
  <2>1. /\ Len(path) \in Nat /\ Len(low) = Len(path) /\ Len(path) # 0
    BY <1>2, LoweredType
  <2>2. 1 \in 1 .. Len(path) /\ (long => 2 \in 1 .. Len(path)) /\ (~long => Len(path) = 1)
    <3> DEFINE n == Len(path)
    <3>1. n \in Nat /\ n # 0
      BY <2>1
    <3> HIDE DEF n
    <3>2. 1 \in 1 .. n /\ (n > 1 => 2 \in 1 .. n) /\ (~(n > 1) => n = 1)
      BY <3>1
    <3> QED BY <3>2 DEF n
  <2>3. low[1] = first /\ (long => low[2] = second) /\ low # <<>> /\ (Len(low) > 1 <=> long)
    BY <2>1, <2>2, LoweredType
  <2>4. ~long => first \notin {"intent", "sharing"} /\ ~(platform = "youtube" /\ first = "shorts")
    BY <2>2 DEF Bare
  <2>5. ActsFor(platform, u)
        <=> \/ first \in Share \cup {"intent", "sharing"}
            \/ long /\ first = "dialog" /\ second \in Share
            \/ platform = "youtube" /\ first \in Video \cup {"shorts"}
    <3>1. ActsFor(platform, u)
          <=> \/ low # <<>> /\ low[1] \in Share \cup {"intent", "sharing"}
              \/ Len(low) > 1 /\ low[1] = "dialog" /\ low[2] \in Share
              \/ platform = "youtube" /\ low # <<>> /\ low[1] \in Video \cup {"shorts"}
      BY DEF ActsFor
    <3> HIDE DEF low, long, first, second
    <3> QED BY <2>3, <3>1, Zenon
  <2>6. Sharing(path) <=> \/ first \in Share
                          \/ long /\ first \in {"intent", "sharing"}
                          \/ long /\ first = "dialog" /\ second \in Share
    BY DEF Sharing
  <2>7. Watching(path) <=> first \in Video \/ (long /\ first = "shorts")
    BY DEF Watching
  <2> HIDE DEF low, long, first, second, path
  <2>8. IsProfilePath(platform, path) <=> ~Sharing(path) /\ (platform = "youtube" => ~Watching(path))
    BY <1>2 DEF IsProfilePath
  <2>9. first \in Share \cup {"intent", "sharing"} <=> first \in Share \/ first \in {"intent", "sharing"}
    OBVIOUS
  <2>10. first \in Video \cup {"shorts"} <=> first \in Video \/ first = "shorts"
    OBVIOUS
  <2>11. IsProfilePath(platform, path) <=> ~ActsFor(platform, u)
    BY <2>4, <2>5, <2>6, <2>7, <2>8, <2>9, <2>10, Zenon
  <2> QED BY <1>2, <2>11 DEF path
<1> QED BY <1>1, <1>2

(* Without two slashes in front, the normal form of a path is its meaning. *)
LEMMA PlainPath ==
    ASSUME NEW path \in Seq(Segments), ~TwoSlashes(Decoded(path))
    PROVE  NormalizePath(path) = Meaning(path) /\ Meaning(path) \in Seq(Segments)
<1>1. Kept(path) = Meaning(path) /\ Kept(path) \in Seq(Segments)
  BY KeptIsMeaning, KeptType
<1>2. NormalizePath(path) = Kept(path)
  BY DEF NormalizePath, NormPath, Kept
<1> QED BY <1>1, <1>2

(* The candidates for an anchor are the one record with its target, or none. *)
LEMMA ProfilesHold == IInv => ProfilesAreFound
<1> SUFFICES ASSUME IInv, pc = "visit", AllUsable,
                    NEW i \in DOMAIN page.anchors, NEW p \in Platforms,
                    On(p, page.anchors[i].host),
                    ~TwoSlashes(Decoded(page.anchors[i].path)),
                    ~Bare(p, Meaning(page.anchors[i].path))
             PROVE  Cardinality({c \in Profiles : c.platform = p
                                                  /\ SameResource(c.url, page.anchors[i])})
                    = IF Meaning(page.anchors[i].path) = <<>> \/ ActsFor(p, page.anchors[i])
                      THEN 0 ELSE 1
  BY DEF ProfilesAreFound
<1> DEFINE a == page.anchors[i]
           u == Target(i)
           r == [platform |-> p, url |-> u]
           same == {c \in Profiles : c.platform = p /\ SameResource(c.url, a)}
<1>1. Usable(a) /\ LiteralBase
  BY DEF AllUsable
<1>2. /\ a.path \in Seq(Segments) /\ u.host = a.host /\ u.path = NormalizePath(a.path)
      /\ \E l \in DOMAIN links : links[l].url = u
      /\ \A l \in DOMAIN links : SameResource(links[l].url, a) <=> links[l].url = u
  BY <1>1, AnchorLink
<1>3. u.path = Meaning(a.path) /\ Meaning(a.path) \in Seq(Segments)
  BY <1>2, PlainPath
<1>4. IsProfilePath(p, u.path) <=> ~(Meaning(a.path) = <<>> \/ ActsFor(p, a))
  BY <1>3, ProfilePath
<1>5. On(p, u.host)
  BY <1>2
<1> HIDE DEF a, u
<1>6. ASSUME NEW c \in same PROVE c = r /\ IsProfilePath(p, u.path)
  <2>1. /\ c \in SocialLinks /\ IsProfilePath(c.platform, c.url.path)
        /\ c.platform = p /\ SameResource(c.url, a)
    BY <1>6 DEF Profiles
  <2>2. PICK q \in Platforms, l \in DOMAIN links : c = [platform |-> q, url |-> links[l].url]
    BY <2>1 DEF SocialLinks, ToSet
  <2>3. c.platform = q /\ c.url = links[l].url
    BY <2>2
  <2>4. q = p /\ links[l].url = u
    BY <1>2, <2>1, <2>3
  <2> QED BY <2>1, <2>2, <2>3, <2>4
<1>7. ASSUME IsProfilePath(p, u.path) PROVE r \in same
  <2>1. PICK l \in DOMAIN links : links[l].url = u
    BY <1>2
  <2>2. r \in SocialLinks
    BY <2>1 DEF SocialLinks, ToSet
  <2>3. r.platform = p /\ r.url = u
    OBVIOUS
  <2>4. SameResource(u, a)
    BY <1>2, <2>1
  <2> HIDE DEF r
  <2> QED BY <1>5, <1>7, <2>2, <2>3, <2>4 DEF Profiles
<1> HIDE DEF same, r
<1>8. CASE IsProfilePath(p, u.path)
  <2>1. same = {r}
    BY <1>6, <1>7, <1>8
  <2> QED BY <1>4, <1>8, <2>1, FS_Singleton DEF same, a
<1>9. CASE ~IsProfilePath(p, u.path)
  <2>1. same = {}
    BY <1>6, <1>9
  <2> QED BY <1>4, <1>9, <2>1, FS_EmptySet DEF same, a
<1> QED BY <1>8, <1>9

-----------------------------------------------------------------------------
(* detect_important_pages *)

(* Among leaves out a first element that is not wanted. *)
LEMMA AmongAfterOne ==
    ASSUME NEW A, NEW w \in Seq(A), NEW S, NEW m
    PROVE  (/\ m \in Seq(A) /\ Len(w) = Len(m) + 1 /\ w[1] \notin S
            /\ \A i \in 1 .. Len(m) : w[i + 1] = m[i] /\ m[i] \in S)
           => Among(w, S) = m
<1>1. PICK g \in [0 .. Len(w) -> Seq(A)] :
          /\ g[0] = <<>> /\ Among(w, S) = g[Len(w)]
          /\ \A k \in 1 .. Len(w) : g[k] = IF w[k] \in S THEN Append(g[k - 1], w[k]) ELSE g[k - 1]
  BY AmongHistory
<1>0. SUFFICES ASSUME m \in Seq(A), Len(w) = Len(m) + 1, w[1] \notin S,
                      \A i \in 1 .. Len(m) : w[i + 1] = m[i] /\ m[i] \in S
               PROVE  Among(w, S) = m
  OBVIOUS
<1> DEFINE h == [k \in 0 .. Len(m) |-> g[k + 1]]
<1>2. Len(m) \in Nat
  OBVIOUS
<1>3. h \in [0 .. Len(m) -> Seq(A)]
  BY <1>0, <1>1, <1>2
<1>4. h[0] = <<>>
  <2>1. 1 \in 1 .. Len(w) /\ 0 \in 0 .. Len(m)
    BY <1>0, <1>2
  <2>2. g[1] = g[1 - 1]
    BY <1>0, <1>1, <2>1
  <2> QED BY <1>1, <2>1, <2>2
<1>5. ASSUME NEW k \in 1 .. Len(m) PROVE h[k] = Append(h[k - 1], m[k])
  <2>1. /\ k + 1 \in 1 .. Len(w) /\ (k + 1) - 1 = k
        /\ k \in 0 .. Len(m) /\ k - 1 \in 0 .. Len(m) /\ (k - 1) + 1 = k
    BY <1>0, <1>2
  <2>2. w[k + 1] = m[k] /\ m[k] \in S
    BY <1>0
  <2>3. g[k + 1] = Append(g[k], m[k])
    BY <1>1, <2>1, <2>2
  <2> QED BY <2>1, <2>3
<1>6. h[Len(m)] = g[Len(w)]
  BY <1>0, <1>2
<1> HIDE DEF h
<1>7. h[Len(m)] = m
  <2>1. m \in Seq(A)
    BY <1>0
  <2>2. h[0] = <<>> /\ (\A k \in 1 .. Len(m) : h[k] = Append(h[k - 1], m[k]))
        => h[Len(m)] = m
    BY ONLY <1>3, <2>1, CopyHistory
  <2> QED BY <1>4, <1>5, <2>2
<1> QED BY <1>1, <1>6, <1>7

(* The empty segments make no difference: what normalisation leaves of a   *)
(* path shows what the path means.                                         *)
LEMMA SegmentsOfMeaning ==
    ASSUME NEW path \in Seq(Segments)
    PROVE  PathSegments(NormalizePath(path)) = Lowered(Meaning(path))
<1> DEFINE m == Kept(path)
           e == ""
           S == Segments \ {e}
<1>1. /\ m = Meaning(path) /\ m \in Seq(Segments) /\ \A i \in 1 .. Len(m) : m[i] \in S
  <2>1. m = Meaning(path) /\ m \in Seq(Segments) /\ \A i \in 1 .. Len(m) : m[i] \notin Dots
    BY KeptIsMeaning, KeptType
  <2>2. \A i \in 1 .. Len(m) : m[i] \in Segments
    BY <2>1, Elements
  <2> HIDE DEF m
  <2> QED BY <2>1, <2>2 DEF Dots
<1>2. NormalizePath(path) \in {m, <<e>> \o m}
  BY DEF NormalizePath, NormPath, Kept
<1>3. e \in Segments /\ e \notin S
  BY SegmentAssumption
<1> HIDE DEF m, e, S
<1>4. Among(m, S) = m
  BY <1>1, AmongAll
<1>5. Among(<<e>> \o m, S) = m
  <2> DEFINE w == <<e>> \o m
  <2>1. w \in Seq(Segments) /\ Len(w) = Len(m) + 1 /\ w[1] = e
        /\ \A i \in 1 .. Len(m) : w[i + 1] = m[i]
    BY <1>1, <1>3, Prefixed
  <2> HIDE DEF w
  <2> QED BY <1>1, <1>3, <2>1, AmongAfterOne DEF w
<1> QED BY <1>1, <1>2, <1>4, <1>5 DEF PathSegments, S, e

(* An anchor to something new has a link of its own, the only one with its *)
(* target.                                                                 *)
LEMMA OwnLink ==
    ASSUME IInv, pc = "visit", AllUsable, NEW i \in DOMAIN page.anchors, FirstOf(i)
    PROVE  /\ \E l \in DOMAIN links : links[l].anchor = i
           /\ \A l \in DOMAIN links : links[l].url = Target(i) <=> links[l].anchor = i
<1>1. PageOk /\ LinksOk /\ AllLinked /\ next = Len(page.anchors) + 1
  BY DEF IInv
<1>2. Len(page.anchors) \in Nat /\ DOMAIN page.anchors = 1 .. Len(page.anchors)
  BY <1>1 DEF PageOk
<1>3. LiteralBase /\ \A k \in 1 .. i : Usable(page.anchors[k])
  BY <1>2 DEF AllUsable
<1>4. Linked(i)
  BY <1>3, FirstIsLinked DEF FirstOf
<1>5. i \in 1 .. next - 1
  BY <1>1, <1>2
<1>6. \A k \in 1 .. i - 1 : Target(k) # Target(i)
  BY <1>1, <1>4, <1>5 DEF AllLinked
<1>7. ASSUME NEW l \in DOMAIN links PROVE links[l].url = Target(i) <=> links[l].anchor = i
  <2> DEFINE k == links[l].anchor
  <2>1. k \in 1 .. next - 1 /\ links[l].url = Target(k)
    BY <1>1 DEF LinksOk
  <2>2. Linked(k)
    BY DEF Linked
  <2> HIDE DEF k
  <2>3. \A j \in 1 .. k - 1 : Target(j) # Target(k)
    BY <1>1, <2>1, <2>2 DEF AllLinked
  <2>4. ASSUME Target(k) = Target(i) PROVE k = i
    <3>1. i \notin 1 .. k - 1 /\ k \notin 1 .. i - 1
      BY <1>6, <2>3, <2>4
    <3>2. k \in Nat \ {0} /\ i \in Nat \ {0}
      BY <1>1, <1>2, <2>1
    <3> QED BY <3>1, <3>2
  <2> QED BY <2>1, <2>4 DEF k
<1> QED BY <1>4, <1>7 DEF Linked

(* The candidates for an anchor come from its own link: its text counts,   *)
(* and that of no other anchor.                                            *)
LEMMA HubsHold == IInv => HubsAreFound
<1> SUFFICES ASSUME IInv, pc = "visit", AllUsable, Settled,
                    NEW i \in DOMAIN page.anchors, NEW t \in Types,
                    FirstOf(i), page.anchors[i].host = Root
             PROVE  LET same == {c \in Candidates :
                                    c.type = t /\ SameResource(c.url, page.anchors[i])}
                    IN  /\ Cardinality(same) <= 1
                        /\ Names(page.anchors[i], t) <=> \E c \in same : c.confidence > 90
                        /\ same # {} <=> Names(page.anchors[i], t) \/ TextMatch(Text(i), t)
  BY DEF HubsAreFound
<1> DEFINE a == page.anchors[i]
           u == Target(i)
           own == [url |-> u, anchor |-> i, internal |-> TRUE]
           r == [type |-> t, url |-> u, confidence |-> Confidence(own, t)]
           same == {c \in Candidates : c.type = t /\ SameResource(c.url, a)}
<1>1. Usable(a) /\ LiteralBase
  BY DEF AllUsable
<1>2. /\ a.path \in Seq(Segments) /\ u.host = a.host /\ u.path = NormalizePath(a.path)
      /\ \A l \in DOMAIN links : SameResource(links[l].url, a) <=> links[l].url = u
  BY <1>1, AnchorLink
<1>3. /\ \E l \in DOMAIN links : links[l].anchor = i
      /\ \A l \in DOMAIN links : links[l].url = u <=> links[l].anchor = i
  BY OwnLink
<1>4. Internal(u)
  <2>1. PICK l \in DOMAIN links : links[l].url = u
    BY <1>3
  <2>2. NormalUrl(u) /\ Literal(u) /\ ~Unfit(u)
    BY <2>1, LinkIsNormal DEF Settled
  <2> HIDE DEF u
  <2>3. Canonical(u, FALSE) = u
    BY <2>2, CanonicalIsFixed DEF Literal, Plain
  <2>4. u # NoUrl
    BY <2>2, NoUrlAssumption DEF NormalUrl
  <2> QED BY <1>2, <2>3, <2>4 DEF Internal
<1>5. ASSUME NEW l \in DOMAIN links, links[l].url = u
      PROVE  links[l] = own
  <2>1. LinksOk
    BY DEF IInv
  <2>2. links[l] \in [url : Urls, anchor : Nat, internal : BOOLEAN]
    <3> DEFINE R == [url : Urls, anchor : Nat, internal : BOOLEAN]
    <3>1. links \in Seq(R) /\ l \in 1 .. Len(links)
      BY <2>1 DEF LinksOk
    <3> HIDE DEF R
    <3> QED BY <3>1, ElementOfSeq DEF R
  <2>3. links[l].anchor = i /\ links[l].internal = Internal(u)
    BY <1>3, <1>5, <2>1 DEF LinksOk
  <2> HIDE DEF u
  <2> QED BY <1>4, <1>5, <2>2, <2>3 DEF Internal
<1>6. PathMatch(u.path, t) <=> Names(a, t)
  BY <1>2, SegmentsOfMeaning DEF PathMatch, Names
<1>7. own.url = u /\ own.anchor = i /\ own.internal = TRUE
  OBVIOUS
<1> HIDE DEF a, u, own
<1>8. /\ Confidence(own, t) \in {0, 80, 95, 99}
      /\ Confidence(own, t) > 90 <=> Names(a, t)
      /\ Confidence(own, t) # 0 <=> Names(a, t) \/ TextMatch(Text(i), t)
  <2> DEFINE path == PathMatch(u.path, t)
             text == TextMatch(Text(i), t)
  <2>1. Confidence(own, t) = CASE path /\ text -> 99
                               [] path /\ ~text -> 95
                               [] ~path /\ text -> 80
                               [] OTHER -> 0
    BY <1>7 DEF Confidence
  <2>2. path \in BOOLEAN /\ text \in BOOLEAN
    BY DEF PathMatch, TextMatch
  <2>3. path <=> Names(a, t)
    BY <1>6
  <2> HIDE DEF path, text
  <2>4. /\ Confidence(own, t) \in {0, 80, 95, 99}
        /\ Confidence(own, t) > 90 <=> path
        /\ Confidence(own, t) # 0 <=> path \/ text
    BY <2>1, <2>2
  <2> QED BY <2>3, <2>4 DEF text
<1>9. r.type = t /\ r.url = u /\ r.confidence = Confidence(own, t)
  OBVIOUS
<1>10. ASSUME NEW c \in same PROVE c = r /\ r.confidence # 0
  <2>1. c \in ImportantPages /\ c.confidence # 0 /\ c.type = t /\ SameResource(c.url, a)
    BY <1>10 DEF Candidates
  <2>2. PICK s \in Types, l \in DOMAIN links :
            c = [type |-> s, url |-> links[l].url, confidence |-> Confidence(links[l], s)]
    BY <2>1 DEF ImportantPages, ToSet
  <2>3. c.type = s /\ c.url = links[l].url
    BY <2>2
  <2>4. s = t /\ links[l].url = u
    BY <1>2, <2>1, <2>3
  <2>5. links[l] = own
    BY <1>5, <2>4
  <2>6. c = r
    BY <2>2, <2>4, <2>5
  <2> QED BY <2>1, <2>6
<1>11. ASSUME r.confidence # 0 PROVE r \in same
  <2>1. PICK l \in DOMAIN links : links[l].anchor = i
    BY <1>3
  <2>2. links[l].url = u /\ links[l] = own
    BY <1>3, <1>5, <2>1
  <2>3. own \in {k \in ToSet(links) : k.internal}
    BY <1>7, <2>2 DEF ToSet
  <2>4. r \in ImportantPages
    BY <1>7, <2>3 DEF ImportantPages
  <2>5. SameResource(u, a)
    BY <1>2, <2>2
  <2> HIDE DEF r
  <2> QED BY <1>9, <1>11, <2>4, <2>5 DEF Candidates
<1> HIDE DEF same, r
<1>12. CASE r.confidence = 0
  <2>1. same = {}
    BY <1>10, <1>12
  <2>2. Cardinality(same) <= 1
    BY <2>1, FS_EmptySet
  <2>3. ~Names(a, t) /\ ~TextMatch(Text(i), t)
    BY <1>8, <1>9, <1>12
  <2> QED BY <2>1, <2>2, <2>3 DEF same, a
<1>13. CASE r.confidence # 0
  <2>1. same = {r}
    BY <1>10, <1>11, <1>13
  <2>2. Cardinality(same) <= 1
    <3>1. Cardinality({r}) = 1
      BY FS_Singleton
    <3> QED BY <2>1, <3>1
  <2>3. Names(a, t) <=> \E c \in same : c.confidence > 90
    BY <1>8, <1>9, <2>1
  <2>4. same # {} /\ (Names(a, t) \/ TextMatch(Text(i), t))
    BY <1>8, <1>9, <1>13, <2>1
  <2> QED BY <2>1, <2>2, <2>3, <2>4 DEF same, a
<1> QED BY <1>12, <1>13

-----------------------------------------------------------------------------
(* Hubs are found by what they are, once for each type, and of the other   *)
(* pages those, below them, that the text of the first link calls a hub.   *)
THEOREM FoundHubs == Spec => []HubsAreFound
<1> QED BY HubsHold, InvariantHolds, PTL

(* A resource on a social platform is a profile, listed once, unless it is *)
(* the front page, shares or plays, however its URL is written, if no word *)
(* of sharing stands alone.                                                *)
THEOREM FoundProfiles == Spec => []ProfilesAreFound
<1> QED BY ProfilesHold, InvariantHolds, PTL

(* The text nodes and the recipients of the page stay what they were. *)
ContentOk == page.nodes \in Seq(TextNodes) /\ page.recipients \in Seq(DOMAIN Email)

(* Exactly the addresses that the page shows or writes to are listed, each *)
(* once, in the order in which they are first met, if no element around    *)
(* another hides a text.                                                   *)
THEOREM ListedEmails == Spec => []EmailsAreListedOnce
<1>1. Init => ContentOk
  BY ContentAssumption DEF Init, ContentOk, TextNodes
<1>2. ContentOk /\ [Next]_vars => ContentOk'
  <2>1. [Next]_vars => page' = page
    BY DEF Next, Refuse, Extract, Raise, Return, Visit, Done, vars
  <2> QED BY <2>1 DEF ContentOk
<1>3. ContentOk => EmailsAreListedOnce
  BY ListedOnce DEF ContentOk
<1> QED BY <1>1, <1>2, <1>3, PTL DEF Spec
=============================================================================
