---------------------------- MODULE LinkExtraction ---------------------------
(***************************************************************************)
(* extract_links on one page, anchor by anchor, and what happens to its    *)
(* links afterwards: before a link is fetched, validate_public_url         *)
(* normalises it once more.                                                *)
(***************************************************************************)
EXTENDS UrlNormalizer

CONSTANTS
    Root,     \* the host that is crawled
    Pages     \* a sequence of sets of pages: [url, base, anchors] is the URL
              \* of a page, the href of its base element or NoUrl, its hrefs

Malformed == [kind |-> "malformed"]

Hrefs == References \cup {Malformed}

ASSUME PagesAssumption ==
    \A i \in DOMAIN Pages : \A p \in Pages[i] :
        /\ p.url \in Urls /\ p.base \in Hrefs \cup {NoUrl}
        /\ p.anchors \in Seq(Hrefs)

VARIABLES
    page,
    pc,
    next,      \* index of the anchor in hand
    links,     \* links_by_url, in order of insertion
    visited    \* what the validator makes of each link

vars == <<page, pc, next, links, visited>>

(* The base element counts if what it says, joined with the page's URL as  *)
(* it is, can be normalised.                                               *)
DocumentBase(p) ==
    LET base == IF p.base = NoUrl THEN p.url ELSE Join(p.url, Unescaped(p.base))
    IN  IF Canonical(base, FALSE) = NoUrl THEN p.url ELSE base

Init ==
    /\ \E i \in DOMAIN Pages : page \in Pages[i]
    /\ pc = "extract"
    /\ next = 1
    /\ links = <<>>
    /\ visited = <<>>

Accepted == Canonical(page.url, FALSE) # NoUrl

(* The page's own URL is refused: extraction raises before any anchor. *)
Refuse ==
    /\ pc = "extract" /\ ~Accepted
    /\ pc' = "raised"
    /\ UNCHANGED <<page, next, links, visited>>

Anchor == page.anchors[next]

Known(url) == \E i \in DOMAIN links : links[i].url = url

(* CrawlScope.contains normalises the link again. *)
Internal(url) == Canonical(url, FALSE) # NoUrl /\ url.host = Root

(* Seeded bug: a link seen again replaces the text of the first one. *)
Add_LastWins(url) ==
    links' = Append(SelectSeq(links, LAMBDA l : l.url # url),
                    [url |-> url, anchor |-> next, internal |-> Internal(url)])

Add(url) ==
    IF Known(url) THEN UNCHANGED links
    ELSE links' = Append(links, [url |-> url, anchor |-> next, internal |-> Internal(url)])

(* An href is unescaped here and once more by normalize_url. *)
Extract ==
    /\ pc = "extract" /\ Accepted /\ page.base # Malformed
    /\ next <= Len(page.anchors) /\ Anchor # Malformed
    /\ LET url == Resolve(Unescaped(Anchor), DocumentBase(page), FALSE)
       IN  \/ url = NoUrl /\ UNCHANGED links
           \/ url # NoUrl /\ Add(url)
    /\ next' = next + 1
    /\ UNCHANGED <<page, pc, visited>>

(* urlsplit raises a plain ValueError for an unbalanced bracket, which the *)
(* except clauses do not name: the links found so far are lost.            *)
Raise ==
    /\ pc = "extract" /\ Accepted
    /\ page.base = Malformed \/ (next <= Len(page.anchors) /\ Anchor = Malformed)
    /\ pc' = "raised"
    /\ links' = <<>>
    /\ UNCHANGED <<page, next, visited>>

Return ==
    /\ pc = "extract" /\ Accepted /\ page.base # Malformed
    /\ next > Len(page.anchors)
    /\ pc' = "visit"
    /\ UNCHANGED <<page, next, links, visited>>

Visit ==
    /\ pc = "visit" /\ Len(visited) < Len(links)
    /\ visited' = Append(visited, Canonical(links[Len(visited) + 1].url, TRUE))
    /\ UNCHANGED <<page, pc, next, links>>

Done ==
    /\ pc = "raised" \/ (pc = "visit" /\ Len(visited) = Len(links))
    /\ UNCHANGED vars

Next == Refuse \/ Extract \/ Raise \/ Return \/ Visit \/ Done

Spec == Init /\ [][Next]_vars

-----------------------------------------------------------------------------
(* What a URL identifies, told without the steps of normalize_url.         *)

Ordinary(s) == s \notin {"", ".", ".."}

Counted(path, i, j, Is(_)) == Cardinality({k \in i .. j : Is(path[k])})

IsUp(s) == s = ".."

(* A segment stays unless the path climbs above it further on. *)
Stays(path, i) ==
    /\ Ordinary(path[i])
    /\ \A j \in i + 1 .. Len(path) :
          Counted(path, i + 1, j, IsUp) <= Counted(path, i + 1, j, Ordinary)

Meaning(path) ==
    LET d == Decoded(path)
        kept == Among([i \in DOMAIN d |-> i], {i \in DOMAIN d : Stays(d, i)})
    IN  [i \in DOMAIN kept |-> d[kept[i]]]

Occurs(query, p) == Cardinality({i \in DOMAIN query : query[i] = p})

EffectivePort(u) == IF u.port = NoPort THEN DefaultPort(u.scheme) ELSE u.port

(* Dot segments, escapes, empty segments, default ports, tracking          *)
(* parameters and the order of parameters make no difference.  Two slashes *)
(* at the front of a path do, since normpath keeps them.                   *)
SameResource(u, v) ==
    /\ u.scheme = v.scheme /\ u.host = v.host /\ EffectivePort(u) = EffectivePort(v)
    /\ Meaning(u.path) = Meaning(v.path)
    /\ Meaning(u.path) # <<>> => TwoSlashes(u.path) = TwoSlashes(v.path)
    /\ Wanted(u.query) = Wanted(v.query)
    /\ \A p \in Wanted(u.query) : Occurs(u.query, p) = Occurs(v.query, p)

(* No parameter but the first looks like an entity. *)
Plain(query) == \A i \in 2 .. Len(query) : query[i].key \notin EntityKeys

(* Nothing in it looks like an entity. *)
Literal(u) == Plain(u.query) /\ \A i \in DOMAIN u.path : Entities[u.path[i]] = u.path[i]

(* An absolute anchor that is neither refused nor read differently.        *)
Usable(ref) ==
    /\ ref.kind = "absolute" /\ ref.host \notin Refused /\ Literal(ref) /\ ~Unfit(ref)
    /\ \A i \in DOMAIN ref.path : ref.path[i] \notin BadEscapes

(* Unescaping once more makes no difference to what anchors are joined with.*)
LiteralBase == Literal(DocumentBase(page)) /\ ~Unfit(DocumentBase(page))

-----------------------------------------------------------------------------
(* The links that are returned are in normal form: no dot segment, no      *)
(* empty segment but the first, no tracking parameter, parameters in       *)
(* order, no default port, no host that is refused.                        *)
LinksAreNormal ==
    \A i \in DOMAIN links :
        LET u == links[i].url
        IN  /\ \A k \in DOMAIN u.path : Ordinary(u.path[k]) \/ (k = 1 /\ u.path[k] = "")
            /\ \A k \in DOMAIN u.query : u.query[k].key \notin Tracking
            /\ \A k \in 2 .. Len(u.query) : ~Before(u.query[k], u.query[k - 1])
            /\ u.port # DefaultPort(u.scheme) /\ u.host \notin Refused

(* Two absolute anchors share a link exactly when they name the same       *)
(* resource, and a link carries the text of the first anchor that names it *)
(* (README: deduplicate links by normalized URL while retaining the first  *)
(* link text).                                                             *)
OneLinkPerResource ==
    pc = "visit" =>
        \A i \in DOMAIN page.anchors :
            LET Linked == \E l \in DOMAIN links : links[l].anchor = i
                Repeats == \E k \in 1 .. i - 1 :
                               SameResource(page.anchors[k], page.anchors[i])
            IN  LiteralBase /\ (\A k \in 1 .. i : Usable(page.anchors[k]))
                => (Linked <=> ~Repeats)

(* Paths without entities and escapes, and with an empty segment at most   *)
(* at the end.                                                             *)
Tidy(path) ==
    /\ \A i \in DOMAIN path :
          Entities[path[i]] = path[i] /\ Decode[path[i]] = path[i] /\ path[i] \notin BadEscapes
    /\ \A i \in 1 .. Len(path) - 1 : path[i] # ""

(* A relative anchor is resolved in the directory of the base, as written: *)
(* a last segment without a slash is replaced and one with a slash is kept,*)
(* although normalisation has removed that slash.                          *)
ResolvedInDirectory ==
    LET base == DocumentBase(page)
    IN  \A l \in DOMAIN links :
            LET a == page.anchors[links[l].anchor]
            IN  /\ a.kind = "relative" /\ Tidy(a.path) /\ Tidy(base.path)
                /\ base.path # <<>> => Last(base.path) \notin {".", ".."}
                /\ NormalizeQuery(base.query) = <<>>
                => links[l].url.path =
                      Meaning((IF base.path = <<>> THEN <<>> ELSE Front(base.path)) \o a.path)

(* The URL that is fetched is the URL that was extracted, unless something *)
(* in it looks like an entity, its base has made it too long or its host   *)
(* is a private address.                                                   *)
FetchedAsExtracted ==
    \A i \in DOMAIN visited :
        LET u == links[i].url
        IN  Literal(u) /\ ~Unfit(u) /\ u.host \notin Private => visited[i] = u

(* test_url_normalizer.py: normalize_url(expected) == expected. *)
NormalizedOnceForAll ==
    \A i \in DOMAIN visited : visited[i] \in {links[i].url, NoUrl}

(* README: ignore malformed URLs. *)
MalformedIgnored ==
    Canonical(page.url, FALSE) # NoUrl => pc # "raised"
=============================================================================
