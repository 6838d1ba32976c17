--------------------------- MODULE PageExtraction ----------------------------
(***************************************************************************)
(* What parse_html derives from a page and its links: important pages,     *)
(* social profiles and e-mail addresses, as operators on the state of      *)
(* LinkExtraction.                                                         *)
(*                                                                         *)
(* A page also has the text of each anchor, a sequence of words in lower   *)
(* case; its text nodes, with the tags around them, outermost first, and   *)
(* the addresses they show; and the recipients of its mailto anchors.      *)
(***************************************************************************)
EXTENDS LinkExtraction, FiniteSets

CONSTANTS
    Keywords,      \* the keywords of each type of important page
    Lower,         \* a segment in lower case
    Hyphenated,    \* a text with hyphens for its spaces
    Labels,        \* the DNS labels of a host
    SocialDomains, \* the domains of each platform, as labels
    Share,         \* segments that begin with "share"
    Video,         \* segments that begin with "watch" or "results"
    Email,         \* an address as _normalize_email returns it, or NoEmail
    NoEmail

ASSUME ContentAssumption ==
    /\ Lower \in [Segments -> Segments]
    /\ \A s \in Segments : Lower[Lower[s]] = Lower[s]
    /\ \A i \in DOMAIN Pages : \A p \in Pages[i] :
          /\ p.nodes \in Seq([tags : Seq(STRING) \ {<<>>}, comment : BOOLEAN, words : Seq(DOMAIN Email)])
          /\ p.recipients \in Seq(DOMAIN Email)

Types == DOMAIN Keywords
Platforms == DOMAIN SocialDomains

Text(i) == page.texts[i]

-----------------------------------------------------------------------------
(* detect_important_pages.  unquote makes no keyword of what is left: in a *)
(* normalised path only characters that no keyword has are escaped.        *)

Tokens(text) == ToSet(text) \cup (IF text = <<>> THEN {} ELSE {Hyphenated[text]})

Lowered(path) == [i \in DOMAIN path |-> Lower[path[i]]]

PathSegments(path) == Lowered(Among(path, Segments \ {""}))

(* Seeded bug: a keyword anywhere in the path makes a hub. *)
PathMatch_Anywhere(path, type) == ToSet(PathSegments(path)) \cap Keywords[type] # {}

PathMatch(path, type) ==
    PathSegments(path) # <<>> /\ Last(PathSegments(path)) \in Keywords[type]

TextMatch(text, type) == Tokens(text) \cap Keywords[type] # {}

(* In percent. *)
Confidence(link, type) ==
    LET path == PathMatch(link.url.path, type)
        text == TextMatch(Text(link.anchor), type)
    IN  CASE path /\ text -> 99
          [] path /\ ~text -> 95
          [] ~path /\ text -> 80
          [] OTHER -> 0

(* The links have different URLs, so that no candidate replaces another.   *)
ImportantPages ==
    {[type |-> t, url |-> l.url, confidence |-> Confidence(l, t)] :
        t \in Types, l \in {k \in ToSet(links) : k.internal}}

Candidates == {c \in ImportantPages : c.confidence # 0}

-----------------------------------------------------------------------------
(* detect_social_links.  A host with www. or m. in front ends with the     *)
(* domain as well.                                                         *)

On(platform, host) == \E d \in SocialDomains[platform] : IsSuffix(d, Labels[host])

(* Seeded bug: the segments are compared as they are written. *)
Sharing_CaseSensitive(path) ==
    \/ path[1] \in Share
    \/ Len(path) > 1 /\ path[1] \in {"intent", "sharing"}
    \/ Len(path) > 1 /\ path[1] = "dialog" /\ path[2] \in Share

Sharing(path) ==
    \/ Lower[path[1]] \in Share
    \/ Len(path) > 1 /\ Lower[path[1]] \in {"intent", "sharing"}
    \/ Len(path) > 1 /\ Lower[path[1]] = "dialog" /\ Lower[path[2]] \in Share

Watching(path) ==
    Lower[path[1]] \in Video \/ (Len(path) > 1 /\ Lower[path[1]] = "shorts")

IsProfilePath(platform, path) ==
    path # <<>> /\ ~Sharing(path) /\ (platform = "youtube" => ~Watching(path))

SocialLinks ==
    {[platform |-> p, url |-> l.url] :
        p \in Platforms, l \in ToSet(links)}

Profiles == {c \in SocialLinks : On(c.platform, c.url.host) /\ IsProfilePath(c.platform, c.url.path)}

-----------------------------------------------------------------------------
(* extract_emails *)

NonVisibleTags == {"script", "style", "noscript", "template"}

(* Seeded bug: comments are read as well. *)
Visible_Comments(node) == Last(node.tags) \notin NonVisibleTags

(* Only the element directly around a text is looked at. *)
Visible(node) == ~node.comment /\ Last(node.tags) \notin NonVisibleTags

Raw ==
    FoldLeft(LAMBDA seen, node : IF Visible(node) THEN seen \o node.words ELSE seen,
             <<>>, page.nodes)
        \o page.recipients

(* Seeded bug: addresses are compared as they are written. *)
Emails_RawKeys ==
    LET first == SelectSeq([i \in DOMAIN Raw |-> i],
                           LAMBDA i : \A k \in 1 .. i - 1 : Raw[k] # Raw[i])
    IN  SelectSeq([i \in DOMAIN first |-> Email[Raw[first[i]]]], LAMBDA e : e # NoEmail)

Emails ==
    FoldLeft(LAMBDA found, raw :
                 IF Email[raw] = NoEmail \/ Contains(found, Email[raw]) THEN found
                 ELSE Append(found, Email[raw]),
             <<>>, Raw)

-----------------------------------------------------------------------------
Names(ref, type) ==
    LET path == Lowered(Meaning(ref.path))
    IN  path # <<>> /\ Last(path) \in Keywords[type]

AllUsable == LiteralBase /\ \A i \in DOMAIN page.anchors : Usable(page.anchors[i])

(* No link is refused when the scope of the crawl normalises it again. *)
Settled == \A l \in DOMAIN links : Literal(links[l].url) /\ ~Unfit(links[l].url)

FirstOf(i) == \A k \in 1 .. i - 1 : ~SameResource(page.anchors[k], page.anchors[i])

(* However its URL is written, and in whatever order its anchors come, a   *)
(* page of the crawled host is a hub exactly if what it identifies ends    *)
(* with a keyword: it is listed once for the type, above 0.9.  Any other   *)
(* page is listed, below that, exactly if the first anchor to it says so   *)
(* (README: detection favors navigation hubs; the first link text is       *)
(* retained).                                                              *)
HubsAreFound ==
    pc = "visit" /\ AllUsable /\ Settled =>
        \A i \in DOMAIN page.anchors, t \in Types :
            FirstOf(i) /\ page.anchors[i].host = Root =>
                LET same == {c \in Candidates :
                                c.type = t /\ SameResource(c.url, page.anchors[i])}
                IN  /\ Cardinality(same) <= 1
                    /\ Names(page.anchors[i], t) <=> \E c \in same : c.confidence > 90
                    /\ same # {} <=> Names(page.anchors[i], t) \/ TextMatch(Text(i), t)

(* What shares a page or plays a video on a platform: /share, /intent/...,  *)
(* /sharing/..., /dialog/share, and on youtube /watch, /results, /shorts.   *)
ActsFor(platform, u) ==
    LET path == Lowered(Meaning(u.path))
    IN  \/ path # <<>> /\ path[1] \in Share \cup {"intent", "sharing"}
        \/ Len(path) > 1 /\ path[1] = "dialog" /\ path[2] \in Share
        \/ platform = "youtube" /\ path # <<>> /\ path[1] \in Video \cup {"shorts"}

(* A word that only counts with a slash, which normalisation removes: it   *)
(* is listed as a profile, against the README (sharing/content URLs        *)
(* excluded).                                                              *)
Bare(platform, path) ==
    /\ Len(path) = 1
    /\ \/ Lower[path[1]] \in {"intent", "sharing"}
       \/ platform = "youtube" /\ Lower[path[1]] = "shorts"

(* However the URL is written, a resource on a social platform is a        *)
(* profile, listed once, unless it is the front page, shares or plays.     *)
(* Two slashes in front of the path defeat the prefixes, and so do bare    *)
(* words.                                                                  *)
ProfilesAreFound ==
    pc = "visit" /\ AllUsable =>
        \A i \in DOMAIN page.anchors, p \in Platforms :
            LET a == page.anchors[i]
                same == {c \in Profiles : c.platform = p /\ SameResource(c.url, a)}
            IN  On(p, a.host) /\ ~TwoSlashes(Decoded(a.path)) /\ ~Bare(p, Meaning(a.path)) =>
                    Cardinality(same) =
                        IF Meaning(a.path) = <<>> \/ ActsFor(p, a) THEN 0 ELSE 1

-----------------------------------------------------------------------------
(* A text is shown if it is no comment and stands in no element, however   *)
(* far around it, that is not rendered.                                    *)
Shown(node) ==
    ~node.comment /\ \A i \in DOMAIN node.tags : node.tags[i] \notin NonVisibleTags

(* What is read at each place: the shown texts, and then the recipients.   *)
Reading(n) ==
    CASE n > Len(page.nodes) -> page.recipients
      [] n <= Len(page.nodes) /\ Shown(page.nodes[n]) -> page.nodes[n].words
      [] OTHER -> <<>>

At(p) == Email[Reading(p[1])[p[2]]]

(* The places of addresses: the place and the word. *)
Met ==
    {p \in UNION {{<<n, w>> : w \in DOMAIN Reading(n)} : n \in 1 .. Len(page.nodes) + 1} :
        At(p) # NoEmail}

Earlier(p, q) == p[1] < q[1] \/ (p[1] = q[1] /\ p[2] < q[2])

(* Text in an element that is not rendered stands directly in it.  In the  *)
(* code any other hidden text counts as visible, against the README.       *)
HiddenDirectly ==
    \A n \in DOMAIN page.nodes :
        LET tags == page.nodes[n].tags
        IN  (\E i \in DOMAIN tags : tags[i] \in NonVisibleTags)
                => page.nodes[n].comment \/ Last(tags) \in NonVisibleTags

(* Exactly the addresses that a visible text shows or an anchor writes to  *)
(* are listed, each once, in whatever spelling: wherever an address stands,*)
(* those listed before it have stood earlier.                              *)
EmailsAreListedOnce ==
    pc = "visit" /\ HiddenDirectly =>
        /\ ToSet(Emails) = {At(p) : p \in Met}
        /\ \A i, k \in DOMAIN Emails : i < k =>
              \A q \in Met : At(q) = Emails[k] =>
                 \E p \in Met : At(p) = Emails[i] /\ Earlier(p, q)
=============================================================================
