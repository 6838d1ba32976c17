-------------------------- MODULE MCLinkExtraction ---------------------------
(* Pages with two absolute anchors that differ in one part of the URL,      *)
(* pages with one relative anchor under every base, pages with anchors to   *)
(* hubs and to social platforms, and pages with addresses.                  *)
EXTENDS PageExtraction

CONSTANTS h, other, local, private, twitter, youtube, xx

PathSegs == {"", ".", "..", "a", "b", "%2e%2e", "%zz"}
HubSegs == {"", "..", "a", "pricing", "%70ricing", "Pricing", "log-in"}
SocialSegs == {"", "..", "a", "share", "SHARE", "%73hare", "intent", "dialog", "watch", "shorts"}
EntitySegs == {"a", "&sect", "&%73ect", "&amp;sect", "section sign", "&period;.", "&%70ercnt;zz"}

MCSegments == PathSegs \cup HubSegs \cup SocialSegs \cup EntitySegs \cup {"&percnt;zz"}
MCEntities ==
    [s \in MCSegments |->
        CASE s = "&sect" -> "section sign" [] s = "&amp;sect" -> "&sect"
          [] s = "&period;." -> ".." [] s = "&percnt;zz" -> "%zz" [] OTHER -> s]
MCDecode ==
    [s \in MCSegments |->
        CASE s = "%2e%2e" -> ".." [] s = "%70ricing" -> "pricing" [] s = "%73hare" -> "share"
          [] s = "&%73ect" -> "&sect" [] s = "&%70ercnt;zz" -> "&percnt;zz" [] OTHER -> s]
MCLower ==
    [s \in MCSegments |->
        CASE s = "Pricing" -> "pricing" [] s = "SHARE" -> "share" [] OTHER -> s]

MCKeywords == [pricing |-> {"pricing"}, login |-> {"login", "log-in"}]

Texts == {<<>>, <<"see", "pricing">>, <<"log", "in">>}
MCHyphenated ==
    [t \in Texts \ {<<>>} |->
        IF t = <<"log", "in">> THEN "log-in" ELSE "see-pricing"]

MCHosts == {h, other, local, private, twitter, youtube, xx}

MCLabels ==
    [x \in MCHosts |->
        CASE x = twitter -> <<"www", "twitter", "com">> [] x = youtube -> <<"youtube", "com">>
          [] x = xx -> <<"xx", "com">> [] OTHER -> <<"example", "com">>]
MCSocialDomains ==
    [twitter |-> {<<"twitter", "com">>, <<"x", "com">>},
     youtube |-> {<<"youtube", "com">>, <<"youtu", "be">>}]

(* Two spellings of one address, another one, and the name of a picture. *)
MCEmail == [w \in {"A@x.com", "a@x.com", "b@x.com", "logo@2x.png"} |->
    CASE w = "A@x.com" -> "a@x.com" [] w = "logo@2x.png" -> "none" [] OTHER -> w]

(* At most three segments: joined with its base, a link can be too long. *)
MCUnfit(u) == Len(u.path) > 3

SeqsUpTo(S, n) == UNION {[1 .. k -> S] : k \in 0 .. n}

Url(scheme, host, port, path, query) ==
    [scheme |-> scheme, host |-> host, port |-> port, path |-> path, query |-> query]
Ref(u) == [kind |-> "absolute", scheme |-> u.scheme, host |-> u.host, port |-> u.port,
           path |-> u.path, query |-> u.query]
Relative(kind, path, query) == [kind |-> kind, path |-> path, query |-> query]

(* Keys: 1 is ordinary, 2 an entity such as section, 3 a tracking parameter.*)
FewParams == [key : {1, 2, 3}, value : {<<>>, <<1>>}]

Plainest == Url("https", h, NoPort, <<>>, <<>>)

Paths   == {[Plainest EXCEPT !.path = x] : x \in SeqsUpTo(PathSegs \ {"b", "%zz"}, 3)}
Queries == {[Plainest EXCEPT !.query = x] : x \in SeqsUpTo(FewParams, 2)}
Authorities ==
    {Url(s, x, n, <<>>, <<>>) : s \in {"http", "https"}, x \in {h, other, local, private},
                                n \in {NoPort, 0, 80, 443}}
Broken == {[Plainest EXCEPT !.path = <<"a", "%zz">>]}
Entitled == {[Plainest EXCEPT !.path = x] : x \in SeqsUpTo(EntitySegs, 2)}

Refs(S) == {Ref(u) : u \in S}

PagesWith(urls, bases, anchors) ==
    [url : urls, base : bases, anchors : anchors,
     texts : {<<<<>>, <<>>>>}, nodes : {<<>>}, recipients : {<<>>}]

TwoAnchors(S, texts) ==
    [url : {Plainest}, base : {NoUrl}, anchors : [1 .. 2 -> S],
     texts : [1 .. 2 -> texts], nodes : {<<>>}, recipients : {<<>>}]

Node(tags, comment, words) == [tags |-> tags, comment |-> comment, words |-> words]

Nodes ==
    {Node(t, c, w) : t \in {<<"body">>, <<"body", "script">>, <<"template", "p">>},
                     c \in BOOLEAN,
                     w \in {<<"A@x.com">>, <<"b@x.com", "logo@2x.png">>, <<"b@x.com", "a@x.com">>}}

Contacts ==
    [url : {Plainest}, base : {NoUrl}, anchors : {<<>>}, texts : {<<>>},
     nodes : [1 .. 2 -> Nodes], recipients : SeqsUpTo({"a@x.com", "b@x.com"}, 2)]

Pairs(S) == PagesWith({Plainest}, {NoUrl}, [1 .. 2 -> S])

Bases == {Url("https", h, NoPort, x, y) :
             x \in SeqsUpTo(PathSegs \ {"%zz"}, 2) \cup {<<"a", "b", "">>},
             y \in {<<>>, <<[key |-> 1, value |-> <<1>>]>>, <<[key |-> 3, value |-> <<>>]>>}}

Network(u) == [kind |-> "network", host |-> u.host, port |-> u.port,
               path |-> u.path, query |-> u.query]

Relatives ==
    {Relative("relative", x, <<>>) : x \in {y \in SeqsUpTo(PathSegs, 2) : y # <<>> /\ y[1] # ""}}
    \cup {Relative("rooted", x, <<>>) : x \in {<<"">>, <<"a">>, <<"..", "b", "">>}}
    \cup {Relative("query", <<>>, <<>>),
          Relative("query", <<>>, <<[key |-> 2, value |-> <<1>>], [key |-> 1, value |-> <<>>]>>)}
    \cup {Relative("relative", <<x>>, <<>>) : x \in EntitySegs}
    \cup {Network([Plainest EXCEPT !.host = other, !.port = 80])}

HubPaths == {[Plainest EXCEPT !.path = x] : x \in SeqsUpTo(HubSegs, 2)}
            \cup {[Plainest EXCEPT !.host = other, !.path = <<"pricing">>]}

SocialPaths ==
    {[Plainest EXCEPT !.host = x, !.path = y] :
        x \in {youtube}, y \in SeqsUpTo(SocialSegs, 2)}
    \cup {[Plainest EXCEPT !.host = x, !.path = y] :
        x \in {twitter, xx}, y \in SeqsUpTo({"a", "SHARE", "watch"}, 1)}

AllPages == <<
    TwoAnchors(Refs(HubPaths), Texts),
    TwoAnchors(Refs(SocialPaths), {<<>>}),
    Contacts,
    Pairs(Refs(Paths)),
    Pairs(Refs(Queries)),
    Pairs(Refs(Authorities \cup Broken) \cup {Malformed}),
    PagesWith(Bases, {NoUrl}, [1 .. 1 -> Relatives]),
    Pairs(Refs(Entitled)),
    PagesWith(Entitled, {NoUrl}, [1 .. 1 -> {Relative("relative", <<"b">>, <<>>)}]),
    PagesWith({[Plainest EXCEPT !.path = <<"a", "b">>]}, Relatives \cup {Malformed},
              [1 .. 1 -> Relatives]),
    PagesWith({Plainest}, Refs(Bases \cup Broken), [1 .. 1 -> Relatives]),
    PagesWith(Broken, {NoUrl}, [1 .. 1 -> Relatives]) >>
=============================================================================
