---------------------------- MODULE UrlNormalizer ----------------------------
(***************************************************************************)
(* normalize_url as operators on URLs that are already split.              *)
(*                                                                         *)
(* A path is the sequence of what stands between its slashes, so <<"a">>   *)
(* is /a, <<"a", "">> is /a/ and <<"">> is /.  A query is a sequence of    *)
(* parameters with numbers for keys, in their order, and sequences of      *)
(* numbers for values.  A reference is what an href or a Location may be.  *)
(* urlsplit, urljoin, normpath and html.unescape are modelled by what they *)
(* do to these.  Left out: case, IDNA, fragments, and entities for the     *)
(* characters that delimit the parts of a URL.                             *)
(***************************************************************************)
EXTENDS Naturals, Sequences, SequencesExt

CONSTANTS
    Segments,     \* segments of paths as they may be written
    Entities,     \* the segment after html.unescape
    Decode,       \* the segment after _normalize_percent_encoding
    BadEscapes,   \* segments with an invalid percent escape
    Hosts,
    Refused,      \* hosts that are local, malformed or carry credentials
    Private,      \* literal addresses that are not public
    Tracking,     \* keys of tracking parameters
    EntityKeys,   \* keys that html.unescape decodes after an ampersand
    Unfit(_),     \* is a URL or reference too long, or has it a blank?
    NoUrl         \* UrlNormalizationError

ASSUME SegmentAssumption ==
    /\ {"", ".", ".."} \subseteq Segments
    /\ Entities \in [Segments -> Segments]
    /\ \A s \in Segments : s = "" <=> Entities[s] = ""
    /\ Decode \in [Segments -> Segments]
    /\ \A s \in {"", ".", ".."} : Decode[s] = s
    /\ \A s \in Segments : Decode[Decode[s]] = Decode[s]
    /\ \A s \in Segments \ {""} : Decode[s] # ""
    /\ \A s \in Segments \ BadEscapes : Decode[s] \notin BadEscapes
    /\ Tracking \subseteq Nat /\ EntityKeys \subseteq Nat

Params == [key : Nat, value : Seq(Nat)]

NoPort == 65536
Ports == 0 .. NoPort
DefaultPort(scheme) == IF scheme = "http" THEN 80 ELSE 443

Urls == [scheme : {"http", "https"}, host : Hosts, port : Ports,
         path : Seq(Segments), query : Seq(Params)]

(* http://h/a, //h/a, a/b, /a/b and ?a=b. *)
References ==
    [kind : {"absolute"}, scheme : {"http", "https"}, host : Hosts, port : Ports,
     path : Seq(Segments), query : Seq(Params)]
    \cup [kind : {"network"}, host : Hosts, port : Ports,
          path : Seq(Segments), query : Seq(Params)]
    \cup {r \in [kind : {"relative"}, path : Seq(Segments) \ {<<>>}, query : Seq(Params)] :
              r.path[1] # ""}
    \cup {r \in [kind : {"rooted"}, path : Seq(Segments) \ {<<>>}, query : Seq(Params)] :
              r.path[1] = "" => Len(r.path) = 1}
    \cup [kind : {"query"}, path : {<<>>}, query : Seq(Params)]

ASSUME NoUrlAssumption == NoUrl \notin Urls

(* The elements of a sequence that belong to a set, in their order. *)
Among(s, S) ==
    FoldLeft(LAMBDA kept, x : IF x \in S THEN Append(kept, x) ELSE kept, <<>>, s)

-----------------------------------------------------------------------------
(* Queries *)

(* "&section=2" is read as a section sign and the rest of the word, which  *)
(* become part of the value before it; the first parameter follows a       *)
(* question mark and is safe.  The sign is a number no key or value has.   *)
Sign(k) == 1000 + k

Unescape(query) ==
    FoldLeft(LAMBDA done, p :
                 IF done # <<>> /\ p.key \in EntityKeys
                 THEN [done EXCEPT ![Len(done)].value = @ \o <<Sign(p.key)>> \o p.value]
                 ELSE Append(done, p),
             <<>>, query)

(* The order of sequences of numbers, that of strings. *)
Below(s, t) ==
    \E i \in 1 .. Len(t) :
        /\ \A k \in 1 .. i - 1 : k <= Len(s) /\ s[k] = t[k]
        /\ i > Len(s) \/ s[i] < t[i]

Before(p, q) == p.key < q.key \/ (p.key = q.key /\ Below(p.value, q.value))

Wanted(query) == {p \in ToSet(query) : p.key \notin Tracking}

(* Seeded bug: the parameters are left in the order of the page. *)
NormalizeQuery_Unsorted(query) == Among(query, Wanted(query))

(* list.sort: no parameter is before one that precedes it. *)
Sorted(query) ==
    LET Orders == {p \in Bijection(DOMAIN query, DOMAIN query) :
                       \A i, k \in DOMAIN query : i < k => ~Before(query[p[k]], query[p[i]])}
    IN  [i \in DOMAIN query |-> query[(CHOOSE p \in Orders : TRUE)[i]]]

NormalizeQuery(query) == Sorted(Among(query, Wanted(query)))

-----------------------------------------------------------------------------
(* Paths *)

(* posixpath.normpath of an absolute path.  It keeps two slashes at the    *)
(* front, but makes one of three or more.                                  *)
Down(path, s) ==
    CASE s \in {"", "."} -> path
      [] s = ".." -> IF path = <<>> THEN <<>> ELSE Front(path)
      [] OTHER -> Append(path, s)

TwoSlashes(path) == Len(path) > 1 /\ path[1] = "" /\ path[2] # ""

NormPath(path) ==
    LET kept == FoldLeft(Down, <<>>, path)
    IN  IF TwoSlashes(path) /\ kept # <<>> THEN <<"">> \o kept ELSE kept

Decoded(path) == [i \in DOMAIN path |-> Decode[path[i]]]

(* Seeded bug: escapes are decoded after the dot segments are resolved. *)
NormalizePath_DecodesLast(path) == Decoded(NormPath(path))

NormalizePath(path) == NormPath(Decoded(path))

-----------------------------------------------------------------------------
(* html.unescape of a whole URL or reference. *)
Unescaped(u) ==
    [u EXCEPT !.path = [i \in DOMAIN @ |-> Entities[@[i]]], !.query = Unescape(@)]

(* normalize_url, once the candidate has been joined. *)
Normalized(u, strict) ==
    IF \/ u.host \in Refused
       \/ (strict /\ u.host \in Private)
       \/ \E i \in DOMAIN u.path : u.path[i] \in BadEscapes
    THEN NoUrl
    ELSE [u EXCEPT !.port = IF @ = DefaultPort(u.scheme) THEN NoPort ELSE @,
                   !.path = NormalizePath(@),
                   !.query = NormalizeQuery(@)]

(* normalize_url without a base. *)
Canonical(u, strict) ==
    IF Unfit(Unescaped(u)) THEN NoUrl ELSE Normalized(Unescaped(u), strict)

-----------------------------------------------------------------------------
(* urljoin.  It resolves dot segments by itself, counting empty ones, which*)
(* it drops from relative paths only; a path that ends with one ends with  *)
(* a slash.                                                                *)
Up(parts, s) ==
    CASE s = "." -> parts
      [] s = ".." -> IF parts = <<>> THEN <<>> ELSE Front(parts)
      [] OTHER -> Append(parts, s)

JoinPaths(base, kind, path) ==
    LET above == IF base = <<>> THEN <<>> ELSE Front(base)
        parts == IF kind = "rooted" THEN path
                 ELSE Append(Among(above \o Front(path), Segments \ {""}), Last(path))
        left  == FoldLeft(Up, <<"">>, parts)
        whole == IF Last(path) \in {".", ".."} THEN Append(left, "") ELSE left
    IN  IF Len(whole) > 1 /\ Head(whole) = "" THEN Tail(whole) ELSE whole

Absolute(ref, scheme) ==
    [scheme |-> scheme, host |-> ref.host, port |-> ref.port,
     path |-> ref.path, query |-> ref.query]

Join(base, ref) ==
    CASE ref.kind = "absolute" -> Absolute(ref, ref.scheme)
      [] ref.kind = "network" -> Absolute(ref, base.scheme)
      [] ref.kind = "query" -> IF ref.query = <<>> THEN base ELSE [base EXCEPT !.query = ref.query]
      [] OTHER -> [base EXCEPT !.path = JoinPaths(@, ref.kind, ref.path), !.query = ref.query]

(* Seeded bug: the slash that normalisation removes is not put back. *)
ResolutionBase_NoSlash(base) == Canonical(Unescaped(base), FALSE)

(* The slash at the end of a base is put back at the end of the whole URL, *)
(* where it is part of the last value if there is a query.                 *)
Slash == 47

ResolutionBase(base) ==
    LET raw == Unescaped(base)
        b == Canonical(raw, FALSE)
    IN  IF \/ b = NoUrl \/ b.path = <<>>
           \/ raw.path = <<>> \/ Last(raw.path) # ""
        THEN b
        ELSE IF b.query = <<>> THEN [b EXCEPT !.path = Append(@, "")]
             ELSE [b EXCEPT !.query[Len(b.query)].value = Append(@, Slash)]

(* normalize_url with a base.  The base is unescaped twice.                *)
Resolve(ref, base, strict) ==
    LET b == ResolutionBase(base)
        candidate == Unescaped(ref)
    IN  IF Unfit(candidate) \/ b = NoUrl THEN NoUrl
        ELSE Normalized(Join(b, candidate), strict)
=============================================================================
