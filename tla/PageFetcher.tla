----------------------------- MODULE PageFetcher -----------------------------
(***************************************************************************)
(* Concurrent calls of PageFetcher.fetch on one fetcher: validation of     *)
(* every hop, the pinned network backend, retries with backoff, redirects  *)
(* followed by hand, and cancellation at any await.                        *)
(*                                                                         *)
(* A page is a URL as a server knows it.  Canonical is what normalize_url  *)
(* makes of one.  Serves gives, per page, the answers its server has for a *)
(* GET: the Location of a redirect, or NoLocation for any other status.    *)
(* The httpx client and its connection pool are external and appear only   *)
(* through what the code relies on.                                        *)
(***************************************************************************)
EXTENDS Naturals

CONSTANTS
    Tasks,            \* calls of fetch
    Pages, Hosts, Addresses,
    HostOf,           \* the host (and port) of a page
    OwnerOf,          \* the host an address belongs to
    Public,           \* addresses that are globally routable
    Canonical,
    Serves,
    NoLocation,       \* an answer that is not a redirect
    BadLocation,      \* a Location header normalize_url rejects
    NoPage, NoAddress,
    Retries, MaxRedirects,
    Backoffs          \* number of delays the fetcher was given

Answers == Pages \cup {NoLocation, BadLocation}

ASSUME SiteAssumption ==
    /\ HostOf \in [Pages -> Hosts]
    /\ OwnerOf \in [Addresses -> Hosts]
    /\ Public \subseteq Addresses
    /\ Canonical \in [Pages -> Pages]
    /\ \A p \in Pages : HostOf[Canonical[p]] = HostOf[p]
    /\ Serves \in [Pages -> SUBSET Answers]
    /\ NoPage \notin Answers
    /\ NoAddress \notin Addresses
    /\ NoLocation \notin Pages /\ BadLocation \notin Pages /\ NoLocation # BadLocation

(* The guards of the constructor. *)
ASSUME LimitAssumption ==
    /\ Retries \in Nat /\ MaxRedirects \in Nat /\ Backoffs \in Nat
    /\ Retries <= Backoffs

(* No fetch may send more requests than this; the counter stops just above. *)
SendBound == (MaxRedirects + 1) * (Retries + 1)

VARIABLES
    pc,          \* where each fetch is
    requested,   \* requested_url
    url,         \* current_url
    chain,       \* length of redirect_chain
    attempt,     \* index of the retry loop
    total,       \* total_attempts
    answer,      \* what the response being closed turned out to be
    peer,        \* address whose connection carries an unreleased response
    sends,       \* GET requests the fetch has sent
    reported,    \* attempts in the result or in the error
    approved,    \* PinnedNetworkBackend._approved
    idle,        \* addresses the pool keeps an idle connection to
    closed       \* aclose has been called

taskVars == <<requested, url, chain, attempt, total, answer, peer, sends, reported>>
vars == <<pc, requested, url, chain, attempt, total, answer, peer, sends, reported,
          approved, idle, closed>>

TypedError == {"timeout", "network", "redirect_error", "too_large"}
Final == {"result", "url_error", "untyped", "cancelled"} \cup TypedError
Awaiting == {"validating", "sending", "reading", "discarding", "closing", "sleeping"}
Control == {"idle"} \cup Awaiting \cup Final

Goto(f, to) == pc' = [pc EXCEPT ![f] = to]

Init ==
    /\ pc = [f \in Tasks |-> "idle"]
    /\ requested = [f \in Tasks |-> NoPage]
    /\ url = [f \in Tasks |-> NoPage]
    /\ chain = [f \in Tasks |-> 0]
    /\ attempt = [f \in Tasks |-> 0]
    /\ total = [f \in Tasks |-> 0]
    /\ answer = [f \in Tasks |-> NoPage]
    /\ peer = [f \in Tasks |-> NoAddress]
    /\ sends = [f \in Tasks |-> 0]
    /\ reported = [f \in Tasks |-> 0]
    /\ approved = [h \in Hosts |-> {}]
    /\ idle = {}
    /\ closed = FALSE

Fetch(f) ==
    /\ pc[f] = "idle"
    /\ \E p \in Pages :
          /\ requested' = [requested EXCEPT ![f] = Canonical[p]]
          /\ url' = [url EXCEPT ![f] = Canonical[p]]
    /\ Goto(f, "validating")
    /\ UNCHANGED <<chain, attempt, total, answer, peer, sends, reported, approved, idle, closed>>

(* What validate_public_url can return for a host: every address its name  *)
(* resolves to, all of them public.                                        *)
PublicTargets(h) == SUBSET {a \in Public : OwnerOf[a] = h} \ {{}}

(* The URL is normalised once more and its name is looked up anew.  An     *)
(* address that is not public refuses the hop, as does a failed lookup;    *)
(* otherwise the addresses found replace those approved for the host.      *)
Validate(f) ==
    LET h == HostOf[url[f]]
    IN  /\ pc[f] = "validating"
        /\ \/ /\ \E found \in PublicTargets(h) : approved' = [approved EXCEPT ![h] = found]
              /\ url' = [url EXCEPT ![f] = Canonical[@]]
              /\ Goto(f, "sending")
           \/ Goto(f, "url_error") /\ UNCHANGED <<url, approved>>
        /\ attempt' = [attempt EXCEPT ![f] = 0]
        /\ UNCHANGED <<requested, chain, total, answer, peer, sends, reported, idle, closed>>

-----------------------------------------------------------------------------
(* _request_with_retries *)

(* Seeded bug: the backend resolves the name again instead of using the    *)
(* approved addresses.                                                     *)
Reachable_Rebound(h) == {a \in Addresses : OwnerOf[a] = h}

(* Addresses a connection for a host may have: a new one goes to what is   *)
(* approved at that moment, and an idle one of the same host is reused.    *)
Reachable(h) == approved[h] \cup {a \in idle : OwnerOf[a] = h}

Counted(n) == IF n > SendBound THEN n ELSE n + 1

(* The response is in hand.  A transient status is discarded while a retry *)
(* is left and is an answer like any other after that; a redirect and a    *)
(* body nobody asked for are closed unread.                                *)
Respond(f) ==
    /\ \E a \in Reachable(HostOf[url[f]]) :
          /\ peer' = [peer EXCEPT ![f] = a]
          /\ idle' = idle \ {a}
    /\ \/ /\ attempt[f] < Retries
          /\ Goto(f, "discarding")
          /\ UNCHANGED answer
       \/ \E loc \in Serves[url[f]] \cup (IF attempt[f] < Retries THEN {} ELSE {NoLocation}) :
             /\ answer' = [answer EXCEPT ![f] = loc]
             /\ \/ loc = NoLocation /\ Goto(f, "reading")
                \/ Goto(f, "closing")
    /\ UNCHANGED reported

(* Seeded bug: the error counts the attempts of the last hop only. *)
RetryOrRaise_LastHopOnly(f) ==
    \/ /\ attempt[f] < Retries
       /\ Goto(f, "sleeping")
       /\ UNCHANGED reported
    \/ /\ attempt[f] >= Retries
       /\ \E error \in {"timeout", "network"} : Goto(f, error)
       /\ reported' = [reported EXCEPT ![f] = Retries + 1]

(* Seeded bug: one retry too many. *)
RetryOrRaise_OffByOne(f) ==
    \/ /\ attempt[f] <= Retries
       /\ Goto(f, "sleeping")
       /\ UNCHANGED reported
    \/ /\ attempt[f] > Retries
       /\ \E error \in {"timeout", "network"} : Goto(f, error)
       /\ reported' = [reported EXCEPT ![f] = total[f] + Retries + 1]

(* A timeout or a transport error: sleep and try again, or give up and     *)
(* report the attempts of this hop on top of the earlier ones.             *)
RetryOrRaise(f) ==
    \/ /\ attempt[f] < Retries
       /\ Goto(f, "sleeping")
       /\ UNCHANGED reported
    \/ /\ attempt[f] >= Retries
       /\ \E error \in {"timeout", "network"} : Goto(f, error)
       /\ reported' = [reported EXCEPT ![f] = total[f] + Retries + 1]

(* Anything the except clauses do not name: the client is closed, or httpx *)
(* raises an error that is not a TransportError.                           *)
Escape(f) == Goto(f, "untyped") /\ UNCHANGED reported

Send(f) ==
    /\ pc[f] = "sending"
    /\ sends' = [sends EXCEPT ![f] = Counted(@)]
    /\ \/ ~closed /\ Respond(f)
       \/ ~closed /\ RetryOrRaise(f) /\ UNCHANGED <<answer, peer, idle>>
       \/ Escape(f) /\ UNCHANGED <<answer, peer, idle>>
    /\ UNCHANGED <<requested, url, chain, attempt, total, approved, closed>>

(* The connection goes back to the pool when the body was read to its end. *)
Release(f) ==
    /\ peer' = [peer EXCEPT ![f] = NoAddress]
    /\ idle' \in IF closed THEN {{}} ELSE {idle, idle \cup ({peer[f]} \cap Addresses)}

(* _read_limited: the body arrives, is too large, breaks off, or cannot be *)
(* decoded.                                                                *)
Read(f) ==
    /\ pc[f] = "reading"
    /\ \/ Goto(f, "closing") /\ UNCHANGED <<peer, idle, reported>>
       \/ /\ Goto(f, "too_large")
          /\ Release(f)
          /\ reported' = [reported EXCEPT ![f] = total[f] + attempt[f] + 1]
       \/ Goto(f, "discarding") /\ UNCHANGED <<peer, idle, reported>>
       \/ Escape(f) /\ Release(f)
    /\ UNCHANGED <<requested, url, chain, attempt, total, answer, sends, approved, closed>>

(* Seeded bug: a response that is not used is dropped without aclose. *)
Discard_Leaks(f) ==
    /\ pc[f] = "discarding"
    /\ RetryOrRaise(f)
    /\ UNCHANGED <<requested, url, chain, attempt, total, answer, peer, sends, approved, idle, closed>>

Discard(f) ==
    /\ pc[f] = "discarding"
    /\ Release(f)
    /\ RetryOrRaise(f)
    /\ UNCHANGED <<requested, url, chain, attempt, total, answer, sends, approved, closed>>

(* Seeded bug: the retry loop does not advance. *)
Wake_SameAttempt(f) ==
    /\ pc[f] = "sleeping"
    /\ Goto(f, "sending")
    /\ UNCHANGED <<requested, url, chain, attempt, total, answer, peer, sends, reported,
                   approved, idle, closed>>

Wake(f) ==
    /\ pc[f] = "sleeping"
    /\ attempt' = [attempt EXCEPT ![f] = @ + 1]
    /\ Goto(f, "sending")
    /\ UNCHANGED <<requested, url, chain, total, answer, peer, sends, reported,
                   approved, idle, closed>>

-----------------------------------------------------------------------------
(* The rest of the loop of fetch, once the response is closed. *)

Finish(f, to) ==
    /\ Goto(f, to)
    /\ reported' = [reported EXCEPT ![f] = total'[f]]
    /\ UNCHANGED <<url, chain>>

(* Seeded bug: following goes on when the limit is used up. *)
Redirect_OffByOne(f) ==
    /\ answer[f] \in Pages
    /\ chain' = [chain EXCEPT ![f] = IF @ < MaxRedirects THEN @ + 1 ELSE @]
    /\ url' = [url EXCEPT ![f] = Canonical[answer[f]]]
    /\ Goto(f, "validating")
    /\ UNCHANGED reported

Redirect(f) ==
    /\ chain[f] < MaxRedirects
    /\ chain' = [chain EXCEPT ![f] = @ + 1]
    /\ UNCHANGED reported
    /\ \/ /\ answer[f] \in Pages
          /\ url' = [url EXCEPT ![f] = Canonical[answer[f]]]
          /\ Goto(f, "validating")
       \/ /\ answer[f] = BadLocation
          /\ Goto(f, "url_error")
          /\ UNCHANGED url

Close(f) ==
    /\ pc[f] = "closing"
    /\ Release(f)
    /\ total' = [total EXCEPT ![f] = @ + attempt[f] + 1]
    /\ \/ answer[f] = NoLocation /\ Finish(f, "result")
       \/ answer[f] # NoLocation /\ chain[f] >= MaxRedirects /\ Finish(f, "redirect_error")
       \/ answer[f] # NoLocation /\ Redirect(f)
    /\ UNCHANGED <<requested, attempt, answer, sends, approved, closed>>

(* CancelledError is raised at the await; the finally block closes the     *)
(* response if there is one.                                               *)
Cancel(f) ==
    /\ pc[f] \in Awaiting
    /\ Goto(f, "cancelled")
    /\ Release(f)
    /\ UNCHANGED <<requested, url, chain, attempt, total, answer, sends, reported,
                   approved, closed>>

AClose ==
    /\ ~closed
    /\ closed' = TRUE
    /\ idle' = {}
    /\ UNCHANGED <<pc, taskVars, approved>>

-----------------------------------------------------------------------------
(* Steps a fetch takes by itself. *)
Progress(f) ==
    Validate(f) \/ Send(f) \/ Read(f) \/ Discard(f) \/ Wake(f) \/ Close(f)

Done == (\A f \in Tasks : pc[f] \in Final) /\ UNCHANGED vars

Next ==
    \/ \E f \in Tasks : Fetch(f) \/ Progress(f) \/ Cancel(f)
    \/ AClose
    \/ Done

Spec == Init /\ [][Next]_vars

(* Every await ends: lookups, connecting, reading and the pool have time   *)
(* limits, a body has a size limit, and sleeps are finite.                 *)
FairSpec == Spec /\ \A f \in Tasks : WF_vars(Progress(f))

-----------------------------------------------------------------------------
TypeOK ==
    /\ pc \in [Tasks -> Control]
    /\ requested \in [Tasks -> Pages \cup {NoPage}]
    /\ url \in [Tasks -> Pages \cup {NoPage}]
    /\ chain \in [Tasks -> 0 .. MaxRedirects]
    /\ attempt \in [Tasks -> 0 .. Retries]
    /\ total \in [Tasks -> Nat]
    /\ answer \in [Tasks -> Answers \cup {NoPage}]
    /\ peer \in [Tasks -> Addresses \cup {NoAddress}]
    /\ sends \in [Tasks -> Nat]
    /\ reported \in [Tasks -> Nat]
    /\ approved \in [Hosts -> SUBSET Addresses]
    /\ idle \subseteq Addresses
    /\ closed \in BOOLEAN

(* A response is carried by a public address of the very host the current  *)
(* URL names, although all fetches share one table of approvals and one    *)
(* pool, and although the DNS may answer differently every time.           *)
PinnedToOwnHost ==
    \A f \in Tasks : peer[f] # NoAddress =>
        peer[f] \in Public /\ OwnerOf[peer[f]] = HostOf[url[f]]

(* A fetch that sleeps, looks up its next hop or has ended, in whichever   *)
(* way and also by cancellation, holds no connection.                      *)
NothingLeftOpen ==
    \A f \in Tasks : pc[f] \in {"validating", "sending", "sleeping"} \cup Final
        => peer[f] = NoAddress

(* Results and typed errors report exactly the requests that were sent,    *)
(* over all hops and retries.                                              *)
AttemptsReported ==
    \A f \in Tasks : pc[f] \in {"result"} \cup TypedError => reported[f] = sends[f]

(* Retries and redirects multiply, and that is the most a fetch sends.     *)
SendsBounded == \A f \in Tasks : sends[f] <= SendBound

(* There is a delay to sleep for before every further attempt.             *)
BackoffDefined == \A f \in Tasks : pc[f] = "sleeping" => attempt[f] < Backoffs

(* Every fetch ends, even if servers only ever fail or redirect.           *)
FetchEnds == \A f \in Tasks : pc[f] # "idle" ~> pc[f] \in Final

(* The pages a server leads to from p after n redirects. *)
Led(p) ==
    LET led[n \in 0 .. MaxRedirects + 1] ==
            IF n = 0 THEN {p} ELSE UNION {Serves[q] \cap Pages : q \in led[n - 1]}
    IN  led

(* RedirectFetchError: raised for an excessive redirect chain, one in      *)
(* which the server goes on for more than max_redirects redirects.         *)
RedirectErrorMeansLongChain ==
    \A f \in Tasks : pc[f] = "redirect_error" =>
        Led(requested[f])[MaxRedirects + 1] # {}
=============================================================================
