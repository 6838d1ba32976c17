-------------------------- MODULE PageFetcher_proofs --------------------------
(***************************************************************************)
(* Proofs that the safety properties of PageFetcher hold for any number of *)
(* concurrent fetches, any servers, any answers of the DNS, and any limits.*)
(***************************************************************************)
EXTENDS PageFetcher, TLAPS

-----------------------------------------------------------------------------
(* The inductive invariant, in four parts.                                 *)

(* Only public addresses of a host are approved for it, and the pool only  *)
(* keeps connections to public addresses.                                  *)
ApprovalFacts ==
    /\ \A h \in Hosts : approved[h] \subseteq {a \in Public : OwnerOf[a] = h}
    /\ idle \subseteq Public

(* Which fetches have a response in hand, and a URL.                       *)
ResponseFacts ==
    \A f \in Tasks :
        /\ pc[f] # "idle" => url[f] \in Pages
        /\ pc[f] \in {"idle", "validating", "sending", "sleeping"} \cup Final
              => peer[f] = NoAddress

(* The requests sent, told by the counters; a retry sleeps only while one  *)
(* is left, and every hop has cost at most Retries + 1 requests.           *)
CountFacts ==
    \A f \in Tasks :
        /\ pc[f] \in {"idle", "validating"} => sends[f] = total[f]
        /\ pc[f] = "sending" => sends[f] = total[f] + attempt[f]
        /\ pc[f] \in {"reading", "discarding", "closing", "sleeping"}
              => sends[f] = total[f] + attempt[f] + 1
        /\ pc[f] = "sleeping" => attempt[f] < Retries
        /\ pc[f] \notin Final => total[f] <= chain[f] * (Retries + 1)

IInv == /\ TypeOK
        /\ ApprovalFacts
        /\ ResponseFacts
        /\ CountFacts
        /\ PinnedToOwnHost
        /\ AttemptsReported
        /\ SendsBounded

-----------------------------------------------------------------------------
(* A fetch that has used chain redirects and attempt retries is within the *)
(* bound and has room for one more request; so is one at its next hop.     *)
LEMMA RoomForOne ==
    ASSUME NEW c \in 0 .. MaxRedirects, NEW n \in 0 .. Retries, NEW t \in Nat,
           t <= c * (Retries + 1)
    PROVE  /\ SendBound \in Nat
           /\ t + n + 1 <= SendBound
           /\ t + n + 1 <= (c + 1) * (Retries + 1)
<1> DEFINE K == Retries + 1
<1>1. K \in Nat /\ n + 1 <= K /\ MaxRedirects \in Nat /\ c \in Nat
  BY LimitAssumption
<1>2. (c + 1) * K = c * K + K /\ (MaxRedirects + 1) * K = MaxRedirects * K + K
  <2>1. \A i, k \in Nat : (i + 1) * k = i * k + k
    OBVIOUS
  <2> QED
    BY <1>1, <2>1
<1>3. c * K <= MaxRedirects * K
  <2>1. \A i, j, k \in Nat : i <= j => i * k <= j * k
    <3> SUFFICES ASSUME NEW i \in Nat, NEW j \in Nat, NEW k \in Nat, i <= j
                 PROVE  i * k <= j * k
      OBVIOUS
    <3>1. PICK d \in Nat : j = i + d
      <4>1. j - i \in Nat /\ j = i + (j - i)
        OBVIOUS
      <4> QED
        BY <4>1
    <3>2. (i + d) * k = i * k + d * k /\ d * k \in Nat /\ i * k \in Nat
      OBVIOUS
    <3> QED
      BY <3>1, <3>2
  <2> QED
    BY <1>1, <2>1
<1>4. c * K \in Nat /\ MaxRedirects * K \in Nat
  BY <1>1
<1> HIDE DEF K
<1>5. SendBound = MaxRedirects * K + K
  BY <1>2 DEF SendBound, K
<1>6. t <= c * K
  BY DEF K
<1> QED
  BY <1>1, <1>2, <1>3, <1>4, <1>5, <1>6 DEF K


-----------------------------------------------------------------------------
(* The initial states satisfy the invariant. *)
LEMMA InvInit == Init => IInv
<1> SUFFICES ASSUME Init PROVE IInv
  OBVIOUS
<1> USE SiteAssumption, LimitAssumption
        DEF Init, TypedError, Final, Awaiting, Control
<1>1. TypeOK
  <2>1. 0 \in 0 .. MaxRedirects /\ 0 \in 0 .. Retries
    OBVIOUS
  <2>2. /\ chain \in [Tasks -> 0 .. MaxRedirects]
        /\ attempt \in [Tasks -> 0 .. Retries]
    BY <2>1
  <2>3. total \in [Tasks -> Nat] /\ sends \in [Tasks -> Nat] /\ reported \in [Tasks -> Nat]
    OBVIOUS
  <2> QED
    BY <2>2, <2>3 DEF TypeOK
<1>2. ApprovalFacts /\ ResponseFacts /\ PinnedToOwnHost /\ AttemptsReported
  BY DEF ApprovalFacts, ResponseFacts, PinnedToOwnHost, AttemptsReported
<1>3. CountFacts
  <2>1. 0 <= 0 * (Retries + 1)
    OBVIOUS
  <2> QED
    BY <2>1 DEF CountFacts
<1>4. SendsBounded
  <2>1. 0 <= SendBound
    <3>1. 0 \in 0 .. MaxRedirects /\ 0 \in 0 .. Retries /\ 0 <= 0 * (Retries + 1)
      OBVIOUS
    <3>2. SendBound \in Nat
      BY <3>1, RoomForOne
    <3> QED
      BY <3>2
  <2> QED
    BY <2>1 DEF SendsBounded
<1> QED
  BY <1>1, <1>2, <1>3, <1>4 DEF IInv

(* A new fetch has counted nothing yet. *)
LEMMA FetchStep ==
    ASSUME IInv, NEW f \in Tasks, Fetch(f)
    PROVE  IInv'
<1> USE DEF IInv, Goto, TypedError, Final, Awaiting, Control
<1>1. TypeOK'
  BY SiteAssumption DEF Fetch, TypeOK
<1>2. ApprovalFacts'
  BY DEF Fetch, ApprovalFacts
<1>3. ResponseFacts'
  BY SiteAssumption DEF Fetch, ResponseFacts, TypeOK
<1>4. CountFacts'
  BY DEF Fetch, CountFacts, TypeOK
<1>5. PinnedToOwnHost'
  BY DEF Fetch, PinnedToOwnHost, ResponseFacts, TypeOK
<1>6. AttemptsReported' /\ SendsBounded'
  BY DEF Fetch, AttemptsReported, SendsBounded, TypeOK
<1> QED
  BY <1>1, <1>2, <1>3, <1>4, <1>5, <1>6

(* A lookup replaces the approved addresses of one host by public addresses*)
(* of that host, whatever other fetches found before.                      *)
LEMMA ValidateStep ==
    ASSUME IInv, NEW f \in Tasks, Validate(f)
    PROVE  IInv'
<1> USE DEF IInv, Goto, TypedError, Final, Awaiting, Control
<1>1. TypeOK'
  <2>1. attempt' \in [Tasks -> 0 .. Retries]
    BY LimitAssumption DEF Validate, TypeOK
  <2>2. approved' \in [Hosts -> SUBSET Addresses]
    BY SiteAssumption DEF Validate, PublicTargets, TypeOK
  <2>3. pc' \in [Tasks -> Control] /\ url' \in [Tasks -> Pages \cup {NoPage}]
    BY SiteAssumption DEF Validate, ResponseFacts, TypeOK
  <2> QED
    BY <2>1, <2>2, <2>3 DEF Validate, TypeOK
<1>2. ApprovalFacts'
  BY DEF Validate, PublicTargets, ApprovalFacts, TypeOK
<1>3. ResponseFacts'
  BY SiteAssumption DEF Validate, ResponseFacts, TypeOK
<1>4. CountFacts'
  BY DEF Validate, CountFacts, TypeOK
<1>5. PinnedToOwnHost'
  BY DEF Validate, PinnedToOwnHost, ResponseFacts, TypeOK
<1>6. AttemptsReported' /\ SendsBounded'
  BY DEF Validate, AttemptsReported, SendsBounded, TypeOK
<1> QED
  BY <1>1, <1>2, <1>3, <1>4, <1>5, <1>6

(* One request is sent and counted.  Its response comes over an approved or*)
(* a reused connection to the host; without one, an error reports the      *)
(* request just sent.                                                      *)
LEMMA SendStep ==
    ASSUME IInv, NEW f \in Tasks, Send(f)
    PROVE  IInv'
<1> USE DEF IInv, Goto, TypedError, Final, Awaiting, Control
<1>1. /\ pc[f] = "sending" /\ peer[f] = NoAddress /\ url[f] \in Pages
      /\ sends[f] = total[f] + attempt[f] /\ sends[f] + 1 <= SendBound
  <2>1. total[f] <= chain[f] * (Retries + 1)
    BY DEF Send, CountFacts
  <2> QED
    BY <2>1, RoomForOne DEF Send, ResponseFacts, CountFacts, TypeOK
<1>2. sends' = [sends EXCEPT ![f] = @ + 1]
  <2>1. Counted(sends[f]) = sends[f] + 1
    BY <1>1, RoomForOne, LimitAssumption DEF Counted, TypeOK, SendBound
  <2> QED
    BY <2>1 DEF Send
<1>3. CASE Respond(f)
  <2> PICK a \in Reachable(HostOf[url[f]]) :
          peer' = [peer EXCEPT ![f] = a] /\ idle' = idle \ {a}
    BY <1>3 DEF Respond
  <2>1. a \in Public /\ OwnerOf[a] = HostOf[url[f]] /\ a \in Addresses
    BY <1>1, SiteAssumption DEF Reachable, ApprovalFacts, TypeOK
  <2>2. /\ pc' = [pc EXCEPT ![f] = pc'[f]]
        /\ pc'[f] \in {"discarding", "reading", "closing"}
        /\ UNCHANGED <<requested, url, chain, attempt, total, reported, approved, closed>>
    BY <1>3 DEF Send, Respond, TypeOK
  <2>3. answer' \in [Tasks -> Answers \cup {NoPage}]
    BY <1>1, <1>3, SiteAssumption DEF Respond, Answers, TypeOK
  <2>4. TypeOK'
    <3>1. pc' \in [Tasks -> Control]
      BY <2>2 DEF TypeOK
    <3>2. sends' \in [Tasks -> Nat]
      BY <1>2 DEF TypeOK
    <3>3. peer' \in [Tasks -> Addresses \cup {NoAddress}] /\ idle' \subseteq Addresses
      BY <2>1 DEF TypeOK
    <3> QED
      BY <2>2, <2>3, <3>1, <3>2, <3>3 DEF TypeOK
  <2>5. ApprovalFacts' /\ ResponseFacts' /\ PinnedToOwnHost'
    BY <1>1, <2>1, <2>2 DEF ApprovalFacts, ResponseFacts, PinnedToOwnHost, TypeOK
  <2>6. CountFacts'
    BY <1>1, <1>2, <2>2 DEF CountFacts, TypeOK
  <2>7. AttemptsReported' /\ SendsBounded'
    BY <1>1, <1>2, <2>2 DEF AttemptsReported, SendsBounded, TypeOK
  <2> QED
    BY <2>4, <2>5, <2>6, <2>7
<1>4. CASE RetryOrRaise(f) /\ UNCHANGED <<answer, peer, idle>>
  <2>1. UNCHANGED <<requested, url, chain, attempt, total, approved, closed>>
    BY DEF Send
  <2>2. TypeOK'
    <3>1. pc' \in [Tasks -> Control]
      BY <1>4 DEF RetryOrRaise, TypeOK
    <3>2. sends' \in [Tasks -> Nat]
      BY <1>2 DEF TypeOK
    <3>3. reported' \in [Tasks -> Nat]
      BY <1>4, LimitAssumption DEF RetryOrRaise, TypeOK
    <3> QED
      BY <1>4, <2>1, <3>1, <3>2, <3>3 DEF TypeOK
  <2>3. ApprovalFacts' /\ ResponseFacts' /\ PinnedToOwnHost'
    BY <1>1, <1>4, <2>1 DEF RetryOrRaise, ApprovalFacts, ResponseFacts, PinnedToOwnHost, TypeOK
  <2>4. CountFacts'
    BY <1>1, <1>2, <1>4, <2>1 DEF RetryOrRaise, CountFacts, TypeOK
  <2>5. AttemptsReported' /\ SendsBounded'
    BY <1>1, <1>2, <1>4, <2>1, LimitAssumption
       DEF RetryOrRaise, AttemptsReported, SendsBounded, TypeOK
  <2> QED
    BY <2>2, <2>3, <2>4, <2>5
<1>5. CASE Escape(f) /\ UNCHANGED <<answer, peer, idle>>
  <2>1. UNCHANGED <<requested, url, chain, attempt, total, approved, closed>>
    BY DEF Send
  <2>2. TypeOK'
    BY <1>1, <1>2, <1>5, <2>1 DEF Escape, TypeOK
  <2>3. ApprovalFacts' /\ ResponseFacts' /\ PinnedToOwnHost'
    BY <1>1, <1>5, <2>1 DEF Escape, ApprovalFacts, ResponseFacts, PinnedToOwnHost, TypeOK
  <2>4. CountFacts' /\ AttemptsReported' /\ SendsBounded'
    BY <1>1, <1>2, <1>5, <2>1 DEF Escape, CountFacts, AttemptsReported, SendsBounded, TypeOK
  <2> QED
    BY <2>2, <2>3, <2>4
<1> QED
  BY <1>3, <1>4, <1>5 DEF Send

(* A released connection is idle or gone; either way nothing else changes. *)
LEMMA ReleaseFacts ==
    ASSUME IInv, NEW f \in Tasks, Release(f), url[f] \in Pages
    PROVE  /\ peer' = [peer EXCEPT ![f] = NoAddress]
           /\ idle' \subseteq Public
           /\ idle' \subseteq Addresses
<1>1. {peer[f]} \cap Addresses \subseteq Public
  BY SiteAssumption DEF IInv, PinnedToOwnHost
<1> QED
  BY <1>1, SiteAssumption DEF IInv, ApprovalFacts, Release

(* Whatever becomes of the body, the request stays counted, and an error   *)
(* about its size reports it.                                              *)
LEMMA ReadStep ==
    ASSUME IInv, NEW f \in Tasks, Read(f)
    PROVE  IInv'
<1> USE DEF IInv, Goto, TypedError, Final, Awaiting, Control
<1>1. /\ pc[f] = "reading" /\ url[f] \in Pages
      /\ sends[f] = total[f] + attempt[f] + 1
      /\ UNCHANGED <<requested, url, chain, attempt, total, answer, sends, approved, closed>>
  BY DEF Read, ResponseFacts, CountFacts
<1>2. CASE pc' = [pc EXCEPT ![f] = "closing"] /\ UNCHANGED <<peer, idle, reported>>
  BY <1>1, <1>2 DEF TypeOK, ApprovalFacts, ResponseFacts, CountFacts,
                    PinnedToOwnHost, AttemptsReported, SendsBounded
<1>3. CASE pc' = [pc EXCEPT ![f] = "discarding"] /\ UNCHANGED <<peer, idle, reported>>
  BY <1>1, <1>3 DEF TypeOK, ApprovalFacts, ResponseFacts, CountFacts,
                    PinnedToOwnHost, AttemptsReported, SendsBounded
<1>4. CASE /\ Goto(f, "too_large") /\ Release(f)
           /\ reported' = [reported EXCEPT ![f] = total[f] + attempt[f] + 1]
  <2>1. peer' = [peer EXCEPT ![f] = NoAddress] /\ idle' \subseteq Public /\ idle' \subseteq Addresses
    BY <1>1, <1>4, ReleaseFacts
  <2>2. TypeOK'
    <3>1. pc' \in [Tasks -> Control] /\ peer' \in [Tasks -> Addresses \cup {NoAddress}]
      BY <1>4, <2>1 DEF TypeOK
    <3>2. reported' \in [Tasks -> Nat]
      BY <1>4, LimitAssumption DEF TypeOK
    <3> QED
      BY <1>1, <2>1, <3>1, <3>2 DEF TypeOK
  <2>3. ApprovalFacts' /\ ResponseFacts' /\ PinnedToOwnHost'
    BY <1>1, <1>4, <2>1 DEF ApprovalFacts, ResponseFacts, PinnedToOwnHost, TypeOK
  <2>4. CountFacts' /\ AttemptsReported' /\ SendsBounded'
    BY <1>1, <1>4 DEF CountFacts, AttemptsReported, SendsBounded, TypeOK
  <2> QED
    BY <2>2, <2>3, <2>4
<1>5. CASE Escape(f) /\ Release(f)
  <2>1. peer' = [peer EXCEPT ![f] = NoAddress] /\ idle' \subseteq Public /\ idle' \subseteq Addresses
    BY <1>1, <1>5, ReleaseFacts
  <2>2. TypeOK'
    BY <1>1, <1>5, <2>1 DEF Escape, TypeOK
  <2>3. ApprovalFacts' /\ ResponseFacts' /\ PinnedToOwnHost'
    BY <1>1, <1>5, <2>1 DEF Escape, ApprovalFacts, ResponseFacts, PinnedToOwnHost, TypeOK
  <2>4. CountFacts' /\ AttemptsReported' /\ SendsBounded'
    BY <1>1, <1>5 DEF Escape, CountFacts, AttemptsReported, SendsBounded, TypeOK
  <2> QED
    BY <2>2, <2>3, <2>4
<1> QED
  BY <1>2, <1>3, <1>4, <1>5 DEF Read

(* A response that is not used is released before the sleep or the error. *)
LEMMA DiscardStep ==
    ASSUME IInv, NEW f \in Tasks, Discard(f)
    PROVE  IInv'
<1> USE DEF IInv, Goto, TypedError, Final, Awaiting, Control
<1>1. /\ pc[f] = "discarding" /\ url[f] \in Pages /\ RetryOrRaise(f)
      /\ sends[f] = total[f] + attempt[f] + 1
      /\ UNCHANGED <<requested, url, chain, attempt, total, answer, sends, approved, closed>>
  BY DEF Discard, ResponseFacts, CountFacts
<1>2. peer' = [peer EXCEPT ![f] = NoAddress] /\ idle' \subseteq Public /\ idle' \subseteq Addresses
  BY <1>1, ReleaseFacts DEF Discard
<1>3. TypeOK'
  <2>1. pc' \in [Tasks -> Control] /\ peer' \in [Tasks -> Addresses \cup {NoAddress}]
    BY <1>1, <1>2 DEF RetryOrRaise, TypeOK
  <2>2. reported' \in [Tasks -> Nat]
    BY <1>1, LimitAssumption DEF RetryOrRaise, TypeOK
  <2> QED
    BY <1>1, <1>2, <2>1, <2>2 DEF TypeOK
<1>4. ApprovalFacts' /\ ResponseFacts' /\ PinnedToOwnHost'
  BY <1>1, <1>2 DEF RetryOrRaise, ApprovalFacts, ResponseFacts, PinnedToOwnHost, TypeOK
<1>5. CountFacts'
  BY <1>1 DEF RetryOrRaise, CountFacts, TypeOK
<1>6. AttemptsReported' /\ SendsBounded'
  BY <1>1, LimitAssumption DEF RetryOrRaise, AttemptsReported, SendsBounded, TypeOK
<1> QED
  BY <1>3, <1>4, <1>5, <1>6

(* A retry that slept has one attempt more. *)
LEMMA WakeStep ==
    ASSUME IInv, NEW f \in Tasks, Wake(f)
    PROVE  IInv'
<1> USE DEF IInv, Goto, TypedError, Final, Awaiting, Control
<1>1. pc[f] = "sleeping" /\ attempt[f] < Retries /\ sends[f] = total[f] + attempt[f] + 1
  BY DEF Wake, CountFacts
<1>2. TypeOK'
  <2>1. attempt' \in [Tasks -> 0 .. Retries]
    BY <1>1, LimitAssumption DEF Wake, TypeOK
  <2> QED
    BY <2>1 DEF Wake, TypeOK
<1>3. ApprovalFacts' /\ ResponseFacts' /\ PinnedToOwnHost'
  BY <1>1 DEF Wake, ApprovalFacts, ResponseFacts, PinnedToOwnHost, TypeOK
<1>4. CountFacts' /\ AttemptsReported' /\ SendsBounded'
  BY <1>1 DEF Wake, CountFacts, AttemptsReported, SendsBounded, TypeOK
<1> QED
  BY <1>2, <1>3, <1>4

(* A closed response adds the attempts of its hop to the total.  The fetch *)
(* ends and reports it, or starts its next hop with one redirect more, for *)
(* which the bound has room.                                               *)
LEMMA CloseStep ==
    ASSUME IInv, NEW f \in Tasks, Close(f)
    PROVE  IInv'
<1> USE DEF IInv, Goto, TypedError, Final, Awaiting, Control
<1>1. /\ pc[f] = "closing" /\ url[f] \in Pages
      /\ sends[f] = total[f] + attempt[f] + 1
      /\ total' = [total EXCEPT ![f] = @ + attempt[f] + 1]
      /\ UNCHANGED <<requested, attempt, answer, sends, approved, closed>>
  BY DEF Close, ResponseFacts, CountFacts
<1>2. peer' = [peer EXCEPT ![f] = NoAddress] /\ idle' \subseteq Public /\ idle' \subseteq Addresses
  BY <1>1, ReleaseFacts DEF Close
<1>3. /\ total' \in [Tasks -> Nat]
      /\ peer' \in [Tasks -> Addresses \cup {NoAddress}]
  BY <1>1, <1>2 DEF TypeOK
<1>4. total'[f] = sends[f]
  BY <1>1 DEF TypeOK
<1>5. SendsBounded'
  BY <1>1 DEF SendsBounded
<1>6. ASSUME NEW to \in {"result", "redirect_error"}, Finish(f, to)
      PROVE  IInv'
  <2>1. TypeOK'
    BY <1>1, <1>2, <1>3, <1>6 DEF Finish, TypeOK
  <2>2. ApprovalFacts' /\ ResponseFacts' /\ PinnedToOwnHost'
    BY <1>1, <1>2, <1>6 DEF Finish, ApprovalFacts, ResponseFacts, PinnedToOwnHost, TypeOK
  <2>3. CountFacts' /\ AttemptsReported'
    BY <1>1, <1>4, <1>6 DEF Finish, CountFacts, AttemptsReported, TypeOK
  <2> QED
    BY <1>5, <2>1, <2>2, <2>3
<1>7. CASE Redirect(f)
  <2>1. /\ chain' = [chain EXCEPT ![f] = @ + 1] /\ chain[f] < MaxRedirects
        /\ UNCHANGED reported
    BY <1>7 DEF Redirect
  <2>2. chain' \in [Tasks -> 0 .. MaxRedirects]
    BY <2>1, LimitAssumption DEF TypeOK
  <2>3. /\ pc' \in [Tasks -> Control]
        /\ url' \in [Tasks -> Pages \cup {NoPage}] /\ url'[f] \in Pages
    BY <1>1, <1>7, SiteAssumption DEF Redirect, TypeOK
  <2>4. TypeOK'
    BY <1>1, <1>2, <1>3, <2>1, <2>2, <2>3 DEF TypeOK
  <2>5. ApprovalFacts' /\ ResponseFacts' /\ PinnedToOwnHost'
    BY <1>1, <1>2, <1>7, <2>3 DEF Redirect, ApprovalFacts, ResponseFacts, PinnedToOwnHost, TypeOK
  <2>6. total'[f] <= chain'[f] * (Retries + 1)
    <3>1. total[f] <= chain[f] * (Retries + 1)
      BY <1>1 DEF CountFacts
    <3>2. total[f] + attempt[f] + 1 <= (chain[f] + 1) * (Retries + 1)
      BY <3>1, RoomForOne DEF TypeOK
    <3> QED
      BY <1>1, <2>1, <3>2 DEF TypeOK
  <2>7. CountFacts'
    BY <1>1, <1>4, <1>7, <2>1, <2>6 DEF Redirect, CountFacts, TypeOK
  <2>8. AttemptsReported'
    BY <1>1, <1>7 DEF Redirect, AttemptsReported, TypeOK
  <2> QED
    BY <1>5, <2>4, <2>5, <2>7, <2>8
<1> QED
  BY <1>6, <1>7 DEF Close

(* A cancelled fetch has released its response. *)
LEMMA CancelStep ==
    ASSUME IInv, NEW f \in Tasks, Cancel(f)
    PROVE  IInv'
<1> USE DEF IInv, Goto, TypedError, Final, Awaiting, Control
<1>1. /\ pc[f] \in Awaiting /\ url[f] \in Pages
      /\ UNCHANGED <<requested, url, chain, attempt, total, answer, sends, reported,
                     approved, closed>>
  BY DEF Cancel, ResponseFacts
<1>2. peer' = [peer EXCEPT ![f] = NoAddress] /\ idle' \subseteq Public /\ idle' \subseteq Addresses
  BY <1>1, ReleaseFacts DEF Cancel
<1>3. TypeOK'
  BY <1>1, <1>2 DEF Cancel, TypeOK
<1>4. ApprovalFacts' /\ ResponseFacts' /\ PinnedToOwnHost'
  BY <1>1, <1>2 DEF Cancel, ApprovalFacts, ResponseFacts, PinnedToOwnHost, TypeOK
<1>5. CountFacts' /\ AttemptsReported' /\ SendsBounded'
  BY <1>1 DEF Cancel, CountFacts, AttemptsReported, SendsBounded, TypeOK
<1> QED
  BY <1>3, <1>4, <1>5

(* Closing the fetcher empties the pool. *)
LEMMA ACloseStep == IInv /\ AClose => IInv'
BY DEF IInv, AClose, taskVars, TypeOK, ApprovalFacts, ResponseFacts, CountFacts,
       PinnedToOwnHost, AttemptsReported, SendsBounded

(* The invariant does not depend on anything but the variables. *)
LEMMA InvStutter == IInv /\ UNCHANGED vars => IInv'
BY DEF IInv, vars, TypeOK, ApprovalFacts, ResponseFacts, CountFacts,
       PinnedToOwnHost, AttemptsReported, SendsBounded

-----------------------------------------------------------------------------
(* The invariant holds in every reachable state. *)
THEOREM Invariance == Spec => []IInv
<1>1. IInv /\ [Next]_vars => IInv'
  <2> SUFFICES ASSUME IInv, [Next]_vars PROVE IInv'
    OBVIOUS
  <2>1. CASE UNCHANGED vars
    BY <2>1, InvStutter
  <2>2. CASE AClose
    BY <2>2, ACloseStep
  <2>3. CASE Done
    BY <2>3, InvStutter DEF Done
  <2>4. ASSUME NEW f \in Tasks, Fetch(f) \/ Progress(f) \/ Cancel(f) PROVE IInv'
    BY <2>4, FetchStep, ValidateStep, SendStep, ReadStep, DiscardStep, WakeStep,
       CloseStep, CancelStep DEF Progress
  <2> QED
    BY <2>1, <2>2, <2>3, <2>4 DEF Next
<1> QED
  BY InvInit, <1>1, PTL DEF Spec

(* The state always has the shape TypeOK gives it. *)
THEOREM TypeCorrect == Spec => []TypeOK
<1>1. IInv => TypeOK
  BY DEF IInv
<1> QED
  BY <1>1, Invariance, PTL

(* Every response comes from a public address of the host of its URL. *)
THEOREM ResponsesArePinned == Spec => []PinnedToOwnHost
<1>1. IInv => PinnedToOwnHost
  BY DEF IInv
<1> QED
  BY <1>1, Invariance, PTL

(* No fetch sleeps, waits for a lookup or ends with a connection in hand. *)
THEOREM NothingIsLeaked == Spec => []NothingLeftOpen
<1>1. IInv => NothingLeftOpen
  BY DEF IInv, ResponseFacts, NothingLeftOpen
<1> QED
  BY <1>1, Invariance, PTL

(* Results and typed errors report the number of requests sent. *)
THEOREM AttemptsAreReported == Spec => []AttemptsReported
<1>1. IInv => AttemptsReported
  BY DEF IInv
<1> QED
  BY <1>1, Invariance, PTL

(* A fetch sends at most (MaxRedirects + 1) * (Retries + 1) requests. *)
THEOREM SendsAreBounded == Spec => []SendsBounded
<1>1. IInv => SendsBounded
  BY DEF IInv
<1> QED
  BY <1>1, Invariance, PTL

(* The constructor's check is enough: no sleep lacks its delay. *)
THEOREM BackoffsSuffice == Spec => []BackoffDefined
<1>1. IInv => BackoffDefined
  BY LimitAssumption DEF IInv, TypeOK, CountFacts, BackoffDefined
<1> QED
  BY <1>1, Invariance, PTL
=============================================================================
